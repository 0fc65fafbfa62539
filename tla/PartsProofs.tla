----------------------------- MODULE PartsProofs -----------------------------
(***************************************************************************)
(* Nine components that share nothing, each proved safe for all values of  *)
(* its constants: Lifespan, HttpDownload, FileIds, RateLimits,             *)
(* StoreSchema, CacheLeases, MediaCache, DownloadQueue and                 *)
(* ProcessSupervisor.  Each has a section with its argument, its           *)
(* inductive invariant, a lemma for each action and its theorem.  The      *)
(* constants and variables of a section are those of its component, in the *)
(* order of the module, under names that tell the components apart where   *)
(* they differ.  ComponentsProofs takes the theorems to the instances that *)
(* are model-checked.                                                      *)
(***************************************************************************)
EXTENDS Integers, Sequences, FiniteSetTheorems, SequenceTheorems, WellFoundedInduction, TLAPS

\* What several components have.
CONSTANTS None, Handlers
VARIABLES redis, now

-----------------------------------------------------------------------------
(* Lifespan (app/main.py, app/api/routes.py). A phase says what a life     *)
(* owns: it is the owner from its first phase to its last, a handler runs  *)
(* only in the phases from "serve" to the deferred close, when every       *)
(* global is its own, and a resource has been closed only in the phases    *)
(* after. So nothing closes under a handler, and no life finds another's   *)
(* globals.                                                                *)

CONSTANTS Lives, Asks, LifeFaults, MaxAsks
VARIABLES owner, life, bound, handler, closed, probe, flying, ask, lifeFaults, asks

Life == INSTANCE Lifespan WITH MaxFaults <- LifeFaults, faults <- lifeFaults

\* A life: its phase, and what it owns.
LifeType == [pc : Life!Phases, worker : BOOLEAN, returned : BOOLEAN, janitor : BOOLEAN]

\* The phases before a life's globals are bound, those with a handler, and
\* those after a resource was closed.
Unbound == {"off", "setup", "redis", "store", "bot", "globals"}
\* The phases with a handler.
Handling == {"serve", "drain", "stop", "background", "leave", "deferred", "cancelled"}
\* The phases after the resource r may have been closed.
After(r) == {"clear", "over"}
            \cup (IF r = "redis" THEN {} ELSE {"close redis"})
            \cup (IF r = "bot_app" THEN {"close job_store"} ELSE {})

\* What a life's phase says of the owner, the globals, its handler and its resources.
LifeFine(l) ==
    /\ life[l].pc \notin {"off", "over"} => owner = l
    /\ l \in handler => life[l].pc \in Handling
    /\ l \in handler \/ life[l].pc \in {"worker", "ingress", "serve"} => \A g \in Life!Globals : bound[g] = l
    /\ life[l].janitor => life[l].pc \in {"bot", "globals", "worker", "ingress", "serve", "drain",
                                          "stop", "background", "cancelled"}
    /\ life[l].worker \/ life[l].pc \in {"off", "setup", "over"}
    /\ life[l].returned => life[l].pc \in {"deferred", "close bot_app", "close job_store",
                                           "close redis", "clear", "over"}
    /\ (\E g \in Life!Globals : bound[g] = l) => life[l].pc \notin {"off", "setup", "over"}
    /\ bound["bot_app"] = l => life[l].pc \notin Unbound
    /\ \A r \in Life!Resources : closed[<<l, r>>] <= 1 /\ (closed[<<l, r>>] # 0 => life[l].pc \in After(r))
    /\ \A t \in flying : t[1] = l => life[l].pc \notin Unbound

\* The probe's state names the task of its own bot, and a bot has one task at most.
ProbesFine ==
    /\ probe.has => probe.of = probe.bot
    /\ \A t \in flying : IF probe.bot = t[1] THEN probe.task = t[2] ELSE bound["bot_app"] # t[1]
    /\ \A s, t \in flying : s[1] = t[1] => s = t

\* The invariant.
LifeInv == Life!TypeOK /\ (\A l \in Lives : LifeFine(l)) /\ ProbesFine

\* The phases, one by one.
LEMMA PhasesAre ==
  Life!Phases = {"setup", "redis", "store", "bot", "globals", "worker", "ingress",
            "close bot_app", "close job_store", "close redis", "clear",
            "off", "serve", "drain", "stop", "background", "leave", "deferred", "over", "cancelled"}
<1>1. {Life!Startup[i] : i \in DOMAIN Life!Startup} = {"setup", "redis", "store", "bot", "globals", "worker", "ingress"}
  BY DEF Life!Startup
<1>2. {Life!Closing[i] : i \in DOMAIN Life!Closing} = {"close bot_app", "close job_store", "close redis", "clear"}
  <2>1. DOMAIN Life!Closing = 1 .. 4 /\ Life!Closing[1] = "close bot_app" /\ Life!Closing[2] = "close job_store"
        /\ Life!Closing[3] = "close redis" /\ Life!Closing[4] = "clear"
    BY DEF Life!Closing
  <2>2. 1 .. 4 = {1, 2, 3, 4}
    OBVIOUS
  <2>. QED
    BY <2>1, <2>2
<1>. QED
  BY <1>1, <1>2 DEF Life!Phases

\* What the invariant says, conjunct by conjunct.
LEMMA LifeFacts ==
  ASSUME Life!LifeAssumption, LifeInv
  PROVE  /\ "none" \notin Lives /\ MaxAsks \in Nat /\ LifeFaults \in Nat
         /\ owner \in Lives \cup {"none"}
         /\ life \in [Lives -> LifeType]
         /\ bound \in [Life!Globals -> Lives \cup {"none"}]
         /\ handler \subseteq Lives
         /\ closed \in [Lives \X Life!Resources -> 0 .. 2]
         /\ probe \in [bot : Lives \cup {"none"}, has : BOOLEAN, of : Lives \cup {"none"}, task : 0 .. MaxAsks]
         /\ flying \subseteq Lives \X (1 .. MaxAsks)
         /\ ask \in [Asks -> [pc : {"idle", "wait"}, bot : Lives \cup {"none"}, task : 0 .. MaxAsks]]
         /\ lifeFaults \in 0 .. LifeFaults /\ asks \in 0 .. MaxAsks
         /\ (\A l \in Lives : LifeFine(l)) /\ ProbesFine
  BY DEF Life!LifeAssumption, LifeInv, Life!TypeOK, LifeType, Life!None

\* Whoever does not own the process is not alive.
LEMMA OthersAtRest ==
  ASSUME Life!LifeAssumption, LifeInv, NEW m \in Lives, owner # m
  PROVE  /\ life[m].pc \in {"off", "over"} /\ m \notin handler /\ ~life[m].janitor
         /\ \A g \in Life!Globals : bound[g] # m
  BY LifeFacts DEF LifeFine, Handling

\* What a step of the owner's life must leave.
LEMMA OwnLifeStep ==
  ASSUME Life!LifeAssumption, LifeInv, NEW l \in Lives, owner \in {l, "none"}, owner' \in {l, "none"},
         life' \in [Lives -> LifeType], \A m \in Lives \ {l} : life'[m] = life[m],
         handler' \subseteq handler \cup {l},
         bound' \in [Life!Globals -> Lives \cup {"none"}],
         \A g \in Life!Globals : bound'[g] \in {bound[g], l, "none"},
         bound'["bot_app"] = l => bound["bot_app"] = l \/ life[l].pc \in Unbound,
         closed' \in [Lives \X Life!Resources -> 0 .. 2],
         \A m \in Lives \ {l}, r \in Life!Resources : closed'[<<m, r>>] = closed[<<m, r>>],
         lifeFaults' \in 0 .. LifeFaults, UNCHANGED Life!probing,
         LifeFine(l)'
  PROVE  LifeInv'
<1>1. probe' = probe /\ flying' = flying /\ ask' = ask /\ asks' = asks
  BY DEF Life!probing
<1>2. Life!TypeOK'
  BY <1>1, LifeFacts DEF Life!TypeOK, LifeInv, LifeType, Life!None
<1>3. ASSUME NEW m \in Lives \ {l} PROVE LifeFine(m)'
  <2>1. /\ owner # m /\ life'[m] = life[m] /\ life[m].pc \in {"off", "over"}
        /\ m \notin handler' /\ ~life[m].janitor
        /\ \A g \in Life!Globals : bound'[g] # m
    BY OthersAtRest, LifeFacts
  <2>2. LifeFine(m) /\ "bot_app" \in Life!Globals
    BY LifeFacts DEF Life!Globals
  <2>3. \A r \in Life!Resources : closed'[<<m, r>>] = closed[<<m, r>>]
    OBVIOUS
  <2>. QED
    BY <1>1, <2>1, <2>2, <2>3 DEF LifeFine
<1>4. ProbesFine'
  <2>1. \A t \in flying : bound["bot_app"] # t[1] => bound'["bot_app"] # t[1]
    <3> SUFFICES ASSUME NEW t \in flying, bound["bot_app"] # t[1], bound'["bot_app"] = t[1] PROVE FALSE
      OBVIOUS
    <3>1. t[1] \in Lives /\ "bot_app" \in Life!Globals
      BY LifeFacts DEF Life!Globals
    <3>2. t[1] = l /\ life[l].pc \in Unbound
      BY <3>1, LifeFacts
    <3>. QED
      BY <3>2, LifeFacts DEF LifeFine
  <2>. QED
    BY <1>1, <2>1, LifeFacts DEF ProbesFine
<1>. QED
  BY <1>2, <1>3, <1>4 DEF LifeInv

\* What Go does.
LEMMA GoFacts ==
  ASSUME Life!LifeAssumption, LifeInv, NEW l \in Lives, NEW pc \in Life!Phases, Life!Go(l, pc)
  PROVE  /\ life' \in [Lives -> LifeType] /\ \A m \in Lives \ {l} : life'[m] = life[m]
         /\ life'[l].pc = pc /\ life'[l].worker = life[l].worker
         /\ life'[l].returned = life[l].returned /\ life'[l].janitor = life[l].janitor
  BY LifeFacts DEF Life!Go, LifeType

\* A lifespan begins only when no other owns the process.
LEMMA EnterLife ==
  ASSUME Life!LifeAssumption, LifeInv, NEW l \in Lives, Life!Enter(l)
  PROVE  LifeInv'
<1>1. "setup" \in Life!Phases
  BY PhasesAre
<1>2. /\ owner = "none" /\ owner' = l /\ life[l].pc = "off" /\ Life!Go(l, "setup")
      /\ bound' = bound /\ handler' = handler /\ closed' = closed /\ UNCHANGED Life!probing /\ lifeFaults' = lifeFaults
  BY DEF Life!Enter, Life!At, Life!None
<1>3. LifeFine(l) /\ l \notin handler /\ ~life[l].janitor /\ \A g \in Life!Globals : bound[g] # l
  BY <1>2, OthersAtRest, LifeFacts
<1>4. /\ life'[l].pc = "setup" /\ life'[l].worker = life[l].worker
      /\ life'[l].returned = life[l].returned /\ life'[l].janitor = life[l].janitor
      /\ flying' = flying /\ "bot_app" \in Life!Globals
  BY <1>1, <1>2, GoFacts DEF Life!probing, Life!Globals
<1>5. LifeFine(l)'
  BY <1>2, <1>3, <1>4 DEF LifeFine, Handling, Unbound, After
<1>. QED
  BY <1>1, <1>2, <1>5, GoFacts, OwnLifeStep, LifeFacts

\* A startup phase leads to the next one, and binds the globals after all is open.
LEMMA StartPhaseLife ==
  ASSUME Life!LifeAssumption, LifeInv, NEW l \in Lives, Life!StartPhase(l)
  PROVE  LifeInv'
<1>1. /\ owner' = owner /\ handler' = handler /\ closed' = closed /\ UNCHANGED Life!probing /\ lifeFaults' = lifeFaults
  BY DEF Life!StartPhase
<1>2. PICK i \in DOMAIN Life!Startup :
        /\ Life!At(l, Life!Startup[i])
        /\ life' = [life EXCEPT ![l].pc = IF i = Len(Life!Startup) THEN "serve" ELSE Life!Startup[i + 1],
                                ![l].worker = TRUE,
                                ![l].janitor = @ \/ Life!Startup[i] = "store"]
        /\ bound' = CASE Life!Startup[i] = "bot" -> [bound EXCEPT !["pipeline"] = l]
                      [] Life!Startup[i] = "globals" -> [g \in Life!Globals |-> l]
                      [] OTHER -> bound
  BY DEF Life!StartPhase
<1> DEFINE next == IF i = Len(Life!Startup) THEN "serve" ELSE Life!Startup[i + 1]
<1>3. /\ i \in 1 .. 7 /\ life[l].pc = Life!Startup[i]
      /\ Life!Startup[i] = "setup" => next = "redis"
      /\ Life!Startup[i] = "redis" => next = "store"
      /\ Life!Startup[i] = "store" => next = "bot"
      /\ Life!Startup[i] = "bot" => next = "globals"
      /\ Life!Startup[i] = "globals" => next = "worker"
      /\ Life!Startup[i] = "worker" => next = "ingress"
      /\ Life!Startup[i] = "ingress" => next = "serve"
      /\ Life!Startup[i] \in {"setup", "redis", "store", "bot", "globals", "worker", "ingress"}
  BY <1>2 DEF Life!Startup, Life!At
<1>4. next \in Life!Phases
  BY <1>3, PhasesAre
<1> DEFINE jan == life[l].janitor \/ Life!Startup[i] = "store"
<1>5. jan \in BOOLEAN
  OBVIOUS
<1>60. life' = [life EXCEPT ![l].pc = next, ![l].worker = TRUE, ![l].janitor = jan]
  BY <1>2, LifeFacts
<1> HIDE DEF jan
<1> HIDE DEF next
<1>7. /\ life' \in [Lives -> LifeType] /\ \A m \in Lives \ {l} : life'[m] = life[m]
      /\ life'[l].pc = next /\ life'[l].worker /\ life'[l].janitor = jan
      /\ life'[l].returned = life[l].returned
  <2>1. /\ \A m \in Lives \ {l} : life'[m] = life[m]
        /\ life'[l] = [life[l] EXCEPT !.pc = next, !.worker = TRUE, !.janitor = jan]
        /\ life[l] \in LifeType
    BY <1>60, LifeFacts
  <2>2. life'[l].pc = next /\ life'[l].returned = life[l].returned
    BY <2>1 DEF LifeType
  <2>3. life'[l].janitor = jan
    BY <2>1 DEF LifeType
  <2>4. life'[l].worker = TRUE
    BY <2>1 DEF LifeType
  <2>5. life'[l] \in LifeType
    BY <1>4, <1>5, <2>1 DEF LifeType
  <2>6. life' \in [Lives -> LifeType]
    BY <1>60, <2>1, <2>5, LifeFacts
  <2>. QED
    BY <2>1, <2>2, <2>3, <2>4, <2>6
<1>8. /\ bound' \in [Life!Globals -> Lives \cup {"none"}]
      /\ \A g \in Life!Globals : bound'[g] \in {bound[g], l}
      /\ Life!Startup[i] = "globals" => \A g \in Life!Globals : bound'[g] = l
      /\ Life!Startup[i] # "globals" => bound'["bot_app"] = bound["bot_app"]
      /\ Life!Startup[i] \notin {"bot", "globals"} => bound' = bound
  BY <1>2, LifeFacts DEF Life!Globals
<1>9. owner = l /\ LifeFine(l)
  BY <1>3, LifeFacts DEF LifeFine
<1>10. LifeFine(l)'
  <2>1. ~life[l].returned /\ l \notin handler /\ \A r \in Life!Resources : closed[<<l, r>>] = 0
    <3>1. \A r \in Life!Resources : life[l].pc \notin After(r)
      BY <1>3 DEF After
    <3>2. \A r \in Life!Resources : closed[<<l, r>>] = 0
      BY <3>1, <1>9 DEF LifeFine
    <3>. QED
      BY <1>3, <1>9, <3>2 DEF LifeFine, Handling
  <2>2. jan => next \in {"bot", "globals", "worker", "ingress", "serve"}
    BY <1>3, <1>9 DEF LifeFine, jan
  <2>3. next \in {"worker", "ingress", "serve"} => \A g \in Life!Globals : bound'[g] = l
    BY <1>3, <1>8, <1>9 DEF LifeFine
  <2>4. bound'["bot_app"] = l => next \notin Unbound
    BY <1>3, <1>8, <1>9 DEF LifeFine, Unbound, Life!Globals
  <2>5. \A t \in flying : t[1] = l => next \notin Unbound
    BY <1>3, <1>9 DEF LifeFine, Unbound
  <2>. QED
    BY <1>1, <1>3, <1>7, <1>9, <2>1, <2>2, <2>3, <2>4, <2>5 DEF LifeFine, Life!probing
<1>11. bound'["bot_app"] = l => bound["bot_app"] = l \/ life[l].pc \in Unbound
  BY <1>3, <1>8 DEF Unbound
<1>. QED
  BY <1>1, <1>7, <1>8, <1>9, <1>10, <1>11, OwnLifeStep, LifeFacts

\* A phase that fails releases the owner or begins the shutdown.
LEMMA StartFailsLife ==
  ASSUME Life!LifeAssumption, LifeInv, NEW l \in Lives, Life!StartFails(l)
  PROVE  LifeInv'
<1>1. /\ handler' = handler /\ closed' = closed /\ bound' = bound /\ UNCHANGED Life!probing
      /\ lifeFaults' \in 0 .. LifeFaults
      /\ owner' = Life!Released(l)
      /\ Life!Go(l, IF life[l].worker THEN "drain" ELSE "over")
      /\ life[l].pc \in {"setup", "redis", "store", "bot", "globals", "worker", "ingress"}
  <2>1. \A i \in DOMAIN Life!Startup : Life!Startup[i] \in {"setup", "redis", "store", "bot", "globals", "worker", "ingress"}
    BY DEF Life!Startup
  <2>2. lifeFaults' \in 0 .. LifeFaults
    BY LifeFacts DEF Life!StartFails, Life!Fault
  <2>. QED
    BY <2>1, <2>2 DEF Life!StartFails, Life!At
<1>2. owner = l /\ LifeFine(l)
  BY <1>1, LifeFacts DEF LifeFine
<1>3. CASE life[l].worker
  <2>1. Life!Go(l, "drain") /\ "drain" \in Life!Phases
    BY <1>1, <1>3, PhasesAre
  <2>2. l \notin handler
    BY <1>1, <1>2 DEF LifeFine, Handling
  <2>4. life'[l].worker /\ life'[l].returned = life[l].returned /\ ~life[l].returned
    BY <1>1, <1>2, <1>3, <2>1, GoFacts DEF LifeFine
  <2>5. owner' = l
    BY <1>1, <1>2, <2>4 DEF Life!Released
  <2>6. LifeFine(l)'
    BY <1>1, <1>2, <2>1, <2>2, <2>4, <2>5, GoFacts DEF LifeFine, Life!probing, Handling, Unbound,
       After
  <2>. QED
    BY <1>1, <1>2, <2>1, <2>5, <2>6, GoFacts, OwnLifeStep, LifeFacts
<1>4. CASE ~life[l].worker
  <2>1. Life!Go(l, "over") /\ "over" \in Life!Phases
    BY <1>1, <1>4, PhasesAre
  <2>2. life[l].pc = "setup" /\ ~life'[l].worker
    BY <1>1, <1>2, <1>4, <2>1, GoFacts DEF LifeFine
  <2>3. owner' = "none"
    BY <1>1, <1>2, <2>2 DEF Life!Released, Life!None
  <2>4. LifeFine(l)'
    BY <1>1, <1>2, <2>1, <2>2, <2>3, GoFacts DEF LifeFine, Life!probing, Handling, Unbound, After
  <2>. QED
    BY <1>1, <1>2, <2>1, <2>3, <2>4, GoFacts, OwnLifeStep, LifeFacts
<1>. QED
  BY <1>3, <1>4

\* A step that only moves the phase of a life that serves or ends.
LEMMA MoveLife ==
  ASSUME Life!LifeAssumption, LifeInv, NEW l \in Lives, NEW pc \in Handling \cup {"close bot_app"},
         life[l].pc \in Handling, Life!Go(l, pc), handler' \subseteq handler,
         pc = "close bot_app" => l \notin handler',
         pc # "serve", pc \in {"leave", "deferred", "close bot_app"} => ~life[l].janitor,
         life[l].returned => pc \in {"deferred", "close bot_app"},
         lifeFaults' \in 0 .. LifeFaults, UNCHANGED <<owner, bound, closed, Life!probing>>
  PROVE  LifeInv'
<1>1. pc \in Life!Phases
  BY PhasesAre DEF Handling
<1>2. owner = l /\ LifeFine(l) /\ owner' = owner /\ bound' = bound /\ closed' = closed
      /\ flying' = flying /\ UNCHANGED Life!probing
  BY LifeFacts DEF LifeFine, Handling, Life!probing
<1>3. \A r \in Life!Resources : closed[<<l, r>>] = 0
  <2>1. \A r \in Life!Resources : life[l].pc \notin After(r)
    BY DEF After, Handling
  <2>. QED
    BY <2>1, <1>2 DEF LifeFine
<1>4. LifeFine(l)'
  <2>1. pc \notin Unbound /\ pc \notin {"off", "setup", "over", "worker", "ingress", "serve"}
    BY DEF Handling, Unbound
  <2>2. life[l].worker /\ (life[l].janitor => pc \in {"drain", "stop", "background", "cancelled"})
    BY <1>2 DEF LifeFine, Handling
  <2>3. l \in handler' => pc \in Handling
    OBVIOUS
  <2>. QED
    BY <1>1, <1>2, <1>3, <2>1, <2>2, <2>3, GoFacts DEF LifeFine
<1>. QED
  BY <1>1, <1>2, <1>4, GoFacts, OwnLifeStep, LifeFacts

\* A handler begins while its life serves, and may end at any time.
LEMMA HandlerLife ==
  ASSUME Life!LifeAssumption, LifeInv, NEW l \in Lives, Life!Handle(l) \/ Life!HandlerEnds(l)
  PROVE  LifeInv'
<1>1. owner = l /\ LifeFine(l)
  BY LifeFacts DEF Life!Handle, Life!HandlerEnds, Life!At, LifeFine, Handling
<1>2. /\ UNCHANGED <<owner, life, bound, closed, Life!probing, lifeFaults>>
      /\ handler' \subseteq handler \cup {l}
      /\ l \in handler' => life[l].pc = "serve"
  BY DEF Life!Handle, Life!HandlerEnds, Life!At
<1>3. LifeFine(l)'
  BY <1>1, <1>2 DEF LifeFine, Handling, Life!probing
<1>. QED
  BY <1>1, <1>2, <1>3, OwnLifeStep, LifeFacts

\* The server asks the life to end.
LEMMA ShutdownLife ==
  ASSUME Life!LifeAssumption, LifeInv, NEW l \in Lives, Life!Shutdown(l)
  PROVE  LifeInv'
<1>1. ~life[l].returned
  BY LifeFacts DEF Life!Shutdown, Life!At, LifeFine
<1>. QED
  BY <1>1, MoveLife, LifeFacts DEF Life!Shutdown, Life!At, Handling

\* Drain and stop end the handler or leave it behind.
LEMMA DrainLife ==
  ASSUME Life!LifeAssumption, LifeInv, NEW l \in Lives, Life!Drain(l)
  PROVE  LifeInv'
<1>1. /\ life[l].pc \in {"drain", "stop"}
      /\ Life!Go(l, "stop") \/ Life!Go(l, "background")
      /\ handler' \subseteq handler /\ lifeFaults' \in 0 .. LifeFaults
      /\ UNCHANGED <<owner, bound, closed, Life!probing>>
  BY LifeFacts DEF Life!Drain, Life!At, Life!Fault
<1>2. ~life[l].returned
  BY <1>1, LifeFacts DEF LifeFine
<1>. QED
  BY <1>1, <1>2, MoveLife DEF Handling

\* A cancelled shutdown keeps everything, the owner too.
LEMMA CancelledLife ==
  ASSUME Life!LifeAssumption, LifeInv, NEW l \in Lives, Life!Cancelled(l)
  PROVE  LifeInv'
<1>0. lifeFaults' \in 0 .. LifeFaults
  BY LifeFacts DEF Life!Cancelled, Life!Fault
<1>1. ~life[l].returned /\ lifeFaults' \in 0 .. LifeFaults
  BY <1>0, LifeFacts DEF Life!Cancelled, LifeFine
<1>. QED
  BY <1>1, MoveLife DEF Life!Cancelled, Handling

\* A deferred close waits for the handler.
LEMMA WaitedLife ==
  ASSUME Life!LifeAssumption, LifeInv, NEW l \in Lives, Life!Waited(l)
  PROVE  LifeInv'
<1>1. ~life[l].janitor
  BY LifeFacts DEF Life!Waited, Life!At, LifeFine
<1>. QED
  BY <1>1, MoveLife, LifeFacts DEF Life!Waited, Life!At, Handling, Life!ShutdownComplete

\* The janitor ends.
LEMMA BackgroundLife ==
  ASSUME Life!LifeAssumption, LifeInv, NEW l \in Lives, Life!Background(l)
  PROVE  LifeInv'
<1>1. /\ life[l].pc = "background" /\ life' = [life EXCEPT ![l].pc = "leave", ![l].janitor = FALSE]
      /\ UNCHANGED <<owner, bound, handler, closed, Life!probing, lifeFaults>>
  BY DEF Life!Background, Life!At
<1>2. /\ \A m \in Lives \ {l} : life'[m] = life[m]
      /\ life'[l] = [life[l] EXCEPT !.pc = "leave", !.janitor = FALSE]
      /\ life[l] \in LifeType
  BY <1>1, LifeFacts
<1>3. life'[l].pc = "leave" /\ life'[l].worker = life[l].worker /\ life'[l].returned = life[l].returned
  BY <1>2 DEF LifeType
<1>4. ~life'[l].janitor
  BY <1>2 DEF LifeType
<1>5. life'[l] \in LifeType
  BY <1>2, PhasesAre DEF LifeType
<1>6. life' \in [Lives -> LifeType]
  BY <1>1, <1>2, <1>5, LifeFacts
<1>7. owner = l /\ LifeFine(l)
  BY <1>1, LifeFacts DEF LifeFine
<1>8. \A r \in Life!Resources : closed[<<l, r>>] = 0
  <2>1. \A r \in Life!Resources : life[l].pc \notin After(r)
    BY <1>1 DEF After
  <2>. QED
    BY <2>1, <1>7 DEF LifeFine
<1>9. LifeFine(l)'
  BY <1>1, <1>3, <1>4, <1>7, <1>8 DEF LifeFine, Handling, Unbound, Life!probing
<1>. QED
  BY <1>1, <1>2, <1>6, <1>7, <1>9, OwnLifeStep, LifeFacts

\* The runtime closes only without a handler.
LEMMA LeaveLife ==
  ASSUME Life!LifeAssumption, LifeInv, NEW l \in Lives, Life!Leave(l)
  PROVE  LifeInv'
<1>1. life[l].pc = "leave" /\ UNCHANGED <<owner, bound, handler, closed, Life!probing, lifeFaults>>
  BY DEF Life!Leave, Life!At
<1>2. CASE Life!ShutdownComplete(l)
  <2>1. Life!Go(l, "close bot_app") /\ l \notin handler
    BY <1>2 DEF Life!Leave, Life!Go, Life!ShutdownComplete
  <2>2. ~life[l].janitor
    BY <1>1, LifeFacts DEF LifeFine
  <2>. QED
    BY <1>1, <2>1, <2>2, MoveLife, LifeFacts DEF Handling
<1>3. CASE ~Life!ShutdownComplete(l)
  <2>1. /\ \A m \in Lives \ {l} : life'[m] = life[m]
        /\ life'[l] = [life[l] EXCEPT !.pc = "deferred", !.returned = TRUE]
        /\ life[l] \in LifeType
    BY <1>3, LifeFacts DEF Life!Leave
  <2>2. life'[l].pc = "deferred" /\ life'[l].worker = life[l].worker /\ life'[l].janitor = life[l].janitor
    BY <2>1 DEF LifeType
  <2>3. life'[l] \in LifeType
    BY <2>1, PhasesAre DEF LifeType
  <2>4. life' \in [Lives -> LifeType]
    BY <1>3, <2>1, <2>3, LifeFacts DEF Life!Leave
  <2>5. owner = l /\ LifeFine(l)
    BY <1>1, LifeFacts DEF LifeFine
  <2>6. \A r \in Life!Resources : closed[<<l, r>>] = 0
    <3>1. \A r \in Life!Resources : life[l].pc \notin After(r)
      BY <1>1 DEF After
    <3>. QED
      BY <3>1, <2>5 DEF LifeFine
  <2>7. LifeFine(l)'
    BY <1>1, <2>2, <2>5, <2>6 DEF LifeFine, Handling, Unbound, Life!probing
  <2>. QED
    BY <1>1, <2>1, <2>4, <2>5, <2>7, OwnLifeStep, LifeFacts
<1>. QED
  BY <1>2, <1>3

\* A resource is closed once, with no handler left, and not for another life.
LEMMA CloseLife ==
  ASSUME Life!LifeAssumption, LifeInv, NEW l \in Lives, Life!Close(l)
  PROVE  LifeInv'
<1>1. PICK i \in DOMAIN Life!Order :
         /\ Life!At(l, Life!Closing[i])
         /\ closed' = IF Life!Order[i] = "redis" /\ Life!Adopted(l) THEN closed
                      ELSE [closed EXCEPT ![<<l, Life!Order[i]>>] = @ + 1]
         /\ Life!Go(l, Life!Closing[i + 1])
  BY DEF Life!Close
<1>2. UNCHANGED <<owner, bound, handler, Life!probing, lifeFaults>>
  BY DEF Life!Close
<1> DEFINE pc == life[l].pc  next == Life!Closing[i + 1]  r == Life!Order[i]
<1>3. /\ r \in Life!Resources /\ pc = Life!Closing[i]
      /\ pc \in {"close bot_app", "close job_store", "close redis"}
      /\ next \in {"close job_store", "close redis", "clear"}
      /\ pc = "close bot_app" => next = "close job_store" /\ r = "bot_app"
      /\ pc = "close job_store" => next = "close redis" /\ r = "job_store"
      /\ pc = "close redis" => next = "clear" /\ r = "redis"
  <2>1. i \in {1, 2, 3}
    BY DEF Life!Order
  <2>2. /\ Life!Closing[1] = "close bot_app" /\ Life!Closing[2] = "close job_store"
        /\ Life!Closing[3] = "close redis" /\ Life!Closing[4] = "clear"
        /\ Life!Order[1] = "bot_app" /\ Life!Order[2] = "job_store" /\ Life!Order[3] = "redis"
    BY DEF Life!Closing, Life!Order
  <2>3. pc = Life!Closing[i]
    BY <1>1 DEF Life!At
  <2>4. CASE i = 1
    <3>1. i + 1 = 2
      BY <2>4
    <3>2. pc = "close bot_app" /\ next = "close job_store" /\ r = "bot_app"
      BY <2>2, <2>3, <2>4, <3>1
    <3>. QED
      BY <2>3, <3>2 DEF Life!Resources
  <2>5. CASE i = 2
    <3>1. i + 1 = 3
      BY <2>5
    <3>2. pc = "close job_store" /\ next = "close redis" /\ r = "job_store"
      BY <2>2, <2>3, <2>5, <3>1
    <3>. QED
      BY <2>3, <3>2 DEF Life!Resources
  <2>6. CASE i = 3
    <3>1. i + 1 = 4
      BY <2>6
    <3>2. pc = "close redis" /\ next = "clear" /\ r = "redis"
      BY <2>2, <2>3, <2>6, <3>1
    <3>. QED
      BY <2>3, <3>2 DEF Life!Resources
  <2>. QED
    BY <2>1, <2>4, <2>5, <2>6
<1>4. next \in Life!Phases /\ Life!Go(l, next)
  BY <1>1, <1>3, PhasesAre
<1> HIDE DEF next, r
<1>5. owner = l /\ LifeFine(l) /\ l \notin handler /\ ~life[l].janitor
  BY <1>3, LifeFacts DEF LifeFine, Handling
<1>6. closed[<<l, r>>] = 0
  <2>1. pc \notin After(r)
    BY <1>3 DEF After
  <2>. QED
    BY <2>1, <1>3, <1>5, LifeFacts DEF LifeFine
<1>7. closed' = closed \/ closed' = [closed EXCEPT ![<<l, r>>] = 1]
  <2>1. closed' = closed \/ closed' = [closed EXCEPT ![<<l, r>>] = @ + 1]
    BY <1>1 DEF r
  <2>2. closed[<<l, r>>] + 1 = 1
    BY <1>6
  <2>3. [closed EXCEPT ![<<l, r>>] = @ + 1] = [closed EXCEPT ![<<l, r>>] = closed[<<l, r>>] + 1]
    OBVIOUS
  <2>. QED
    BY <2>1, <2>2, <2>3
<1>8. /\ closed' \in [Lives \X Life!Resources -> 0 .. 2]
      /\ \A m \in Lives, s \in Life!Resources :
            <<m, s>> # <<l, r>> => closed'[<<m, s>>] = closed[<<m, s>>]
      /\ closed'[<<l, r>>] \in 0 .. 1
  <2>1. <<l, r>> \in Lives \X Life!Resources
    BY <1>3
  <2>0. 1 \in 0 .. 2 /\ closed \in [Lives \X Life!Resources -> 0 .. 2]
    BY LifeFacts
  <2>2. \A m \in Lives, s \in Life!Resources : <<m, s>> \in Lives \X Life!Resources
    OBVIOUS
  <2>. QED
    BY <1>6, <1>7, <2>0, <2>1, <2>2
<1>9. ASSUME NEW s \in Life!Resources
      PROVE  closed'[<<l, s>>] <= 1 /\ (closed'[<<l, s>>] # 0 => next \in After(s))
  <2>1. CASE s = r
    <3>1. next \in After(s)
      BY <1>3, <2>1 DEF After
    <3>. QED
      BY <1>8, <2>1, <3>1
  <2>2. CASE s # r
    <3>1. closed'[<<l, s>>] = closed[<<l, s>>]
      BY <1>8, <2>2
    <3>2. pc \in After(s) => next \in After(s)
      BY <1>3 DEF After, Life!Resources
    <3>. QED
      BY <3>1, <3>2, <1>5 DEF LifeFine
  <2>. QED
    BY <2>1, <2>2
<1>10. LifeFine(l)'
  BY <1>2, <1>3, <1>4, <1>5, <1>9, GoFacts DEF LifeFine, Unbound, Life!probing
<1>11. \A m \in Lives \ {l}, s \in Life!Resources : closed'[<<m, s>>] = closed[<<m, s>>]
  BY <1>8
<1>. QED
  BY <1>2, <1>4, <1>5, <1>8, <1>10, <1>11, GoFacts, OwnLifeStep, LifeFacts

\* A life clears its own globals only, and releases the owner.
LEMMA ClearLife ==
  ASSUME Life!LifeAssumption, LifeInv, NEW l \in Lives, Life!Clear(l)
  PROVE  LifeInv'
<1>1. /\ life[l].pc = "clear"
      /\ bound' = [g \in Life!Globals |-> IF bound[g] = l THEN "none" ELSE bound[g]]
      /\ life' = [life EXCEPT ![l].pc = "over", ![l].returned = TRUE]
      /\ owner' = Life!Released(l)
      /\ UNCHANGED <<handler, closed, Life!probing, lifeFaults>>
  BY DEF Life!Clear, Life!At, Life!None
<1>2. /\ \A m \in Lives \ {l} : life'[m] = life[m]
      /\ life'[l] = [life[l] EXCEPT !.pc = "over", !.returned = TRUE]
      /\ life[l] \in LifeType
  BY <1>1, LifeFacts
<1>3. life'[l].pc = "over" /\ life'[l].worker = life[l].worker /\ life'[l].janitor = life[l].janitor
  BY <1>2 DEF LifeType
<1>4. life'[l] \in LifeType /\ life'[l].returned
  BY <1>2, PhasesAre DEF LifeType
<1>5. life' \in [Lives -> LifeType]
  BY <1>1, <1>2, <1>4, LifeFacts
<1>6. owner = l /\ LifeFine(l) /\ l \notin handler /\ ~life[l].janitor
  BY <1>1, LifeFacts DEF LifeFine, Handling
<1>7. owner' = "none"
  BY <1>1, <1>4, <1>6 DEF Life!Released, Life!ShutdownComplete, Life!None
<1>8. /\ bound' \in [Life!Globals -> Lives \cup {"none"}]
      /\ \A g \in Life!Globals : bound'[g] \in {bound[g], "none"} /\ bound'[g] # l
      /\ "bot_app" \in Life!Globals
  BY <1>1, LifeFacts DEF Life!Globals
<1>9. \A s \in Life!Resources : closed[<<l, s>>] <= 1 /\ "over" \in After(s)
  BY <1>6 DEF LifeFine, After
<1>10. \A t \in flying' : t[1] = l => "over" \notin Unbound
  BY DEF Unbound
<1>11. LifeFine(l)'
  BY <1>1, <1>3, <1>6, <1>8, <1>9, <1>10 DEF LifeFine, Life!probing
<1>. QED
  BY <1>1, <1>2, <1>5, <1>6, <1>7, <1>8, <1>11, OwnLifeStep, LifeFacts

\* What a step of the probes must leave.
LEMMA ProbeStepKeeps ==
  ASSUME Life!LifeAssumption, LifeInv, UNCHANGED <<owner, life, bound, handler, closed, lifeFaults>>,
         probe' \in [bot : Lives \cup {"none"}, has : BOOLEAN, of : Lives \cup {"none"}, task : 0 .. MaxAsks],
         flying' \subseteq Lives \X (1 .. MaxAsks),
         ask' \in [Asks -> [pc : {"idle", "wait"}, bot : Lives \cup {"none"}, task : 0 .. MaxAsks]],
         asks' \in 0 .. MaxAsks,
         \A t \in flying' : t \in flying \/ t[1] = bound["bot_app"],
         ProbesFine'
  PROVE  LifeInv'
<1>1. Life!TypeOK'
  BY LifeFacts DEF Life!TypeOK, LifeInv, LifeType, Life!None
<1>2. ASSUME NEW l \in Lives PROVE LifeFine(l)'
  <2>1. \A t \in flying' : t[1] = l => life[l].pc \notin Unbound
    BY LifeFacts DEF LifeFine
  <2>2. /\ owner' = owner /\ life' = life /\ bound' = bound /\ handler' = handler /\ closed' = closed
        /\ LifeFine(l)
    BY LifeFacts
  <2>. QED
    BY <2>1, <2>2 DEF LifeFine
<1>. QED
  BY <1>1, <1>2 DEF LifeInv

\* A readiness request starts a probe only for a bot that has none.
LEMMA AskLife ==
  ASSUME Life!LifeAssumption, LifeInv, NEW r \in Asks, Life!Ask(r)
  PROVE  LifeInv'
<1> DEFINE bot == bound["bot_app"]
           fresh == Life!Fresh(bot)
           number == IF fresh.task # 0 THEN fresh.task ELSE asks + 1
<1>1. /\ asks < MaxAsks /\ asks' = asks + 1
      /\ UNCHANGED <<owner, life, bound, handler, closed, lifeFaults>>
      /\ IF bot = "none" \/ fresh.has
         THEN probe' = fresh /\ UNCHANGED <<flying, ask>>
         ELSE /\ probe' = [fresh EXCEPT !.task = number]
              /\ flying' = flying \cup {<<bot, number>>}
              /\ ask' = [ask EXCEPT ![r] = [pc |-> "wait", bot |-> bot, task |-> number]]
  BY DEF Life!Ask, Life!None
<1>2. bot \in Lives \cup {"none"} /\ asks + 1 \in 1 .. MaxAsks
  BY <1>1, LifeFacts DEF Life!Globals
<1>3. /\ fresh \in [bot : Lives \cup {"none"}, has : BOOLEAN, of : Lives \cup {"none"}, task : 0 .. MaxAsks]
      /\ fresh.bot = bot
      /\ fresh = probe \/ (fresh.has = FALSE /\ fresh.task = 0)
      /\ (probe.bot = bot /\ bot # "none") => fresh = probe
      /\ fresh.has => fresh.of = bot
  <2>1. CASE probe.bot = bot /\ bot # "none"
    BY <2>1, LifeFacts DEF Life!Fresh, ProbesFine, Life!None
  <2>2. CASE ~(probe.bot = bot /\ bot # "none")
    <3>1. fresh = [bot |-> bot, has |-> FALSE, of |-> "none", task |-> 0]
      BY <2>2 DEF Life!Fresh, Life!None
    <3> HIDE DEF fresh
    <3>2. 0 \in 0 .. MaxAsks
      BY LifeFacts
    <3>. QED
      BY <1>2, <2>2, <3>1, <3>2
  <2>. QED
    BY <2>1, <2>2
<1>4. number \in 1 .. MaxAsks
  BY <1>2, <1>3
<1>5. bot = "none" => \A t \in flying : t[1] # bot
  BY LifeFacts
<1>6. CASE bot = "none" \/ fresh.has
  <2>1. probe' = fresh /\ flying' = flying /\ ask' = ask
    BY <1>1, <1>6
  <2>2. ASSUME NEW t \in flying
        PROVE  IF fresh.bot = t[1] THEN fresh.task = t[2] ELSE bound["bot_app"] # t[1]
    <3>1. CASE bot = t[1]
      <4>1. bot # "none" /\ fresh.has /\ fresh = probe
        BY <1>3, <1>5, <1>6, <3>1
      <4>. QED
        BY <1>3, <3>1, <4>1, LifeFacts DEF ProbesFine
    <3>. QED
      BY <1>3, <3>1
  <2>4. \A s, t \in flying : s[1] = t[1] => s = t
    BY LifeFacts DEF ProbesFine
  <2>5. bound' = bound
    BY <1>1
  <2> HIDE DEF fresh, bot
  <2>3. ProbesFine'
    BY <1>3, <2>1, <2>2, <2>4, <2>5 DEF ProbesFine
  <2>. QED
    BY <1>1, <1>2, <1>3, <2>1, <2>3, ProbeStepKeeps, LifeFacts
<1>7. CASE bot # "none" /\ ~fresh.has
  <2>1. /\ probe' = [fresh EXCEPT !.task = number]
        /\ flying' = flying \cup {<<bot, number>>}
        /\ ask' = [ask EXCEPT ![r] = [pc |-> "wait", bot |-> bot, task |-> number]]
    BY <1>1, <1>7
  <2>2. ASSUME NEW t \in flying, t[1] = bot PROVE t[2] = number
    <3>1. probe.bot = bot /\ probe.task = t[2] /\ t[2] \in 1 .. MaxAsks
      BY <2>2, LifeFacts DEF ProbesFine
    <3>2. fresh = probe
      BY <1>3, <1>7, <3>1
    <3>. QED
      BY <3>1, <3>2
  <2> HIDE DEF fresh, number, bot
  <2>3. /\ probe' \in [bot : Lives \cup {"none"}, has : BOOLEAN, of : Lives \cup {"none"}, task : 0 .. MaxAsks]
        /\ probe'.bot = bot /\ probe'.task = number /\ probe'.of = fresh.of
    BY <1>3, <1>4, <2>1
  <2>0. ~probe'.has
    BY <1>3, <1>7, <2>1
  <2>4. bot \in Lives
    BY <1>2, <1>7
  <2>5. flying' \subseteq Lives \X (1 .. MaxAsks)
    BY <1>4, <2>1, <2>4, LifeFacts
  <2>6. ask' \in [Asks -> [pc : {"idle", "wait"}, bot : Lives \cup {"none"}, task : 0 .. MaxAsks]]
    <3>1. [pc |-> "wait", bot |-> bot, task |-> number]
            \in [pc : {"idle", "wait"}, bot : Lives \cup {"none"}, task : 0 .. MaxAsks]
      BY <1>4, <2>4
    <3>. QED
      BY <2>1, <3>1, LifeFacts
  <2>7. ASSUME NEW t \in flying'
        PROVE  /\ t \in flying \/ t[1] = bound["bot_app"]
               /\ IF probe'.bot = t[1] THEN probe'.task = t[2] ELSE bound'["bot_app"] # t[1]
    <3>1. t \in flying \/ t = <<bot, number>>
      BY <2>1
    <3>2. bound' = bound
      BY <1>1
    <3>. QED
      BY <2>2, <2>3, <3>1, <3>2 DEF bot
  <2>10. ASSUME NEW u \in flying', NEW v \in flying', u[1] = v[1] PROVE u = v
    <3>1. \A t \in flying : t = <<t[1], t[2]>> /\ (t[1] = bot => t = <<bot, number>>)
      BY <2>2, LifeFacts
    <3>. QED
      BY <2>1, <2>10, <3>1, LifeFacts DEF ProbesFine
  <2>8. ProbesFine'
    BY <2>0, <2>7, <2>10 DEF ProbesFine
  <2>9. asks' \in 0 .. MaxAsks
    BY <1>1, <1>2
  <2>. QED
    BY <1>1, <2>3, <2>5, <2>6, <2>7, <2>8, <2>9, ProbeStepKeeps
<1>. QED
  BY <1>6, <1>7

\* The end of a probe is recorded only if the state still names it.
LEMMA ProbedLife ==
  ASSUME Life!LifeAssumption, LifeInv, NEW t \in flying, Life!Probed(t)
  PROVE  LifeInv'
<1>1. /\ flying' = flying \ {t}
      /\ UNCHANGED <<owner, life, bound, handler, closed, ask, lifeFaults, asks>>
  BY DEF Life!Probed
<1>2. PICK completed \in BOOLEAN :
         probe' = IF probe.bot = t[1] /\ probe.task = t[2]
                  THEN [probe EXCEPT !.task = 0, !.has = @ \/ completed,
                                     !.of = IF completed THEN t[1] ELSE @]
                  ELSE probe
  BY DEF Life!Probed
<1>3. t \in Lives \X (1 .. MaxAsks)
  BY LifeFacts
<1>4. ASSUME NEW s \in flying', probe.bot = s[1] PROVE probe' = probe
  <2>1. probe.task = s[2] /\ s \in Lives \X (1 .. MaxAsks) /\ s # t
    BY <1>1, <1>4, LifeFacts DEF ProbesFine
  <2>2. ~(probe.bot = t[1] /\ probe.task = t[2])
    BY <1>3, <1>4, <2>1
  <2>. QED
    BY <1>2, <2>2
<1>5. CASE probe.bot = t[1] /\ probe.task = t[2]
  <2>1. probe' = [probe EXCEPT !.task = 0, !.has = @ \/ completed,
                               !.of = IF completed THEN t[1] ELSE @]
    BY <1>2, <1>5
  <2>2. probe'.bot = probe.bot /\ probe'.of = (IF completed THEN t[1] ELSE probe.of)
    BY <2>1, LifeFacts
  <2>3. probe'.has <=> probe.has \/ completed
    BY <2>1, LifeFacts
  <2>4. probe'.has => probe'.of = probe'.bot
    BY <1>5, <2>2, <2>3, LifeFacts DEF ProbesFine
  <2>5. probe' \in [bot : Lives \cup {"none"}, has : BOOLEAN, of : Lives \cup {"none"}, task : 0 .. MaxAsks]
    <3>1. 0 \in 0 .. MaxAsks
      BY LifeFacts
    <3>. QED
      BY <1>3, <2>1, <3>1, LifeFacts
  <2>6. ProbesFine'
    BY <1>1, <1>4, <2>2, <2>4, LifeFacts DEF ProbesFine
  <2>. QED
    BY <1>1, <2>5, <2>6, ProbeStepKeeps, LifeFacts
<1>6. CASE ~(probe.bot = t[1] /\ probe.task = t[2])
  BY <1>1, <1>2, <1>6, ProbeStepKeeps, LifeFacts DEF ProbesFine
<1>. QED
  BY <1>5, <1>6

\* A request that was waiting is answered.
LEMMA AnsweredLife ==
  ASSUME Life!LifeAssumption, LifeInv, NEW r \in Asks, Life!Answered(r)
  PROVE  LifeInv'
<1>1. ask' = [ask EXCEPT ![r].pc = "idle", ![r].task = 0, ![r].bot = Life!None] /\ 0 \in 0 .. MaxAsks
  BY LifeFacts DEF Life!Answered
<1>2. ask' \in [Asks -> [pc : {"idle", "wait"}, bot : Lives \cup {"none"}, task : 0 .. MaxAsks]]
  <2>1. /\ ask'[r] = [ask[r] EXCEPT !.pc = "idle", !.task = 0, !.bot = "none"]
        /\ \A s \in Asks \ {r} : ask'[s] = ask[s]
    BY <1>1, LifeFacts DEF Life!None
  <2>2. ask'[r] \in [pc : {"idle", "wait"}, bot : Lives \cup {"none"}, task : 0 .. MaxAsks]
    <3>1. /\ ask[r] \in [pc : {"idle", "wait"}, bot : Lives \cup {"none"}, task : 0 .. MaxAsks]
          /\ 0 \in 0 .. MaxAsks /\ "idle" \in {"idle", "wait"} /\ "none" \in Lives \cup {"none"}
      BY <1>1, LifeFacts
    <3>2. ask'[r] = [pc |-> "idle", bot |-> "none", task |-> 0]
      BY <2>1, <3>1
    <3>. QED
      BY <3>1, <3>2
  <2>3. ask' \in [Asks -> [pc : {"idle", "wait"}, bot : Lives \cup {"none"}, task : 0 .. MaxAsks]]
    BY <1>1, <2>1, <2>2, LifeFacts
  <2>. QED
    BY <2>3
<1>. QED
  BY <1>2, ProbeStepKeeps, LifeFacts DEF Life!Answered, ProbesFine

\* An old result is forgotten.
LEMMA GrowsOldLife == ASSUME Life!LifeAssumption, LifeInv, Life!GrowsOld PROVE LifeInv'
<1>1. probe' = [probe EXCEPT !.has = FALSE]
  BY DEF Life!GrowsOld
<1>2. /\ probe' \in [bot : Lives \cup {"none"}, has : BOOLEAN, of : Lives \cup {"none"}, task : 0 .. MaxAsks]
      /\ probe'.bot = probe.bot /\ probe'.task = probe.task
  BY <1>1, LifeFacts
<1>3. ~probe'.has
  BY <1>1, LifeFacts
<1>. QED
  BY <1>2, <1>3, ProbeStepKeeps, LifeFacts DEF Life!GrowsOld, ProbesFine

\* The invariant holds in every behaviour, fair or not.
LEMMA LifespanAlways ==
  ASSUME Life!LifeAssumption
  PROVE  Life!Init /\ [][Life!Next]_(Life!vars) => []Life!LifespanIsSafe
<1>1. Life!Init => LifeInv
  <2> SUFFICES ASSUME Life!Init PROVE LifeInv
    OBVIOUS
  <2>0. MaxAsks \in Nat /\ LifeFaults \in Nat /\ 0 \in 0 .. MaxAsks /\ 0 \in 0 .. LifeFaults
        /\ "none" \notin Lives
    BY DEF Life!LifeAssumption
  <2>1. life \in [Lives -> LifeType] /\ \A l \in Lives : life[l] = [pc |-> "off", worker |-> FALSE, returned |-> FALSE, janitor |-> FALSE]
    <3>1. [pc |-> "off", worker |-> FALSE, returned |-> FALSE, janitor |-> FALSE] \in LifeType
      BY PhasesAre DEF LifeType
    <3>. QED
      BY <3>1 DEF Life!Init
  <2>2. /\ \A g \in Life!Globals : bound[g] = "none"
        /\ \A l \in Lives, r \in Life!Resources : closed[<<l, r>>] = 0
        /\ bound["bot_app"] = "none"
    BY DEF Life!Init, Life!None, Life!Globals
  <2>3. Life!TypeOK
    BY <2>0, <2>1 DEF Life!Init, Life!TypeOK, LifeType, Life!None
  <2>4. \A l \in Lives : LifeFine(l)
    <3> SUFFICES ASSUME NEW l \in Lives PROVE LifeFine(l)
      OBVIOUS
    <3>1. /\ life[l].pc = "off" /\ ~life[l].worker /\ ~life[l].returned /\ ~life[l].janitor
          /\ l \notin handler /\ flying = {} /\ l # "none"
      BY <2>0, <2>1 DEF Life!Init
    <3>. QED
      BY <2>2, <3>1 DEF LifeFine
  <2>5. ProbesFine
    BY DEF Life!Init, ProbesFine
  <2>. QED
    BY <2>3, <2>4, <2>5 DEF LifeInv
<1>2. LifeInv /\ [Life!Next]_(Life!vars) => LifeInv'
  <2> SUFFICES ASSUME LifeInv, [Life!Next]_(Life!vars) PROVE LifeInv'
    OBVIOUS
  <2>1. ASSUME NEW l \in Lives,
               Life!Enter(l) \/ Life!StartFails(l) \/ Life!Handle(l) \/ Life!Shutdown(l) \/ Life!Cancelled(l) \/ Life!LifeStep(l)
        PROVE  LifeInv'
    BY <2>1, EnterLife, StartFailsLife, HandlerLife, ShutdownLife, CancelledLife, StartPhaseLife,
       DrainLife, BackgroundLife, LeaveLife, WaitedLife, CloseLife, ClearLife DEF Life!LifeStep
  <2>2. ASSUME NEW r \in Asks, Life!Ask(r) PROVE LifeInv'
    BY <2>2, AskLife
  <2>3. CASE Life!ProbeStep
    BY <2>3, ProbedLife, AnsweredLife DEF Life!ProbeStep
  <2>4. CASE Life!GrowsOld
    BY <2>4, GrowsOldLife
  <2>5. CASE UNCHANGED Life!vars
    <3>1. UNCHANGED <<owner, life, bound, handler, closed, probe, flying, ask, lifeFaults, asks>>
      BY <2>5 DEF Life!vars
    <3>2. Life!TypeOK' /\ ProbesFine'
      BY <3>1, LifeFacts DEF LifeInv, Life!TypeOK, ProbesFine
    <3>3. ASSUME NEW l \in Lives PROVE LifeFine(l)'
      <4>1. LifeFine(l)
        BY LifeFacts
      <4>. QED
        BY <3>1, <4>1 DEF LifeFine
    <3>. QED
      BY <3>2, <3>3 DEF LifeInv
  <2>. QED
    BY <2>1, <2>2, <2>3, <2>4, <2>5 DEF Life!Next
<1>3. LifeInv => Life!LifespanIsSafe
  <2> SUFFICES ASSUME LifeInv PROVE Life!LifespanIsSafe
    OBVIOUS
  <2>1. Life!DependenciesOutliveHandlers
    <3> SUFFICES ASSUME NEW l \in handler
                 PROVE  (\A r \in Life!Resources : closed[<<l, r>>] = 0) /\ \A g \in Life!Globals : bound[g] = l
      BY DEF Life!DependenciesOutliveHandlers
    <3>1. l \in Lives /\ LifeFine(l) /\ life[l].pc \in Handling
      BY LifeFacts DEF LifeFine
    <3>2. \A r \in Life!Resources : life[l].pc \notin After(r)
      BY <3>1 DEF After, Handling
    <3>. QED
      BY <3>1, <3>2 DEF LifeFine
  <2>2. Life!OneRuntime
    BY OthersAtRest DEF Life!OneRuntime
  <2>3. Life!ClosedOnce
    <3>1. \A x \in DOMAIN closed : closed[x] <= 1
      <4> SUFFICES ASSUME NEW l \in Lives, NEW r \in Life!Resources PROVE closed[<<l, r>>] <= 1
        BY LifeFacts
      <4>. QED
        BY LifeFacts DEF LifeFine
    <3>2. \A g \in Life!Globals : bound[g] # Life!None => ~Life!At(bound[g], "over")
      <4> SUFFICES ASSUME NEW g \in Life!Globals, bound[g] # "none" PROVE life[bound[g]].pc # "over"
        BY DEF Life!At, Life!None
      <4>1. bound[g] \in Lives
        BY LifeFacts
      <4>. QED
        BY <4>1, LifeFacts DEF LifeFine
    <3>. QED
      BY <3>1, <3>2 DEF Life!ClosedOnce
  <2>4. Life!ProbesAreOwn
    BY LifeFacts DEF Life!ProbesAreOwn, ProbesFine
  <2>. QED
    BY <2>1, <2>2, <2>3, <2>4 DEF Life!LifespanIsSafe, LifeInv
<1>. QED
  BY <1>1, <1>2, <1>3, PTL

(* Two runtimes of the process never overlap, no resource is closed twice or under a     *)
(* running handler, and a readiness answer is of the bot it names, through failing       *)
(* phases, stuck handlers, deferred closes and cancelled shutdowns (main.py, routes.py), *)
(* for every number of lives, requests and faults.                                       *)
THEOREM LifespanSafe ==
  ASSUME Life!LifeAssumption
  PROVE  Life!Spec => []Life!LifespanIsSafe
  BY LifespanAlways, PTL DEF Life!Spec

-----------------------------------------------------------------------------
(* HttpDownload (app/api/routes.py). The users of the file are the         *)
(* requests at the places that hold it; the release is claimed on the way  *)
(* out of the stream and never before, so a request exits once; and a file *)
(* with users is there, as only the last user's exit deletes it.           *)

CONSTANTS Reqs, Chunks, HttpFaults
VARIABLES download, users, file, httpFaults

Http ==
  INSTANCE HttpDownload WITH
    MaxFaults <- HttpFaults, req <- download, faults <- httpFaults

\* A request: its place, its renewal, its thread and what it has sent.
ReqType == [at : Http!Places, renewal : Http!Renewals, thread : BOOLEAN, cut : BOOLEAN,
            released : BOOLEAN, exits : 0 .. 2, sent : 0 .. Chunks]

\* The places of a request that holds the item, and those before its release.
Holding == {"check", "start", "read", "send", "unwind", "aclose", "exit"}
\* The places of a request whose release has not begun.
Streaming == {"start", "read", "send", "unwind", "aclose"}

\* What the place of a request says of its lease, its renewal and its thread.
ReqFine(r) ==
    /\ r \in users <=> download[r].at \in Holding
    /\ download[r].renewal \in {"running", "failed"} => download[r].at \in {"read", "send", "unwind", "aclose"}
    /\ download[r].renewal = "stopped" => download[r].at \in {"exit", "over"}
    /\ download[r].thread => download[r].at \in {"read", "unwind"}
    /\ download[r].at \in Streaming => ~download[r].released
    /\ download[r].exits <= 1 /\ (download[r].exits # 0 => download[r].at = "over")

\* The invariant: a file that somebody uses is there.
HttpInv ==
    /\ download \in [Reqs -> ReqType] /\ users \subseteq Reqs
    /\ file \in {"none", "kept", "expired"} /\ httpFaults \in 0 .. HttpFaults
    /\ users # {} => file # "none"
    /\ \A r \in Reqs : ReqFine(r)

\* What a step of r must leave: its own record, and the others' as they were.
LEMMA OwnReqStep ==
  ASSUME Http!HttpAssumption, HttpInv, NEW r \in Reqs,
         download' \in [Reqs -> ReqType], \A s \in Reqs \ {r} : download'[s] = download[s],
         users' \subseteq Reqs, \A s \in Reqs \ {r} : s \in users' <=> s \in users,
         file' \in {"none", "kept", "expired"}, httpFaults' \in 0 .. HttpFaults,
         users' # {} => file' # "none",
         ReqFine(r)'
  PROVE  HttpInv'
<1>1. ASSUME NEW s \in Reqs \ {r} PROVE ReqFine(s)'
  <2>1. download'[s] = download[s] /\ (s \in users' <=> s \in users) /\ ReqFine(s)
    BY DEF HttpInv
  <2>. QED
    BY <2>1 DEF ReqFine
<1>. QED
  BY <1>1 DEF HttpInv

\* Moving a request changes its place only.
LEMMA GoesFacts ==
  ASSUME HttpInv, NEW r \in Reqs, NEW place \in Http!Places, Http!Goes(r, place)
  PROVE  /\ download' \in [Reqs -> ReqType] /\ \A s \in Reqs \ {r} : download'[s] = download[s]
         /\ download'[r].at = place /\ download'[r].renewal = download[r].renewal
         /\ download'[r].thread = download[r].thread /\ download'[r].cut = download[r].cut
         /\ download'[r].released = download[r].released /\ download'[r].exits = download[r].exits
  BY DEF HttpInv, Http!Goes, ReqType

\* A step that only moves r.
LEMMA MoveReq ==
  ASSUME Http!HttpAssumption, HttpInv, NEW r \in Reqs, NEW place \in Http!Places, Http!Goes(r, place),
         place \in Holding <=> download[r].at \in Holding,
         place = "over" => download[r].at \in {"idle", "opening"},
         place \in Streaming => download[r].at \in Streaming,
         download[r].renewal \in {"running", "failed"} => place \in {"read", "send", "unwind", "aclose"},
         download[r].renewal = "stopped" => place \in {"exit", "over"},
         download[r].thread => place \in {"read", "unwind"},
         download[r].at # "over",
         httpFaults' \in 0 .. HttpFaults, UNCHANGED <<users, file>>
  PROVE  HttpInv'
<1>1. ReqFine(r) /\ ReqFine(r)'
  BY GoesFacts DEF HttpInv, ReqFine
<1>. QED
  BY <1>1, GoesFacts, OwnReqStep DEF HttpInv

\* A request that is refused has opened nothing.
LEMMA EnterReq ==
  ASSUME Http!HttpAssumption, HttpInv, NEW r \in Reqs, Http!Enter(r)
  PROVE  HttpInv'
<1>1. ReqFine(r) /\ download[r].at = "idle" /\ UNCHANGED <<users, file, httpFaults>> /\ httpFaults \in 0 .. HttpFaults
  BY DEF HttpInv, Http!Enter
<1>2. download[r] \in ReqType
  BY DEF HttpInv
<1>3. download[r].renewal = "none" /\ ~download[r].thread
  BY <1>1, <1>2 DEF ReqFine, ReqType, Http!Renewals
<1>4. PICK place \in {"opening", "over"} : Http!Goes(r, place)
  BY DEF Http!Enter
<1>. QED
  BY <1>1, <1>3, <1>4, MoveReq DEF Holding, Streaming, Http!Places

\* An opened request holds the file.
LEMMA OpenReq ==
  ASSUME Http!HttpAssumption, HttpInv, NEW r \in Reqs, Http!Open(r)
  PROVE  HttpInv'
<1>1. ReqFine(r) /\ download[r].at = "opening" /\ httpFaults' = httpFaults /\ httpFaults \in 0 .. HttpFaults
  BY DEF HttpInv, Http!Open
<1>2. download[r] \in ReqType
  BY DEF HttpInv
<1>3. download[r].renewal = "none" /\ ~download[r].thread /\ download[r].exits = 0
  BY <1>1, <1>2 DEF ReqFine, ReqType, Http!Renewals
<1>4. CASE Http!Goes(r, "check") /\ users' = users \cup {r} /\ file' = "kept"
  <2>1. ReqFine(r)'
    BY <1>3, <1>4, GoesFacts DEF ReqFine, Holding, Streaming, Http!Places
  <2>. QED
    BY <1>1, <1>4, <2>1, GoesFacts, OwnReqStep DEF HttpInv, Http!Places
<1>5. CASE Http!Goes(r, "over") /\ UNCHANGED <<users, file>>
  BY <1>1, <1>3, <1>5, MoveReq DEF Holding, Streaming, Http!Places
<1>. QED
  BY <1>4, <1>5 DEF Http!Open

\* A refused answer exits the lease, another goes on to stream.
LEMMA CheckReq ==
  ASSUME Http!HttpAssumption, HttpInv, NEW r \in Reqs, Http!Check(r)
  PROVE  HttpInv'
<1>1. /\ ReqFine(r) /\ download[r].at = "check" /\ UNCHANGED <<users, file, httpFaults>> /\ httpFaults \in 0 .. HttpFaults
      /\ download[r] \in ReqType
  BY DEF HttpInv, Http!Check
<1>2. download[r].renewal = "none" /\ ~download[r].thread /\ download[r].exits = 0
  BY <1>1 DEF ReqFine, ReqType, Http!Renewals
<1>3. PICK place \in {"start", "exit"} :
        download' = [download EXCEPT ![r].at = place, ![r].released = (place = "exit")]
  BY DEF Http!Check
<1>4. /\ \A s \in Reqs \ {r} : download'[s] = download[s]
      /\ download'[r] = [download[r] EXCEPT !.at = place, !.released = (place = "exit")]
  BY <1>3 DEF HttpInv
<1>5. download'[r] \in ReqType /\ download'[r].at = place
  BY <1>1, <1>4 DEF ReqType, Http!Places
<1>6. download'[r].released <=> place = "exit"
  BY <1>1, <1>4 DEF ReqType
<1>7. download'[r].renewal = download[r].renewal /\ download'[r].exits = download[r].exits
  BY <1>1, <1>4 DEF ReqType
<1>8. download'[r].thread = download[r].thread
  BY <1>1, <1>4 DEF ReqType
<1>9. download' \in [Reqs -> ReqType]
  BY <1>3, <1>5 DEF HttpInv
<1>10. ReqFine(r)'
  BY <1>1, <1>2, <1>5, <1>6, <1>7, <1>8 DEF ReqFine, Holding, Streaming
<1>. QED
  BY <1>1, <1>4, <1>9, <1>10, OwnReqStep DEF HttpInv

\* The first step of the generator starts the renewal.
LEMMA StartStreamReq ==
  ASSUME Http!HttpAssumption, HttpInv, NEW r \in Reqs, Http!StartStream(r)
  PROVE  HttpInv'
<1>1. /\ ReqFine(r) /\ download[r].at = "start" /\ UNCHANGED <<users, file, httpFaults>> /\ httpFaults \in 0 .. HttpFaults
      /\ download[r] \in ReqType
  BY DEF HttpInv, Http!StartStream
<1> DEFINE place == IF file = "kept" THEN "read" ELSE "unwind"
           thread == file = "kept"
<1>2. /\ \A s \in Reqs \ {r} : download'[s] = download[s]
      /\ download'[r] = [download[r] EXCEPT !.at = place, !.renewal = "running", !.thread = thread]
      /\ download' = [download EXCEPT ![r] = download'[r]]
      /\ place \in {"read", "unwind"} /\ thread \in BOOLEAN
  BY DEF HttpInv, Http!StartStream
<1> HIDE DEF place, thread
<1>3. download'[r] \in ReqType /\ download'[r].at = place
  BY <1>1, <1>2 DEF ReqType, Http!Places, Http!Renewals
<1>4. download'[r].renewal = "running" /\ download'[r].exits = download[r].exits
  BY <1>1, <1>2 DEF ReqType
<1>5. download'[r].released = download[r].released
  BY <1>1, <1>2 DEF ReqType
<1>6. download' \in [Reqs -> ReqType]
  BY <1>2, <1>3 DEF HttpInv
<1>7. ReqFine(r)'
  BY <1>1, <1>2, <1>3, <1>4, <1>5 DEF ReqFine, Holding, Streaming
<1>. QED
  BY <1>1, <1>2, <1>6, <1>7, OwnReqStep DEF HttpInv

\* A failed renewal stays with its request.
LEMMA RenewalFailsReq ==
  ASSUME Http!HttpAssumption, HttpInv, NEW r \in Reqs, Http!RenewalFails(r)
  PROVE  HttpInv'
<1>1. /\ ReqFine(r) /\ download[r].renewal = "running" /\ UNCHANGED <<users, file>>
      /\ download[r] \in ReqType
  BY DEF HttpInv, Http!RenewalFails
<1>2. httpFaults' \in 0 .. HttpFaults
  BY DEF HttpInv, Http!RenewalFails, Http!Fault, Http!HttpAssumption
<1>3. /\ \A s \in Reqs \ {r} : download'[s] = download[s]
      /\ download'[r] = [download[r] EXCEPT !.renewal = "failed"]
      /\ download' = [download EXCEPT ![r] = download'[r]]
  BY DEF HttpInv, Http!RenewalFails
<1>4. download'[r] \in ReqType /\ download'[r].at = download[r].at /\ download'[r].renewal = "failed"
      /\ download'[r].exits = download[r].exits
  BY <1>1, <1>3 DEF ReqType, Http!Renewals
<1>5. download'[r].released = download[r].released /\ download'[r].thread = download[r].thread
  BY <1>1, <1>3 DEF ReqType
<1>6. download' \in [Reqs -> ReqType]
  BY <1>3, <1>4 DEF HttpInv
<1>7. ReqFine(r)'
  BY <1>1, <1>4, <1>5 DEF ReqFine
<1>. QED
  BY <1>1, <1>2, <1>3, <1>6, <1>7, OwnReqStep DEF HttpInv

\* The thread ends.
LEMMA ReadEndsReq ==
  ASSUME Http!HttpAssumption, HttpInv, NEW r \in Reqs, Http!ReadEnds(r)
  PROVE  HttpInv'
<1>1. /\ ReqFine(r) /\ UNCHANGED <<users, file, httpFaults>> /\ httpFaults \in 0 .. HttpFaults /\ download[r] \in ReqType
  BY DEF HttpInv, Http!ReadEnds
<1>2. /\ \A s \in Reqs \ {r} : download'[s] = download[s]
      /\ download'[r] = [download[r] EXCEPT !.thread = FALSE]
      /\ download' = [download EXCEPT ![r] = download'[r]]
  BY DEF HttpInv, Http!ReadEnds
<1>3. download'[r] \in ReqType /\ download'[r].at = download[r].at /\ download'[r].renewal = download[r].renewal
      /\ download'[r].exits = download[r].exits
  BY <1>1, <1>2 DEF ReqType
<1>4. download'[r].released = download[r].released
  BY <1>1, <1>2 DEF ReqType
<1>5. ~download'[r].thread
  BY <1>1, <1>2 DEF ReqType
<1>6. download' \in [Reqs -> ReqType]
  BY <1>2, <1>3 DEF HttpInv
<1>7. ReqFine(r)'
  BY <1>1, <1>3, <1>4, <1>5 DEF ReqFine
<1>. QED
  BY <1>1, <1>2, <1>6, <1>7, OwnReqStep DEF HttpInv

\* A chunk that was read is sent, or the stream ends.
LEMMA YieldReq ==
  ASSUME Http!HttpAssumption, HttpInv, NEW r \in Reqs, Http!Yield(r)
  PROVE  HttpInv'
<1>1. /\ ReqFine(r) /\ UNCHANGED <<users, file, httpFaults>> /\ httpFaults \in 0 .. HttpFaults /\ download[r] \in ReqType
      /\ download[r].at = "read" /\ ~download[r].thread
  BY DEF HttpInv, Http!Yield
<1>2. CASE download[r].renewal = "failed" \/ download[r].sent = Chunks
  <2>1. Http!Goes(r, "unwind") /\ download[r].renewal # "stopped"
    BY <1>1, <1>2 DEF Http!Yield, ReqFine
  <2>. QED
    BY <1>1, <2>1, MoveReq DEF Holding, Streaming, Http!Places
<1>3. CASE ~(download[r].renewal = "failed" \/ download[r].sent = Chunks)
  <2>1. /\ \A s \in Reqs \ {r} : download'[s] = download[s]
        /\ download'[r] = [download[r] EXCEPT !.at = "send", !.sent = @ + 1]
        /\ download' = [download EXCEPT ![r] = download'[r]]
    BY <1>3 DEF HttpInv, Http!Yield
  <2>2. download[r].sent + 1 \in 0 .. Chunks
    BY <1>1, <1>3 DEF ReqType, Http!HttpAssumption
  <2>3. download'[r] \in ReqType /\ download'[r].at = "send" /\ download'[r].renewal = download[r].renewal
        /\ download'[r].exits = download[r].exits
    BY <1>1, <2>1, <2>2 DEF ReqType, Http!Places
  <2>4. download'[r].released = download[r].released /\ download'[r].thread = download[r].thread
    BY <1>1, <2>1 DEF ReqType
  <2>5. download' \in [Reqs -> ReqType]
    BY <2>1, <2>3 DEF HttpInv
  <2>6. ReqFine(r)'
    BY <1>1, <2>3, <2>4 DEF ReqFine, Holding, Streaming
  <2>. QED
    BY <1>1, <2>1, <2>5, <2>6, OwnReqStep DEF HttpInv
<1>. QED
  BY <1>2, <1>3

\* The next read begins, unless the renewal has failed.
LEMMA SentReq ==
  ASSUME Http!HttpAssumption, HttpInv, NEW r \in Reqs, Http!Sent(r)
  PROVE  HttpInv'
<1>1. /\ ReqFine(r) /\ UNCHANGED <<users, file, httpFaults>> /\ httpFaults \in 0 .. HttpFaults /\ download[r] \in ReqType
      /\ download[r].at = "send" /\ ~download[r].thread
  BY DEF HttpInv, Http!Sent, ReqFine
<1>2. CASE download[r].renewal = "failed"
  BY <1>1, <1>2, MoveReq DEF Holding, Streaming, Http!Places, Http!Sent
<1>3. CASE download[r].renewal # "failed"
  <2>1. /\ \A s \in Reqs \ {r} : download'[s] = download[s]
        /\ download'[r] = [download[r] EXCEPT !.at = "read", !.thread = TRUE]
        /\ download' = [download EXCEPT ![r] = download'[r]]
    BY <1>3 DEF HttpInv, Http!Sent
  <2>2. download'[r] \in ReqType /\ download'[r].at = "read" /\ download'[r].renewal = download[r].renewal
        /\ download'[r].exits = download[r].exits
    BY <1>1, <2>1 DEF ReqType, Http!Places
  <2>3. download'[r].released = download[r].released
    BY <1>1, <2>1 DEF ReqType
  <2>4. download' \in [Reqs -> ReqType]
    BY <2>1, <2>2 DEF HttpInv
  <2>5. ReqFine(r)'
    BY <1>1, <2>2, <2>3 DEF ReqFine, Holding, Streaming
  <2>. QED
    BY <1>1, <2>1, <2>4, <2>5, OwnReqStep DEF HttpInv
<1>. QED
  BY <1>2, <1>3

\* A read that fails unwinds.
LEMMA ReadFailsReq ==
  ASSUME Http!HttpAssumption, HttpInv, NEW r \in Reqs, Http!ReadFails(r)
  PROVE  HttpInv'
<1>1. /\ ReqFine(r) /\ UNCHANGED <<users, file>> /\ download[r].at = "read" /\ Http!Goes(r, "unwind")
      /\ download[r].renewal # "stopped"
  BY DEF HttpInv, Http!ReadFails, ReqFine
<1>2. httpFaults' \in 0 .. HttpFaults
  BY DEF HttpInv, Http!HttpAssumption, Http!ReadFails, Http!Fault
<1>. QED
  BY <1>1, <1>2, MoveReq DEF Holding, Streaming, Http!Places

\* A cancellation sends the request to its cleanup, and never past it.
LEMMA CutReq ==
  ASSUME Http!HttpAssumption, HttpInv, NEW r \in Reqs, Http!Cut(r)
  PROVE  HttpInv'
<1> DEFINE place == CASE download[r].at = "opening" -> "over"
                      [] download[r].at = "read" -> "unwind"
                      [] download[r].at \in {"start", "send"} -> "aclose"
                      [] OTHER -> download[r].at
<1>1. /\ ReqFine(r) /\ UNCHANGED <<users, file>> /\ download[r] \in ReqType
      /\ download[r].at \notin {"idle", "check", "over"}
  BY DEF HttpInv, Http!Cut
<1>2. httpFaults' \in 0 .. HttpFaults
  BY DEF HttpInv, Http!HttpAssumption, Http!Cut, Http!Fault
<1>3. /\ \A s \in Reqs \ {r} : download'[s] = download[s]
      /\ download'[r] = [download[r] EXCEPT !.cut = TRUE, !.at = place]
      /\ download' = [download EXCEPT ![r] = download'[r]]
  BY DEF HttpInv, Http!Cut
<1>4. /\ place \in Http!Places
      /\ download[r].at = "opening" => place = "over"
      /\ download[r].at = "read" => place = "unwind"
      /\ download[r].at \in {"start", "send"} => place = "aclose"
      /\ download[r].at \notin {"opening", "read", "start", "send"} => place = download[r].at
  BY <1>1 DEF ReqType, Http!Places
<1> HIDE DEF place
<1>5. download'[r] \in ReqType /\ download'[r].at = place /\ download'[r].renewal = download[r].renewal
      /\ download'[r].exits = download[r].exits
  BY <1>1, <1>3, <1>4 DEF ReqType
<1>6. download'[r].released = download[r].released /\ download'[r].thread = download[r].thread
  BY <1>1, <1>3 DEF ReqType
<1>7. download' \in [Reqs -> ReqType]
  BY <1>3, <1>5 DEF HttpInv
<1>8. ReqFine(r)'
  BY <1>1, <1>4, <1>5, <1>6 DEF ReqFine, Holding, Streaming, ReqType, Http!Renewals
<1>. QED
  BY <1>1, <1>2, <1>3, <1>7, <1>8, OwnReqStep DEF HttpInv

\* aclose unwinds a suspended generator and exits the lease of an unstarted one.
LEMMA AcloseReq ==
  ASSUME Http!HttpAssumption, HttpInv, NEW r \in Reqs, Http!Aclose(r)
  PROVE  HttpInv'
<1>1. /\ ReqFine(r) /\ UNCHANGED <<users, file, httpFaults>> /\ httpFaults \in 0 .. HttpFaults /\ download[r] \in ReqType
      /\ download[r].at = "aclose" /\ ~download[r].thread /\ ~download[r].released /\ download[r].renewal # "stopped"
  BY DEF HttpInv, Http!Aclose, ReqFine, Streaming
<1>2. CASE download[r].renewal # "none"
  BY <1>1, <1>2, MoveReq DEF Holding, Streaming, Http!Places, Http!Aclose
<1>3. CASE download[r].renewal = "none"
  <2>1. /\ \A s \in Reqs \ {r} : download'[s] = download[s]
        /\ download'[r] = [download[r] EXCEPT !.at = "exit", !.released = TRUE]
        /\ download' = [download EXCEPT ![r] = download'[r]]
    BY <1>1, <1>3 DEF HttpInv, Http!Aclose, Http!Claimed
  <2>2. download'[r] \in ReqType /\ download'[r].at = "exit" /\ download'[r].renewal = download[r].renewal
        /\ download'[r].exits = download[r].exits
    BY <1>1, <2>1 DEF ReqType, Http!Places
  <2>3. download'[r].thread = download[r].thread
    BY <1>1, <2>1 DEF ReqType
  <2>4. download' \in [Reqs -> ReqType]
    BY <2>1, <2>2 DEF HttpInv
  <2>5. ReqFine(r)'
    BY <1>1, <1>3, <2>2, <2>3 DEF ReqFine, Holding, Streaming
  <2>. QED
    BY <1>1, <2>1, <2>4, <2>5, OwnReqStep DEF HttpInv
<1>. QED
  BY <1>2, <1>3

\* The generator's end stops the renewal, after the thread.
LEMMA UnwindReq ==
  ASSUME Http!HttpAssumption, HttpInv, NEW r \in Reqs, Http!Unwind(r)
  PROVE  HttpInv'
<1>1. /\ ReqFine(r) /\ UNCHANGED <<users, file, httpFaults>> /\ httpFaults \in 0 .. HttpFaults /\ download[r] \in ReqType
      /\ download[r].at = "unwind" /\ ~download[r].thread /\ ~download[r].released
  BY DEF HttpInv, Http!Unwind, ReqFine, Streaming
<1>2. /\ \A s \in Reqs \ {r} : download'[s] = download[s]
      /\ download'[r] = [download[r] EXCEPT !.renewal = "stopped", !.released = TRUE, !.at = "exit"]
      /\ download' = [download EXCEPT ![r] = download'[r]]
  BY <1>1 DEF HttpInv, Http!Unwind, Http!Claimed
<1>3. download'[r] \in ReqType /\ download'[r].at = "exit" /\ download'[r].renewal = "stopped"
      /\ download'[r].exits = download[r].exits
  BY <1>1, <1>2 DEF ReqType, Http!Places, Http!Renewals
<1>4. download'[r].thread = download[r].thread
  BY <1>1, <1>2 DEF ReqType
<1>5. download' \in [Reqs -> ReqType]
  BY <1>2, <1>3 DEF HttpInv
<1>6. ReqFine(r)'
  BY <1>1, <1>3, <1>4 DEF ReqFine, Holding, Streaming
<1>. QED
  BY <1>1, <1>2, <1>5, <1>6, OwnReqStep DEF HttpInv

\* The lease is exited, and the last user deletes the file.
LEMMA ExitReq ==
  ASSUME Http!HttpAssumption, HttpInv, NEW r \in Reqs, Http!Exit(r)
  PROVE  HttpInv'
<1>1. /\ ReqFine(r) /\ httpFaults' = httpFaults /\ httpFaults \in 0 .. HttpFaults /\ download[r] \in ReqType
      /\ download[r].at = "exit" /\ ~download[r].thread /\ download[r].exits = 0
      /\ download[r].renewal \notin {"running", "failed"}
  BY DEF HttpInv, Http!Exit, ReqFine, ReqType
<1>2. /\ \A s \in Reqs \ {r} : download'[s] = download[s]
      /\ download'[r] = [download[r] EXCEPT !.at = "over", !.exits = 1]
      /\ download' = [download EXCEPT ![r] = download'[r]]
      /\ users' = users \ {r} /\ file' = IF users' = {} THEN "none" ELSE file
  <2>1. download[r].exits + 1 = 1
    BY <1>1
  <2>. QED
    BY <2>1 DEF HttpInv, Http!Exit
<1>3. download'[r] \in ReqType /\ download'[r].at = "over" /\ download'[r].renewal = download[r].renewal
      /\ download'[r].exits = 1
  <2>1. 1 \in 0 .. 2 /\ "over" \in Http!Places /\ download'[r] = [download[r] EXCEPT !.at = "over", !.exits = 1]
    BY <1>2 DEF Http!Places
  <2>. QED
    BY <1>1, <2>1 DEF ReqType
<1>4. download'[r].thread = download[r].thread
  BY <1>1, <1>2 DEF ReqType
<1>5. download' \in [Reqs -> ReqType]
  BY <1>2, <1>3 DEF HttpInv
<1>6. ReqFine(r)'
  BY <1>1, <1>2, <1>3, <1>4 DEF ReqFine, Holding, Streaming
<1>7. /\ users' \subseteq Reqs
      /\ users' # {} => file' # "none"
      /\ file' \in {"none", "kept", "expired"}
      /\ \A s \in Reqs \ {r} : s \in users' <=> s \in users
  BY <1>2 DEF HttpInv
<1>8. httpFaults' \in 0 .. HttpFaults
  BY <1>1
<1>9. \A s \in Reqs \ {r} : download'[s] = download[s]
  BY <1>2
<1>. QED
  BY <1>5, <1>6, <1>7, <1>8, <1>9, OwnReqStep

\* The invariant holds in every behaviour, fair or not.
LEMMA DownloadsAlways ==
  ASSUME Http!HttpAssumption
  PROVE  Http!Init /\ [][Http!Next]_(Http!vars) => []Http!DownloadsAreSafe
<1>1. Http!Init => HttpInv
  <2> SUFFICES ASSUME Http!Init PROVE HttpInv
    OBVIOUS
  <2> DEFINE q == [at |-> "idle", renewal |-> "none", thread |-> FALSE, cut |-> FALSE,
                   released |-> FALSE, exits |-> 0, sent |-> 0]
  <2>1. q \in ReqType
    BY DEF Http!HttpAssumption, ReqType, Http!Places, Http!Renewals
  <2>2. download = [r \in Reqs |-> q]
    BY DEF Http!Init
  <2>3. q.at = "idle" /\ q.renewal = "none" /\ ~q.thread /\ q.exits = 0
    OBVIOUS
  <2> HIDE DEF q
  <2>4. \A r \in Reqs : ReqFine(r)
    BY <2>2, <2>3 DEF Http!Init, ReqFine, Holding, Streaming
  <2>. QED
    <3>1. download \in [Reqs -> ReqType] /\ 0 \in 0 .. HttpFaults
      BY <2>1, <2>2 DEF Http!HttpAssumption
    <3>. QED
      BY <2>4, <3>1 DEF Http!Init, HttpInv
<1>2. HttpInv /\ [Http!Next]_(Http!vars) => HttpInv'
  <2> SUFFICES ASSUME HttpInv, [Http!Next]_(Http!vars) PROVE HttpInv'
    OBVIOUS
  <2>1. CASE Http!LeaseExpires
    <3>1. file' = "expired" /\ UNCHANGED <<download, users, httpFaults>>
      BY <2>1 DEF Http!LeaseExpires
    <3>. QED
      BY <3>1 DEF HttpInv, ReqFine
  <2>2. CASE UNCHANGED Http!vars
    BY <2>2 DEF Http!vars, HttpInv, ReqFine
  <2>. QED
    BY <2>1, <2>2, EnterReq, OpenReq, CheckReq, StartStreamReq, RenewalFailsReq, ReadEndsReq,
       YieldReq,
       SentReq, ReadFailsReq, CutReq, AcloseReq, UnwindReq, ExitReq DEF Http!Next
<1>3. HttpInv => Http!DownloadsAreSafe
  <2> SUFFICES ASSUME HttpInv PROVE Http!DownloadsAreSafe
    OBVIOUS
  <2>1. Http!TypeOK
    <3>1. ReqType \subseteq [at : Http!Places, renewal : Http!Renewals, thread : BOOLEAN, cut : BOOLEAN,
                             released : BOOLEAN, exits : 0 .. 2, sent : 0 .. Chunks + 1]
      BY DEF ReqType, Http!HttpAssumption
    <3>. QED
      BY <3>1 DEF HttpInv, Http!TypeOK
  <2>2. ASSUME NEW r \in Reqs
        PROVE  /\ download[r].at = "over" => r \notin users /\ download[r].renewal \in {"none", "stopped"}
               /\ download[r].exits <= 1
               /\ download[r].thread => r \in users /\ file # "none"
    <3>1. ReqFine(r) /\ download[r] \in ReqType
      BY DEF HttpInv
    <3>2. download[r].renewal \in Http!Renewals
      BY <3>1 DEF ReqType
    <3>. QED
      BY <3>1, <3>2 DEF HttpInv, ReqFine, Holding, Http!Renewals
  <2>. QED
    BY <2>1, <2>2 DEF Http!DownloadsAreSafe, Http!ReleasedOnce, Http!ReadsAreOwned
<1>. QED
  BY <1>1, <1>2, <1>3, PTL

(* A download by link exits its lease exactly once, its renewal never outlives it, and its *)
(* threads read the file only while it holds the lease, wherever the client leaves and the *)
(* server cancels (routes.py), for every number of requests, chunks and faults.            *)
THEOREM DownloadsSafe ==
  ASSUME Http!HttpAssumption
  PROVE  Http!Spec => []Http!DownloadsAreSafe
  BY DownloadsAlways, PTL DEF Http!Spec

-----------------------------------------------------------------------------
(* FileIds (app/services/media/delivery.py). Items that are left to send   *)
(* have not appeared, and those of the unit under way appear only when     *)
(* Telegram has taken it: so an item appears once, and a verdict can say   *)
(* so. A failed item is sent again only in the second pass, or because the *)
(* cached pass showed nothing of it.                                       *)

CONSTANTS Requests, Items, Album, MaxIds, MaxAges, IdFaults
VARIABLES req, cache, metadata, ids, dead, idFaults, ages

Ids == INSTANCE FileIds WITH MaxFaults <- IdFaults, faults <- idFaults

\* A request for a post, and what it has shown of it.
IdReq == [at : Ids!Places, pass : Ids!Passes, left : SUBSET Items, unit : SUBSET Items,
          todo : SUBSET Items, force : BOOLEAN, media : [Items -> 0 .. MaxIds],
          result : [Items -> {"none", "shown", "unsure", "failed"}],
          copies : [Items -> 0 .. 2], hurt : BOOLEAN]

\* What a receipt may say, and what no item may have been.
Honest(q) ==
    \A i \in Items :
        /\ q.copies[i] <= 1
        /\ q.result[i] = "shown" => q.copies[i] = 1
        /\ q.result[i] = "failed" => q.copies[i] = 0

\* No item of S has appeared.
Unseen(q, S) == \A i \in S : q.copies[i] = 0

\* Failures without a refusal are only the cached pass's, or are being repeated in S.
Repeated(q, S) == q.hurt \/ q.pass = "cached" \/ Ids!Failed(q) \subseteq (IF q.pass = "again" THEN S ELSE {})

\* What the place of a request says of its items, its unit and its verdicts.
ReqIsFine(q) ==
    /\ q \in IdReq /\ Honest(q)
    /\ q.at \in {"idle", "look"} => q.pass = "cached" /\ Unseen(q, Items)
    /\ q.at = "open" => \/ q.pass = "first" /\ Unseen(q, Items)
                        \/ q.pass = "again" /\ Ids!Failed(q) # {}
    /\ q.at \in {"idle", "look"} => \A i \in Items : q.result[i] = "none"
    /\ q.at = "open" /\ q.pass = "first" => \A i \in Items : q.result[i] = "none"
    /\ q.at \in {"prepare", "send", "evict"} => /\ q.unit \subseteq q.left /\ Unseen(q, q.left)
                                                /\ Repeated(q, q.left)
    /\ q.at = "store" => /\ q.unit \subseteq q.left /\ Unseen(q, q.left \ q.unit)
                         /\ Repeated(q, q.left \ q.unit)
    /\ q.at = "over" => q.hurt \/ Ids!Failed(q) = {}
    /\ q.at = "raised" => q.hurt

\* The invariant.
IdsInv ==
    /\ req \in [Requests -> IdReq] /\ \A r \in Requests : ReqIsFine(req[r])
    /\ cache \in [Items -> 0 .. Ids!Junk] /\ metadata \in BOOLEAN
    /\ ids \in [Items -> 0 .. MaxIds] /\ dead \subseteq Items \X (1 .. MaxIds)
    /\ idFaults \in 0 .. IdFaults /\ ages \in 0 .. MaxAges

\* What the assumptions say of the constants.
LEMMA IdsFacts ==
  ASSUME Ids!IdsAssumption
  PROVE  /\ Items \subseteq Nat /\ 1 \in Items /\ MaxIds \in Nat /\ 1 <= MaxIds
         /\ MaxAges \in Nat /\ IdFaults \in Nat
  BY DEF Ids!IdsAssumption

\* Items that are left have a first one.
LEMMA FirstFacts ==
  ASSUME Ids!IdsAssumption, NEW S, S \subseteq Items, S # {}
  PROVE  Ids!First(S) \in S
<1>1. S \subseteq Nat
  BY IdsFacts
<1>2. PICK x \in S : \A y \in S : <<y, x>> \notin OpToRel(<, Nat)
  BY <1>1, NatLessThanWellFounded, WFMin
<1>3. ASSUME NEW y \in S PROVE x <= y
  <2>1. x \in Nat /\ y \in Nat
    BY <1>1
  <2>2. <<y, x>> \notin OpToRel(<, Nat)
    BY <1>2
  <2>3. <<y, x>> \notin {ss \in Nat \X Nat : ss[1] < ss[2]}
    BY <2>2 DEF OpToRel
  <2>. QED
    BY <2>1, <2>3
<1>. QED
  BY <1>3 DEF Ids!First, Ids!Min

\* The next unit is some of the items that are left: the album, or one item.
LEMMA UnitFacts ==
  ASSUME Ids!IdsAssumption, NEW S, S \subseteq Items, S # {}
  PROVE  Ids!NextUnit(S) \subseteq S
  BY FirstFacts DEF Ids!NextUnit

\* A pass begins with items that have not appeared.
LEMMA BeginFine ==
  ASSUME Ids!IdsAssumption, NEW q \in IdReq, Honest(q), NEW S, S \subseteq Items, S # {},
         Unseen(q, S), Repeated(q, S)
  PROVE  ReqIsFine(Ids!Begin(q, S))
<1> DEFINE b == Ids!Begin(q, S)
<1>1. [i \in Items |-> Ids!None] \in [Items -> 0 .. MaxIds]
  BY IdsFacts DEF Ids!None
<1>2. Ids!NextUnit(S) \subseteq S /\ Ids!NextUnit(S) \in SUBSET Items
  BY UnitFacts
<1>3. /\ b \in IdReq /\ b.at = "prepare" /\ b.pass = q.pass /\ b.left = S /\ b.unit = Ids!NextUnit(S)
      /\ b.result = q.result /\ b.copies = q.copies
  BY <1>1, <1>2 DEF Ids!Begin, IdReq, Ids!Places
<1>4. b.hurt = q.hurt
  BY DEF Ids!Begin, IdReq
<1> HIDE DEF b
<1>5. Honest(b) /\ Unseen(b, S) /\ Repeated(b, S)
  BY <1>3, <1>4 DEF Honest, Unseen, Repeated, Ids!Failed
<1>6. ReqIsFine(b)
  BY <1>2, <1>3, <1>5 DEF ReqIsFine
<1>. QED
  BY <1>6 DEF b

\* A request that is over is fine with any verdict that was fine.
LEMMA OverFine ==
  ASSUME Ids!IdsAssumption, NEW q \in IdReq, Honest(q), NEW place \in {"over", "raised"},
         q.hurt \/ (place = "over" /\ Ids!Failed(q) = {})
  PROVE  ReqIsFine(Ids!Over(q, place))
<1> DEFINE b == Ids!Over(q, place)
<1>1. [i \in Items |-> Ids!None] \in [Items -> 0 .. MaxIds]
  BY IdsFacts DEF Ids!None
<1>2. /\ b \in IdReq /\ b.at = place /\ b.result = q.result /\ b.copies = q.copies
  BY <1>1 DEF Ids!Over, IdReq, Ids!Places, Ids!Passes
<1>3. b.hurt = q.hurt
  BY DEF Ids!Over, IdReq
<1> HIDE DEF b
<1>4. ReqIsFine(b)
  BY <1>2, <1>3 DEF Honest, ReqIsFine, Ids!Failed
<1>. QED
  BY <1>4 DEF b

\* The end of a pass begins the next, with the items that failed, or ends the request.
LEMMA PassEndsFine ==
  ASSUME Ids!IdsAssumption, NEW q \in IdReq, Honest(q), Repeated(q, {})
  PROVE  ReqIsFine(Ids!PassEnds(q))
<1>1. Ids!Failed(q) \subseteq Items /\ Unseen(q, Ids!Failed(q))
  BY DEF Ids!Failed, Unseen, Honest
<1>2. CASE Ids!Failed(q) = {}
  BY <1>2, OverFine DEF Ids!PassEnds
<1>3. CASE Ids!Failed(q) # {} /\ q.pass = "again"
  <2>1. q.hurt
    BY <1>3 DEF Repeated
  <2>. QED
    BY <1>3, <2>1, OverFine DEF Ids!PassEnds
<1>4. CASE Ids!Failed(q) # {} /\ q.pass = "cached"
  <2> DEFINE b == [q EXCEPT !.at = "open", !.pass = "again"]
  <2>1. b \in IdReq /\ b.at = "open" /\ b.pass = "again" /\ b.result = q.result /\ b.copies = q.copies
    BY DEF IdReq, Ids!Places, Ids!Passes
  <2>2. Ids!PassEnds(q) = b
    BY <1>4 DEF Ids!PassEnds
  <2> HIDE DEF b
  <2>3. ReqIsFine(b)
    BY <1>4, <2>1 DEF ReqIsFine, Honest, Ids!Failed
  <2>. QED
    BY <2>2, <2>3
<1>5. CASE Ids!Failed(q) # {} /\ q.pass \notin {"again", "cached"}
  <2> DEFINE b == [q EXCEPT !.pass = "again"]
  <2>1. b \in IdReq /\ b.pass = "again" /\ b.result = q.result /\ b.copies = q.copies
    BY DEF IdReq, Ids!Passes
  <2>2. Ids!PassEnds(q) = Ids!Begin(b, Ids!Failed(q))
    BY <1>5 DEF Ids!PassEnds
  <2> HIDE DEF b
  <2>3. Honest(b) /\ Unseen(b, Ids!Failed(q)) /\ Repeated(b, Ids!Failed(q))
    BY <1>1, <2>1 DEF Honest, Unseen, Repeated, Ids!Failed
  <2>. QED
    BY <1>1, <1>5, <2>1, <2>2, <2>3, BeginFine
<1>. QED
  BY <1>2, <1>3, <1>4, <1>5

\* The end of a unit takes it from what is left.
LEMMA UnitEndsFine ==
  ASSUME Ids!IdsAssumption, NEW q \in IdReq, Honest(q), Unseen(q, q.left \ q.unit),
         Repeated(q, q.left \ q.unit)
  PROVE  ReqIsFine(Ids!UnitEnds(q))
<1>1. q.left \ q.unit \subseteq Items
  BY DEF IdReq
<1>2. CASE q.left \ q.unit = {}
  BY <1>2, PassEndsFine DEF Ids!UnitEnds
<1>3. CASE q.left \ q.unit # {}
  BY <1>1, <1>3, BeginFine DEF Ids!UnitEnds
<1>. QED
  BY <1>2, <1>3

\* What holds of a unit that gets the verdict result.
Judged(q, result) ==
    /\ q.unit \subseteq q.left /\ Unseen(q, q.left \ q.unit) /\ Repeated(q, q.left)
    /\ \A i \in Items : q.copies[i] <= 1
    /\ \A i \in Items \ q.unit : /\ q.result[i] = "shown" => q.copies[i] = 1
                                 /\ q.result[i] = "failed" => q.copies[i] = 0
    /\ result = "failed" => Unseen(q, q.unit) /\ (q.hurt \/ q.pass = "cached")

\* A verdict on a unit keeps the request fine.
LEMMA VerdictFine ==
  ASSUME Ids!IdsAssumption, NEW q \in IdReq, NEW result \in {"unsure", "failed"}, Judged(q, result)
  PROVE  ReqIsFine(Ids!Verdict(q, result))
<1> DEFINE res == [i \in Items |-> IF i \in q.unit THEN result ELSE q.result[i]]
           b == [q EXCEPT !.result = res]
<1>1. res \in [Items -> {"none", "shown", "unsure", "failed"}]
  BY DEF IdReq
<1>2. Ids!Verdict(q, result) = Ids!UnitEnds(b)
  BY DEF Ids!Verdict
<1> HIDE DEF res
<1>3. /\ b \in IdReq /\ b.pass = q.pass /\ b.left = q.left /\ b.unit = q.unit
      /\ b.result = res /\ b.copies = q.copies
  BY <1>1 DEF IdReq
<1>4. b.hurt = q.hurt
  BY DEF IdReq
<1> HIDE DEF b
<1>5. \A i \in Items : res[i] = IF i \in q.unit THEN result ELSE q.result[i]
  BY DEF res
<1>6. Honest(b) /\ Unseen(b, b.left \ b.unit)
  <2>1. ASSUME NEW i \in Items
        PROVE  /\ q.copies[i] <= 1
               /\ res[i] = "shown" => q.copies[i] = 1
               /\ res[i] = "failed" => q.copies[i] = 0
    <3>1. CASE i \in q.unit
      <4>1. res[i] = result /\ q.copies[i] <= 1 /\ (result = "failed" => q.copies[i] = 0)
        BY <1>5, <3>1 DEF Judged, Unseen
      <4>. QED
        BY <4>1
    <3>2. CASE i \notin q.unit
      <4>1. res[i] = q.result[i]
        BY <1>5, <3>2
      <4>2. /\ q.copies[i] <= 1
            /\ q.result[i] = "shown" => q.copies[i] = 1
            /\ q.result[i] = "failed" => q.copies[i] = 0
        <5>1. i \in Items \ q.unit
          BY <3>2
        <5>. QED
          BY <5>1 DEF Judged
      <4>. QED
        BY <4>1, <4>2
    <3>. QED
      BY <3>1, <3>2
  <2>. QED
    BY <1>3, <2>1 DEF Honest, Unseen, Judged
<1>7. Repeated(b, b.left \ b.unit)
  BY <1>3, <1>4, <1>5 DEF Repeated, Ids!Failed, Judged
<1>. QED
  BY <1>2, <1>3, <1>6, <1>7, UnitEndsFine

\* What a step of r must leave: a request that is fine, and the types.
LEMMA OwnIdStep ==
  ASSUME Ids!IdsAssumption, IdsInv, NEW r \in Requests, NEW q, ReqIsFine(q), req' = [req EXCEPT ![r] = q],
         cache' \in [Items -> 0 .. Ids!Junk], metadata' \in BOOLEAN, ids' \in [Items -> 0 .. MaxIds],
         dead' = dead, idFaults' \in 0 .. IdFaults, ages' = ages
  PROVE  IdsInv'
<1>1. q \in IdReq
  BY DEF ReqIsFine
<1>2. req' \in [Requests -> IdReq] /\ req'[r] = q /\ \A s \in Requests \ {r} : req'[s] = req[s]
  BY <1>1 DEF IdsInv
<1>3. \A s \in Requests : ReqIsFine(req'[s])
  BY <1>2 DEF IdsInv
<1>4. dead' \subseteq Items \X (1 .. MaxIds) /\ ages' \in 0 .. MaxAges
  BY DEF IdsInv
<1>. QED
  BY <1>2, <1>3, <1>4 DEF IdsInv

\* The types of a request and of what the requests share.
LEMMA IdTypes ==
  ASSUME Ids!IdsAssumption, IdsInv
  PROVE  /\ cache \in [Items -> 0 .. Ids!Junk] /\ metadata \in BOOLEAN /\ ids \in [Items -> 0 .. MaxIds]
         /\ dead \subseteq Items \X (1 .. MaxIds) /\ idFaults \in 0 .. IdFaults /\ ages \in 0 .. MaxAges
         /\ req \in [Requests -> IdReq] /\ Ids!None \in 0 .. MaxIds /\ Ids!None \in 0 .. Ids!Junk
         /\ \A id \in 0 .. MaxIds : id \in 0 .. Ids!Junk
         /\ Ids!Fault => idFaults' \in 0 .. IdFaults
         /\ \A r \in Requests : req[r] \in IdReq /\ ReqIsFine(req[r])
  BY IdsFacts DEF IdsInv, Ids!None, Ids!Junk, Ids!Fault

\* The lookups of a request keep the types of its records.
LEMMA LookupTypes ==
  ASSUME Ids!IdsAssumption, IdsInv, NEW i, NEW id, Ids!Lookup(i, id)
  PROVE  cache' \in [Items -> 0 .. Ids!Junk] /\ idFaults' \in 0 .. IdFaults
  BY IdTypes DEF Ids!Lookup

\* A step within the unit, before it is sent.
LEMMA SameUnitFine ==
  ASSUME NEW q, ReqIsFine(q), q.at \in {"prepare", "send", "evict"}, NEW b \in IdReq,
         b.at \in {"prepare", "send", "evict"}, b.pass = q.pass, b.left = q.left, b.unit = q.unit,
         b.result = q.result, b.copies = q.copies, b.hurt = q.hurt
  PROVE  ReqIsFine(b)
  BY DEF ReqIsFine, Honest, Unseen, Repeated, Ids!Failed

\* A request starts when the post is known.
LEMMA StartIds ==
  ASSUME Ids!IdsAssumption, IdsInv, NEW r \in Requests, Ids!Start(r)
  PROVE  IdsInv'
<1> DEFINE q == req[r]
<1>1. /\ q \in IdReq /\ ReqIsFine(q) /\ q.at = "idle"
      /\ req' = [req EXCEPT ![r] = IF metadata THEN [q EXCEPT !.at = "look", !.todo = Items]
                                               ELSE [q EXCEPT !.at = "open", !.pass = "first"]]
      /\ UNCHANGED <<cache, metadata, ids, dead, idFaults, ages>>
  BY IdTypes DEF Ids!Start
<1> HIDE DEF q
<1>2. CASE metadata
  <2> DEFINE b == [q EXCEPT !.at = "look", !.todo = Items]
  <2>1. b \in IdReq /\ b.at = "look" /\ b.pass = q.pass /\ b.result = q.result /\ b.copies = q.copies
    BY <1>1 DEF IdReq, Ids!Places
  <2>2. req' = [req EXCEPT ![r] = b]
    BY <1>1, <1>2
  <2> HIDE DEF b
  <2>3. ReqIsFine(b)
    BY <1>1, <2>1 DEF ReqIsFine, Honest, Unseen
  <2>. QED
    BY <1>1, <2>2, <2>3, OwnIdStep, IdTypes
<1>3. CASE ~metadata
  <2> DEFINE b == [q EXCEPT !.at = "open", !.pass = "first"]
  <2>1. b \in IdReq /\ b.at = "open" /\ b.pass = "first" /\ b.result = q.result /\ b.copies = q.copies
    BY <1>1 DEF IdReq, Ids!Places, Ids!Passes
  <2>2. req' = [req EXCEPT ![r] = b]
    BY <1>1, <1>3
  <2> HIDE DEF b
  <2>3. ReqIsFine(b)
    BY <1>1, <2>1 DEF ReqIsFine, Honest, Unseen
  <2>. QED
    BY <1>1, <2>2, <2>3, OwnIdStep, IdTypes
<1>. QED
  BY <1>2, <1>3

\* The cached ids of the unit are looked up.
LEMMA LookIds ==
  ASSUME Ids!IdsAssumption, IdsInv, NEW r \in Requests, Ids!Look(r)
  PROVE  IdsInv'
<1> DEFINE q == req[r]  i == Ids!First(q.todo)
<1>1. /\ q \in IdReq /\ ReqIsFine(q) /\ q.at = "look" /\ UNCHANGED <<metadata, ids, dead, ages>>
  BY IdTypes DEF Ids!Look
<1>2. PICK id \in 0 .. MaxIds :
        /\ Ids!Lookup(i, id)
        /\ req' = [req EXCEPT ![r] =
               IF id = Ids!None THEN [q EXCEPT !.at = "open", !.pass = "first"]
               ELSE IF q.todo = {i} THEN Ids!Begin(q, Items)
               ELSE [q EXCEPT !.todo = @ \ {i}]]
  BY DEF Ids!Look
<1>3. cache' \in [Items -> 0 .. Ids!Junk] /\ idFaults' \in 0 .. IdFaults
  BY <1>2, LookupTypes
<1> HIDE DEF q, i
<1>4. q.pass = "cached" /\ Honest(q) /\ Unseen(q, Items) /\ \A j \in Items : q.result[j] = "none"
  BY <1>1 DEF ReqIsFine
<1>5. CASE id = Ids!None
  <2> DEFINE b == [q EXCEPT !.at = "open", !.pass = "first"]
  <2>1. b \in IdReq /\ b.at = "open" /\ b.pass = "first" /\ b.result = q.result /\ b.copies = q.copies
    BY <1>1 DEF IdReq, Ids!Places, Ids!Passes
  <2>2. req' = [req EXCEPT ![r] = b]
    BY <1>2, <1>5
  <2> HIDE DEF b
  <2>3. ReqIsFine(b)
    BY <1>4, <2>1 DEF ReqIsFine, Honest, Unseen
  <2>. QED
    BY <1>1, <1>3, <2>2, <2>3, OwnIdStep, IdTypes
<1>6. CASE id # Ids!None /\ q.todo = {i}
  <2>1. req' = [req EXCEPT ![r] = Ids!Begin(q, Items)]
    BY <1>2, <1>6
  <2>2. Items # {} /\ Repeated(q, Items)
    BY <1>4, IdsFacts DEF Repeated
  <2>. QED
    BY <1>1, <1>3, <1>4, <2>1, <2>2, BeginFine, OwnIdStep, IdTypes
<1>7. CASE id # Ids!None /\ q.todo # {i}
  <2> DEFINE b == [q EXCEPT !.todo = @ \ {i}]
  <2>1. b \in IdReq /\ b.at = "look" /\ b.pass = q.pass /\ b.result = q.result /\ b.copies = q.copies
    BY <1>1 DEF IdReq
  <2>2. req' = [req EXCEPT ![r] = b]
    BY <1>2, <1>7
  <2> HIDE DEF b
  <2>3. ReqIsFine(b)
    BY <1>4, <2>1 DEF ReqIsFine, Honest, Unseen
  <2>. QED
    BY <1>1, <1>3, <2>2, <2>3, OwnIdStep, IdTypes
<1>. QED
  BY <1>5, <1>6, <1>7

\* The post is opened for an upload, or fails.
LEMMA OpenIds ==
  ASSUME Ids!IdsAssumption, IdsInv, NEW r \in Requests, Ids!Open(r)
  PROVE  IdsInv'
<1> DEFINE q == req[r]
           left == IF q.pass = "again" THEN Ids!Failed(q) ELSE Items
<1>1. /\ q \in IdReq /\ ReqIsFine(q) /\ q.at = "open" /\ UNCHANGED <<cache, ids, dead, ages>>
      /\ Honest(q)
  BY IdTypes DEF Ids!Open, ReqIsFine
<1>2. CASE req' = [req EXCEPT ![r] = Ids!Begin(q, left)] /\ Ids!Metadata /\ UNCHANGED idFaults
  <2>1. metadata' \in BOOLEAN
    BY <1>2, IdTypes DEF Ids!Metadata
  <2>2. left \subseteq Items /\ left # {} /\ Unseen(q, left) /\ Repeated(q, left)
    BY <1>1, IdsFacts DEF ReqIsFine, Honest, Unseen, Ids!Failed, Repeated
  <2>. QED
    BY <1>1, <1>2, <2>1, <2>2, BeginFine, OwnIdStep, IdTypes
<1>3. CASE /\ Ids!Fault /\ UNCHANGED metadata
           /\ req' = [req EXCEPT ![r] = Ids!Over([req[r] EXCEPT !.hurt = TRUE], "raised")]
  <2> DEFINE b == [q EXCEPT !.hurt = TRUE]
  <2>1. b \in IdReq /\ b.result = q.result /\ b.copies = q.copies
    BY <1>1 DEF IdReq
  <2>2. b.hurt
    BY <1>1 DEF IdReq
  <2>3. req' = [req EXCEPT ![r] = Ids!Over(b, "raised")]
    BY <1>3
  <2> HIDE DEF b
  <2>4. Honest(b)
    BY <1>1, <2>1 DEF Honest
  <2>5. ReqIsFine(Ids!Over(b, "raised"))
    BY <2>1, <2>2, <2>4, OverFine
  <2>. QED
    BY <1>1, <1>3, <2>3, <2>5, OwnIdStep, IdTypes
<1>. QED
  BY <1>2, <1>3 DEF Ids!Open

\* A unit is prepared: from its ids, or from files.
LEMMA PrepareIds ==
  ASSUME Ids!IdsAssumption, IdsInv, NEW r \in Requests, Ids!Prepare(r)
  PROVE  IdsInv'
<1> DEFINE q == req[r]  i == Ids!First(q.todo)
<1>1. /\ q \in IdReq /\ ReqIsFine(q) /\ q.at = "prepare" /\ UNCHANGED <<metadata, ids, dead, ages>>
  BY IdTypes DEF Ids!Prepare
<1>2. PICK id \in 0 .. MaxIds :
        /\ IF q.force THEN id = Ids!None /\ UNCHANGED <<cache, idFaults>> ELSE Ids!Lookup(i, id)
        /\ LET got == [q EXCEPT !.media[i] = id, !.todo = @ \ {i}] IN
           req' = [req EXCEPT ![r] =
               IF got.todo # {} THEN got
               ELSE IF q.pass = "cached" /\ \E j \in q.unit : got.media[j] = Ids!None
                    THEN Ids!Verdict(got, "failed")
                    ELSE [got EXCEPT !.at = "send"]]
  BY DEF Ids!Prepare
<1>3. cache' \in [Items -> 0 .. Ids!Junk] /\ idFaults' \in 0 .. IdFaults
  BY <1>2, LookupTypes, IdTypes
<1> HIDE DEF q, i
<1> DEFINE got == [q EXCEPT !.media[i] = id, !.todo = @ \ {i}]
<1>4. /\ got \in IdReq /\ got.at = "prepare" /\ got.pass = q.pass /\ got.left = q.left
      /\ got.unit = q.unit /\ got.result = q.result /\ got.copies = q.copies
  BY <1>1 DEF IdReq
<1>5. got.hurt = q.hurt
  BY <1>1 DEF IdReq
<1>6. req' = [req EXCEPT ![r] =
               IF got.todo # {} THEN got
               ELSE IF q.pass = "cached" /\ \E j \in q.unit : got.media[j] = Ids!None
                    THEN Ids!Verdict(got, "failed")
                    ELSE [got EXCEPT !.at = "send"]]
  BY <1>2
<1> HIDE DEF got
<1>7. ReqIsFine(got)
  BY <1>1, <1>4, <1>5, SameUnitFine
<1>8. CASE got.todo # {}
  <2>1. req' = [req EXCEPT ![r] = got]
    BY <1>6, <1>8
  <2>. QED
    BY <1>1, <1>3, <1>7, <2>1, OwnIdStep, IdTypes
<1>9. CASE got.todo = {} /\ q.pass = "cached" /\ \E j \in q.unit : got.media[j] = Ids!None
  <2>1. req' = [req EXCEPT ![r] = Ids!Verdict(got, "failed")]
    BY <1>6, <1>9
  <2>2. Judged(got, "failed")
    BY <1>4, <1>7, <1>9 DEF ReqIsFine, Honest, Unseen, Judged
  <2>3. ReqIsFine(Ids!Verdict(got, "failed"))
    BY <1>4, <2>2, VerdictFine
  <2>. QED
    BY <1>1, <1>3, <2>1, <2>3, OwnIdStep, IdTypes
<1>10. CASE got.todo = {} /\ ~(q.pass = "cached" /\ \E j \in q.unit : got.media[j] = Ids!None)
  <2> DEFINE b == [got EXCEPT !.at = "send"]
  <2>1. /\ b \in IdReq /\ b.at = "send" /\ b.pass = got.pass /\ b.left = got.left
        /\ b.unit = got.unit /\ b.result = got.result /\ b.copies = got.copies
    BY <1>4 DEF IdReq, Ids!Places
  <2>2. b.hurt = got.hurt
    BY <1>4 DEF IdReq
  <2>3. req' = [req EXCEPT ![r] = b]
    BY <1>6, <1>10
  <2> HIDE DEF b
  <2>4. ReqIsFine(b)
    BY <1>4, <1>7, <2>1, <2>2, SameUnitFine
  <2>. QED
    BY <1>1, <1>3, <2>3, <2>4, OwnIdStep, IdTypes
<1>. QED
  BY <1>8, <1>9, <1>10

\* Telegram takes the unit: each item appears once more, which was unseen.
LEMMA AcceptedIds ==
  ASSUME Ids!IdsAssumption, IdsInv, NEW r \in Requests, Ids!Accepted(r)
  PROVE  IdsInv'
<1> DEFINE q == req[r]
<1>1. /\ q \in IdReq /\ ReqIsFine(q) /\ q.at = "send" /\ UNCHANGED <<cache, metadata, ids, dead, ages>>
  BY IdTypes DEF Ids!Accepted
<1>2. PICK told \in SUBSET q.unit :
        /\ IF told = q.unit THEN UNCHANGED idFaults ELSE Ids!Cardinality(q.unit) > 1 /\ Ids!Fault
        /\ LET shown == [Ids!Shown(q, q.unit) EXCEPT !.result = [i \in Items |->
                            IF i \in told THEN "shown" ELSE IF i \in q.unit THEN "unsure" ELSE @[i]]]
           IN req' = [req EXCEPT ![r] = IF told = {} THEN Ids!UnitEnds(shown)
                                        ELSE [shown EXCEPT !.at = "store", !.todo = told]]
  BY DEF Ids!Accepted
<1>3. idFaults' \in 0 .. IdFaults
  BY <1>2, IdTypes
<1> HIDE DEF q
<1> DEFINE copies == [i \in Items |-> q.copies[i] + (IF i \in q.unit THEN 1 ELSE 0)]
           result == [i \in Items |-> IF i \in told THEN "shown" ELSE IF i \in q.unit THEN "unsure" ELSE q.result[i]]
           b == [q EXCEPT !.copies = copies, !.result = result]
<1>4. Honest(q) /\ q.unit \subseteq q.left /\ Unseen(q, q.left) /\ Repeated(q, q.left)
  BY <1>1 DEF ReqIsFine
<1>5. /\ copies \in [Items -> 0 .. 2]
      /\ \A i \in Items : copies[i] <= 1 /\ (i \in q.unit => copies[i] = 1)
                      /\ (i \notin q.unit => copies[i] = q.copies[i])
  <2>1. \A i \in Items : q.copies[i] \in 0 .. 1 /\ (i \in q.unit => q.copies[i] = 0)
    BY <1>1, <1>4 DEF Honest, Unseen, IdReq
  <2>2. q.copies \in [Items -> 0 .. 2]
    BY <1>1 DEF IdReq
  <2>. QED
    BY <2>1, <2>2
<1>6. /\ result \in [Items -> {"none", "shown", "unsure", "failed"}]
      /\ \A i \in Items : result[i] = IF i \in told THEN "shown" ELSE IF i \in q.unit THEN "unsure" ELSE q.result[i]
  BY <1>1 DEF IdReq
<1>7. req' = [req EXCEPT ![r] = IF told = {} THEN Ids!UnitEnds(b) ELSE [b EXCEPT !.at = "store", !.todo = told]]
  <2>1. Ids!Shown(q, q.unit) = [q EXCEPT !.copies = copies]
    BY DEF Ids!Shown
  <2>2. [Ids!Shown(q, q.unit) EXCEPT !.result = [i \in Items |->
            IF i \in told THEN "shown" ELSE IF i \in q.unit THEN "unsure" ELSE @[i]]] = b
    BY <1>1, <2>1 DEF IdReq
  <2>. QED
    BY <1>2, <2>2
<1> HIDE DEF copies, result
<1>8. /\ b \in IdReq /\ b.pass = q.pass /\ b.left = q.left /\ b.unit = q.unit
      /\ b.result = result /\ b.copies = copies
  BY <1>1, <1>5, <1>6 DEF IdReq
<1>9. b.hurt = q.hurt
  BY <1>1 DEF IdReq
<1> HIDE DEF b
<1>10. Honest(b) /\ Unseen(b, b.left \ b.unit)
  BY <1>4, <1>5, <1>6, <1>8 DEF Honest, Unseen, IdReq
<1>11. Repeated(b, b.left \ b.unit)
  BY <1>4, <1>6, <1>8, <1>9 DEF Repeated, Ids!Failed
<1>12. CASE told = {}
  BY <1>1, <1>3, <1>7, <1>8, <1>10, <1>11, <1>12, UnitEndsFine, OwnIdStep, IdTypes
<1>13. CASE told # {}
  <2> DEFINE d == [b EXCEPT !.at = "store", !.todo = told]
  <2>1. told \in SUBSET Items
    BY <1>1 DEF IdReq
  <2>2. /\ d \in IdReq /\ d.at = "store" /\ d.pass = b.pass /\ d.left = b.left
        /\ d.unit = b.unit /\ d.result = b.result /\ d.copies = b.copies
    BY <1>8, <2>1 DEF IdReq, Ids!Places
  <2>3. d.hurt = b.hurt
    BY <1>8 DEF IdReq
  <2>4. req' = [req EXCEPT ![r] = d]
    BY <1>7, <1>13
  <2> HIDE DEF d
  <2>5. ReqIsFine(d)
    BY <1>4, <1>8, <1>10, <1>11, <2>2, <2>3 DEF ReqIsFine, Honest, Unseen, Repeated, Ids!Failed
  <2>. QED
    BY <1>1, <1>3, <2>4, <2>5, OwnIdStep, IdTypes
<1>. QED
  BY <1>12, <1>13

\* Telegram refuses an id and shows nothing: the unit goes again as an upload.
LEMMA RefusesIdIds ==
  ASSUME Ids!IdsAssumption, IdsInv, NEW r \in Requests, Ids!RefusesId(r)
  PROVE  IdsInv'
<1> DEFINE q == req[r]
           b == [q EXCEPT !.at = "evict", !.todo = Ids!SentById(q), !.force = TRUE]
<1>1. /\ q \in IdReq /\ ReqIsFine(q) /\ q.at = "send"
      /\ UNCHANGED <<cache, metadata, ids, dead, idFaults, ages>>
      /\ req' = [req EXCEPT ![r] = b]
  BY IdTypes DEF Ids!RefusesId
<1> HIDE DEF q
<1>2. Ids!SentById(q) \in SUBSET Items
  BY <1>1 DEF Ids!SentById, IdReq
<1>3. /\ b \in IdReq /\ b.at = "evict" /\ b.pass = q.pass /\ b.left = q.left
      /\ b.unit = q.unit /\ b.result = q.result /\ b.copies = q.copies
  BY <1>1, <1>2 DEF IdReq, Ids!Places
<1>4. b.hurt = q.hurt
  BY <1>1 DEF IdReq
<1> HIDE DEF b
<1>5. ReqIsFine(b)
  BY <1>1, <1>3, <1>4, SameUnitFine
<1>. QED
  BY <1>1, <1>5, OwnIdStep, IdTypes

\* A send that fails has shown nothing, or nobody knows.
LEMMA SendFailsIds ==
  ASSUME Ids!IdsAssumption, IdsInv, NEW r \in Requests, Ids!SendFails(r)
  PROVE  IdsInv'
<1> DEFINE q == req[r]
<1>1. /\ q \in IdReq /\ ReqIsFine(q) /\ q.at = "send" /\ UNCHANGED <<cache, metadata, ids, dead, ages>>
      /\ idFaults' \in 0 .. IdFaults
  BY IdTypes DEF Ids!SendFails
<1>2. \/ req' = [req EXCEPT ![r] = Ids!Verdict([q EXCEPT !.hurt = TRUE], "failed")]
      \/ \E shown \in {{}, q.unit} : req' = [req EXCEPT ![r] = Ids!Verdict(Ids!Shown(q, shown), "unsure")]
  BY DEF Ids!SendFails
<1> HIDE DEF q
<1>3. Honest(q) /\ q.unit \subseteq q.left /\ Unseen(q, q.left) /\ Repeated(q, q.left)
  BY <1>1 DEF ReqIsFine
<1>4. CASE req' = [req EXCEPT ![r] = Ids!Verdict([q EXCEPT !.hurt = TRUE], "failed")]
  <2> DEFINE b == [q EXCEPT !.hurt = TRUE]
  <2>1. /\ b \in IdReq /\ b.pass = q.pass /\ b.left = q.left
        /\ b.unit = q.unit /\ b.result = q.result /\ b.copies = q.copies
    BY <1>1 DEF IdReq
  <2>2. b.hurt
    BY <1>1 DEF IdReq
  <2> HIDE DEF b
  <2>3. Judged(b, "failed")
    BY <1>3, <2>1, <2>2 DEF Judged, Honest, Unseen, Repeated
  <2>4. ReqIsFine(Ids!Verdict(b, "failed"))
    BY <2>1, <2>3, VerdictFine
  <2>. QED
    BY <1>1, <1>4, <2>4, OwnIdStep, IdTypes DEF b
<1>5. ASSUME NEW shown \in {{}, q.unit}, req' = [req EXCEPT ![r] = Ids!Verdict(Ids!Shown(q, shown), "unsure")]
      PROVE  IdsInv'
  <2> DEFINE copies == [i \in Items |-> q.copies[i] + (IF i \in shown THEN 1 ELSE 0)]
             b == [q EXCEPT !.copies = copies]
  <2>1. \A i \in Items : q.copies[i] \in 0 .. 1 /\ (i \in q.unit => q.copies[i] = 0)
    BY <1>1, <1>3 DEF Honest, Unseen, IdReq
  <2>2. /\ copies \in [Items -> 0 .. 2]
        /\ \A i \in Items : copies[i] <= 1 /\ (i \notin q.unit => copies[i] = q.copies[i])
    BY <2>1
  <2>3. Ids!Shown(q, shown) = b
    BY DEF Ids!Shown
  <2> HIDE DEF copies
  <2>4. /\ b \in IdReq /\ b.pass = q.pass /\ b.left = q.left
        /\ b.unit = q.unit /\ b.result = q.result /\ b.copies = copies
    BY <1>1, <2>2 DEF IdReq
  <2>5. b.hurt = q.hurt
    BY <1>1 DEF IdReq
  <2> HIDE DEF b
  <2>6. Judged(b, "unsure")
    <3>1. Unseen(b, b.left \ b.unit)
      BY <1>1, <1>3, <2>2, <2>4 DEF Unseen, IdReq
    <3>2. Repeated(b, b.left)
      BY <1>3, <2>4, <2>5 DEF Repeated, Ids!Failed
    <3>. QED
      BY <1>3, <2>2, <2>4, <3>1, <3>2 DEF Judged, Honest
  <2>7. ReqIsFine(Ids!Verdict(b, "unsure"))
    BY <2>4, <2>6, VerdictFine
  <2>. QED
    BY <1>1, <1>5, <2>3, <2>7, OwnIdStep, IdTypes
<1>. QED
  BY <1>2, <1>4, <1>5

\* The refused ids are evicted.
LEMMA EvictIds ==
  ASSUME Ids!IdsAssumption, IdsInv, NEW r \in Requests, Ids!Evict(r)
  PROVE  IdsInv'
<1> DEFINE q == req[r]  i == Ids!First(q.todo)
           b == IF q.todo = {i} THEN [q EXCEPT !.at = "prepare", !.todo = q.unit]
                ELSE [q EXCEPT !.todo = @ \ {i}]
<1>1. /\ q \in IdReq /\ ReqIsFine(q) /\ q.at = "evict" /\ UNCHANGED <<metadata, ids, dead, ages>>
      /\ req' = [req EXCEPT ![r] = b]
  BY IdTypes DEF Ids!Evict
<1>2. cache' \in [Items -> 0 .. Ids!Junk] /\ idFaults' \in 0 .. IdFaults
  BY IdTypes DEF Ids!Evict
<1> HIDE DEF q, i
<1>3. /\ b \in IdReq /\ b.at \in {"evict", "prepare"} /\ b.pass = q.pass /\ b.left = q.left
      /\ b.unit = q.unit /\ b.result = q.result /\ b.copies = q.copies
  BY <1>1 DEF IdReq, Ids!Places
<1>4. b.hurt = q.hurt
  BY <1>1 DEF IdReq
<1> HIDE DEF b
<1>5. ReqIsFine(b)
  BY <1>1, <1>3, <1>4, SameUnitFine
<1>. QED
  BY <1>1, <1>2, <1>5, OwnIdStep, IdTypes

\* The ids of what was shown are remembered.
LEMMA StoreIds ==
  ASSUME Ids!IdsAssumption, IdsInv, NEW r \in Requests, Ids!Store(r)
  PROVE  IdsInv'
<1> DEFINE q == req[r]  i == Ids!First(q.todo)
<1>1. /\ q \in IdReq /\ ReqIsFine(q) /\ q.at = "store" /\ UNCHANGED <<metadata, dead, ages>>
      /\ req' = [req EXCEPT ![r] = IF q.todo = {i} THEN Ids!UnitEnds([q EXCEPT !.todo = {}])
                                   ELSE [q EXCEPT !.todo = @ \ {i}]]
  BY IdTypes DEF Ids!Store
<1>2. ids' \in [Items -> 0 .. MaxIds] /\ cache' \in [Items -> 0 .. Ids!Junk] /\ idFaults' \in 0 .. IdFaults
  BY IdTypes DEF Ids!Store
<1> HIDE DEF q, i
<1>3. Honest(q) /\ q.unit \subseteq q.left /\ Unseen(q, q.left \ q.unit) /\ Repeated(q, q.left \ q.unit)
  BY <1>1 DEF ReqIsFine
<1>4. CASE q.todo = {i}
  <2> DEFINE b == [q EXCEPT !.todo = {}]
  <2>1. /\ b \in IdReq /\ b.pass = q.pass /\ b.left = q.left
        /\ b.unit = q.unit /\ b.result = q.result /\ b.copies = q.copies
    BY <1>1 DEF IdReq
  <2>2. b.hurt = q.hurt
    BY <1>1 DEF IdReq
  <2>3. req' = [req EXCEPT ![r] = Ids!UnitEnds(b)]
    BY <1>1, <1>4
  <2> HIDE DEF b
  <2>4. Honest(b) /\ Unseen(b, b.left \ b.unit) /\ Repeated(b, b.left \ b.unit)
    BY <1>3, <2>1, <2>2 DEF Honest, Unseen, Repeated, Ids!Failed
  <2>. QED
    BY <1>1, <1>2, <2>1, <2>3, <2>4, UnitEndsFine, OwnIdStep, IdTypes
<1>5. CASE q.todo # {i}
  <2> DEFINE b == [q EXCEPT !.todo = @ \ {i}]
  <2>1. /\ b \in IdReq /\ b.at = "store" /\ b.pass = q.pass /\ b.left = q.left
        /\ b.unit = q.unit /\ b.result = q.result /\ b.copies = q.copies
    BY <1>1 DEF IdReq
  <2>2. b.hurt = q.hurt
    BY <1>1 DEF IdReq
  <2>3. req' = [req EXCEPT ![r] = b]
    BY <1>1, <1>5
  <2> HIDE DEF b
  <2>4. ReqIsFine(b)
    BY <1>3, <2>1, <2>2 DEF ReqIsFine, Honest, Unseen, Repeated, Ids!Failed
  <2>. QED
    BY <1>1, <1>2, <2>3, <2>4, OwnIdStep, IdTypes
<1>. QED
  BY <1>4, <1>5

\* Records run out and ids die; no request changes.
LEMMA AgesIds == ASSUME Ids!IdsAssumption, IdsInv, Ids!Expires \/ Ids!IdDies PROVE IdsInv'
<1>1. /\ req' = req /\ ids' = ids /\ idFaults' = idFaults
      /\ ages' \in 0 .. MaxAges
  BY IdsFacts, IdTypes DEF Ids!Expires, Ids!IdDies, Ids!Ages
<1>2. cache' \in [Items -> 0 .. Ids!Junk]
  BY IdTypes DEF Ids!Expires, Ids!IdDies
<1>3. metadata' \in BOOLEAN
  BY IdTypes DEF Ids!Expires, Ids!IdDies
<1>4. dead' \subseteq Items \X (1 .. MaxIds)
  <2>1. \A i \in Items : 1 .. ids[i] \subseteq 1 .. MaxIds
    BY IdTypes, IdsFacts
  <2>2. CASE Ids!IdDies
    <3>1. PICK i \in Items : \E id \in 1 .. ids[i] : dead' = dead \cup {<<i, id>>}
      BY <2>2 DEF Ids!IdDies
    <3>2. PICK id \in 1 .. ids[i] : dead' = dead \cup {<<i, id>>}
      BY <3>1
    <3>. QED
      BY <2>1, <3>2, IdTypes
  <2>3. CASE Ids!Expires
    BY <2>3, IdTypes DEF Ids!Expires
  <2>. QED
    BY <2>2, <2>3
<1>. QED
  BY <1>1, <1>2, <1>3, <1>4, IdTypes DEF IdsInv

\* The invariant holds in every behaviour, fair or not.
LEMMA FileIdsAlways ==
  ASSUME Ids!IdsAssumption
  PROVE  Ids!Init /\ [][Ids!Next]_(Ids!vars) => []Ids!FileIdsAreSafe
<1>1. Ids!Init => IdsInv
  <2> SUFFICES ASSUME Ids!Init PROVE IdsInv
    OBVIOUS
  <2> DEFINE q == [at |-> "idle", pass |-> "cached", left |-> {}, unit |-> {}, todo |-> {},
                   force |-> FALSE, media |-> [i \in Items |-> Ids!None],
                   result |-> [i \in Items |-> "none"],
                   copies |-> [i \in Items |-> 0], hurt |-> FALSE]
  <2>1. [i \in Items |-> Ids!None] \in [Items -> 0 .. MaxIds]
    BY IdsFacts DEF Ids!None
  <2>2. q \in IdReq
    BY <2>1 DEF IdReq, Ids!Places, Ids!Passes
  <2>3. q.at = "idle" /\ q.pass = "cached" /\ \A i \in Items : q.result[i] = "none" /\ q.copies[i] = 0
    OBVIOUS
  <2>4. req = [r \in Requests |-> q]
    BY DEF Ids!Init
  <2> HIDE DEF q
  <2>5. ReqIsFine(q)
    BY <2>2, <2>3 DEF ReqIsFine, Honest, Unseen
  <2>6. cache \in [Items -> 0 .. Ids!Junk]
    <3>1. 0 \in 0 .. Ids!Junk /\ 1 \in 0 .. Ids!Junk /\ Ids!Junk \in 0 .. Ids!Junk
      BY IdsFacts DEF Ids!Junk
    <3>. QED
      BY <3>1 DEF Ids!Init, Ids!None
  <2>7. ids \in [Items -> 0 .. MaxIds] /\ dead \subseteq Items \X (1 .. MaxIds)
    <3>1. 1 \in 0 .. MaxIds /\ 1 \in 1 .. MaxIds /\ 1 \in Items
      BY IdsFacts
    <3>. QED
      BY <3>1 DEF Ids!Init
  <2>8. metadata \in BOOLEAN
    BY DEF Ids!Init
  <2>9. idFaults \in 0 .. IdFaults /\ ages \in 0 .. MaxAges
    BY IdsFacts DEF Ids!Init
  <2>. QED
    BY <2>2, <2>4, <2>5, <2>6, <2>7, <2>8, <2>9 DEF IdsInv
<1>2. IdsInv /\ [Ids!Next]_(Ids!vars) => IdsInv'
  <2> SUFFICES ASSUME IdsInv, [Ids!Next]_(Ids!vars) PROVE IdsInv'
    OBVIOUS
  <2>1. ASSUME NEW r \in Requests,
               \/ Ids!Start(r) \/ Ids!Look(r) \/ Ids!Open(r) \/ Ids!Prepare(r) \/ Ids!Accepted(r) \/ Ids!RefusesId(r)
               \/ Ids!SendFails(r) \/ Ids!Evict(r) \/ Ids!Store(r)
        PROVE  IdsInv'
    BY <2>1, StartIds, LookIds, OpenIds, PrepareIds, AcceptedIds, RefusesIdIds, SendFailsIds,
       EvictIds, StoreIds
  <2>2. CASE UNCHANGED Ids!vars
    BY <2>2 DEF Ids!vars, IdsInv
  <2>. QED
    BY <2>1, <2>2, AgesIds DEF Ids!Next
<1>3. IdsInv => Ids!FileIdsAreSafe
  <2> SUFFICES ASSUME IdsInv PROVE Ids!FileIdsAreSafe
    OBVIOUS
  <2>1. Ids!TypeOK
    BY DEF IdsInv, Ids!TypeOK, IdReq
  <2>2. Ids!NoItemTwice /\ Ids!HonestReceipts
    BY IdTypes DEF Ids!NoItemTwice, Ids!HonestReceipts, ReqIsFine, Honest
  <2>3. Ids!CacheCostsNothing
    BY IdTypes DEF Ids!CacheCostsNothing, ReqIsFine
  <2>. QED
    BY <2>1, <2>2, <2>3 DEF Ids!FileIdsAreSafe
<1>. QED
  BY <1>1, <1>2, <1>3, PTL

(* A cached, stale or lost Telegram file id never makes an item appear twice in a chat, and *)
(* every receipt says what was shown, through refused ids, failing sends and lost cache     *)
(* calls (delivery.py, media_cache.py), for every post, album, request and fault.           *)
THEOREM FileIdsSafe == ASSUME Ids!IdsAssumption PROVE Ids!Spec => []Ids!FileIdsAreSafe
  BY FileIdsAlways, PTL DEF Ids!Spec

-----------------------------------------------------------------------------
(* RateLimits (app/core/limiter.py). The credit of a key, what an ideal    *)
(* bucket that pays for every pass would hold, is with what the key owes   *)
(* for passes no bucket gave at least what the real bucket may give by     *)
(* now, up to the ideal one's bound, and in memory just that; and a bucket *)
(* that expires or is pruned had been idle until it was full again.        *)

CONSTANTS Capacity, Cost, Early, Late, IdleFloor, PruneEvery, MaxOwed, LimitTicks
VARIABLES bucket, lastPrune, credit, owed, unfair, check

Limits == INSTANCE RateLimits WITH Tasks <- Handlers, MaxNow <- LimitTicks, task <- check

\* How far a bucket may be ahead of the clock.
Ahead == IF redis THEN Early ELSE 0

\* What the bucket would hold now, were it not bounded.
Potential(b) == b.tokens + now + Ahead - b.at

\* A bucket: its units, as of when, and in Redis until when.
BucketType == [tokens : Nat, at : Nat, until : Nat]

\* What the ideal bucket of k would hold without the passes that no bucket gave.
Ideal(k) == credit[k] + owed[k]

\* It holds at least what the real one may give, up to its own bound; in memory
\* it holds just that.
CreditCovers(k) ==
    LET b == bucket[k] IN
    /\ b = None => Ideal(k) = Capacity + Limits!Slack
    /\ b # None =>
          /\ Ideal(k) >= Limits!Least(Capacity + Limits!Slack, Potential(b))
          /\ ~redis => Ideal(k) = Limits!Least(Capacity, Potential(b))
          /\ redis => b.at <= b.until - Limits!Life + Early
          /\ b.at <= now + Ahead

\* What the invariant says of a key: its credit covers what its bucket can grant,
\* and in memory nothing passes without an answer.
KeyInv(k) ==
    /\ Ideal(k) \in 0 .. Capacity + Limits!Slack /\ CreditCovers(k)
    /\ ~redis => owed[k] = 0

\* The invariant.
LimitInv ==
    /\ Limits!TypeOK /\ ~unfair
    /\ \A k \in Limits!Keys : KeyInv(k)

\* The constants are natural numbers, and no bucket is None.
LEMMA Numbers ==
  ASSUME Limits!LimitsAssumption
  PROVE  /\ Capacity \in Nat /\ Cost \in Nat /\ Early \in Nat /\ Late \in Nat
         /\ IdleFloor \in Nat /\ PruneEvery \in Nat /\ LimitTicks \in Nat /\ MaxOwed \in Nat
         /\ Early + Late <= Capacity /\ Limits!Life = 2 * Capacity
         /\ Limits!MaxIdle \in Nat /\ Limits!MaxIdle >= 2 * Capacity
         /\ Limits!Slack \in Nat /\ Limits!Slack = (IF redis THEN Early + Late ELSE 0)
         /\ Ahead \in Nat /\ Ahead <= Early
  BY DEF Limits!LimitsAssumption, Limits!Life, Limits!MaxIdle, Limits!Most, Limits!Slack, Ahead

\* No key has a bucket, and every key has full credit.
LEMMA InitLimit == ASSUME Limits!LimitsAssumption, Limits!Init PROVE LimitInv
<1>1. Capacity + Limits!Slack \in Nat /\ LimitTicks \in Nat /\ MaxOwed \in Nat /\ redis \in BOOLEAN
  BY Numbers DEF Limits!Init
<1>2. Limits!TypeOK
  <2>1. now \in 0 .. LimitTicks /\ lastPrune \in 0 .. now
    BY <1>1 DEF Limits!Init
  <2>4. unfair \in BOOLEAN
    BY DEF Limits!Init
  <2>2. /\ credit \in [Limits!Keys -> Int] /\ owed \in [Limits!Keys -> 0 .. MaxOwed]
        /\ check \in [Handlers -> Limits!Keys]
    BY <1>1 DEF Limits!Init, Limits!Keys, Limits!User
  <2>3. bucket \in [Limits!Keys -> {None} \cup
          [tokens : 0 .. Capacity, at : 0 .. now + Early, until : 0 .. now + Limits!Life]]
    BY DEF Limits!Init
  <2>. QED
    BY <1>1, <2>1, <2>2, <2>3, <2>4 DEF Limits!TypeOK
<1>. QED
  BY <1>1, <1>2 DEF Limits!Init, LimitInv, KeyInv, CreditCovers, Ideal, Limits!Keys

\* The bucket of k after a check of it at time t.
LEMMA ChargedBucket ==
  ASSUME Limits!LimitsAssumption, LimitInv, NEW k \in Limits!Keys, NEW t \in Nat,
         redis => t \in Limits!Times, ~redis => t = now,
         NEW b, b = Limits!Charged(k, t),
         NEW c, c = (IF Limits!Grants(k, t) THEN Ideal(k) - Cost ELSE Ideal(k))
  PROVE  /\ b \in [tokens : 0 .. Capacity, at : 0 .. now + Early, until : 0 .. now + Limits!Life]
         /\ b # None
         /\ c \in 0 .. Capacity + Limits!Slack
         /\ c >= Limits!Least(Capacity + Limits!Slack, Potential(b))
         /\ ~redis => c = Limits!Least(Capacity, Potential(b)) /\ (Limits!Grants(k, t) \/ Ideal(k) < Cost)
         /\ redis => b.at <= b.until - Limits!Life + Early
         /\ b.at <= now + Ahead
<1>1. /\ Capacity \in Nat /\ Cost \in Nat /\ Early \in Nat /\ Late \in Nat
      /\ Early + Late <= Capacity /\ Limits!Life = 2 * Capacity /\ now \in Nat
      /\ Limits!Slack = (IF redis THEN Early + Late ELSE 0)
      /\ Ahead = (IF redis THEN Early ELSE 0)
      /\ redis \in BOOLEAN
  BY Numbers DEF LimitInv, Limits!TypeOK, Ahead
<1>2. bucket[k] = None \/ bucket[k] \in BucketType
  BY <1>1 DEF LimitInv, Limits!TypeOK, BucketType
<1>3. Ideal(k) \in 0 .. Capacity + Limits!Slack /\ CreditCovers(k)
  BY DEF LimitInv, KeyInv
<1>4. t <= now + Ahead /\ (redis => t >= now - Late) /\ (~redis => t = now)
  BY <1>1 DEF Limits!Times, Limits!Most
<1> DEFINE old == bucket[k]
           r == Limits!Refilled(k, t)
           g == r.tokens >= Cost
<1>5. /\ b.tokens = r.tokens - (IF g THEN Cost ELSE 0)
      /\ b.at = r.at /\ b.until = (IF redis THEN now + Limits!Life ELSE 0)
      /\ b = [tokens |-> b.tokens, at |-> b.at, until |-> b.until]
      /\ Limits!Grants(k, t) <=> g
  BY DEF Limits!Charged, Limits!Grants
<1>6. CASE old = None \/ (redis /\ old.until <= now)
  <2>1. r.tokens = Capacity /\ r.at = t
    BY <1>6 DEF Limits!Refilled
  <2>2. Ideal(k) = Capacity + Limits!Slack
    <3>1. CASE old = None
      BY <3>1, <1>3 DEF CreditCovers
    <3>2. CASE old # None /\ redis /\ old.until <= now
      <4>1. /\ old.tokens \in Nat /\ old.at \in Nat /\ old.until \in Nat
            /\ old.at <= old.until - Limits!Life + Early
            /\ Ideal(k) >= Limits!Least(Capacity + Limits!Slack, Potential(old))
        BY <3>2, <1>2, <1>3 DEF CreditCovers, BucketType
      <4>2. Potential(old) \in Int /\ Potential(old) >= Capacity + Limits!Slack
        BY <4>1, <3>2, <1>1 DEF Potential
      <4>. QED
        BY <4>1, <4>2, <1>1, <1>3 DEF Limits!Least
    <3>. QED
      BY <3>1, <3>2, <1>6
  <2>3. b.tokens \in 0 .. Capacity /\ b.at = t /\ b.until \in 0 .. now + Limits!Life
    BY <1>1, <1>5, <2>1
  <2>4. c = Capacity + Limits!Slack - (IF g THEN Cost ELSE 0) /\ b.tokens = Capacity - (IF g THEN Cost ELSE 0)
    BY <1>1, <1>5, <2>1, <2>2
  <2>. QED
    BY <1>1, <1>2, <1>4, <1>5, <2>1, <2>2, <2>3, <2>4
    DEF Limits!LimitsAssumption, Potential, Limits!Least, BucketType
<1>7. CASE old # None /\ ~(redis /\ old.until <= now)
  <2>1. /\ old.tokens \in 0 .. Capacity /\ old.at \in Nat /\ old.until \in Nat
        /\ old.at <= now + Ahead
        /\ Ideal(k) >= Limits!Least(Capacity + Limits!Slack, Potential(old))
        /\ ~redis => Ideal(k) = Limits!Least(Capacity, Potential(old))
    BY <1>7, <1>3 DEF CreditCovers, LimitInv, Limits!TypeOK
  <2>2. /\ r.tokens = Limits!Least(Capacity, old.tokens + Limits!Most(0, t - old.at))
        /\ r.at = Limits!Most(old.at, t)
    BY <1>7 DEF Limits!Refilled
  <2>3. /\ r.tokens \in 0 .. Capacity /\ r.at \in Nat /\ r.at <= now + Ahead
        /\ r.at >= t /\ r.at >= old.at
        /\ r.tokens <= old.tokens + (r.at - old.at)
        /\ r.tokens = Capacity \/ r.tokens = old.tokens + (r.at - old.at)
    BY <1>1, <1>4, <2>1, <2>2 DEF Limits!Least, Limits!Most
  <2>4. r.tokens <= Ideal(k)
    BY <1>1, <1>3, <2>1, <2>3 DEF Limits!Least, Potential
  <2>5. /\ b.tokens \in 0 .. Capacity /\ b.at = r.at /\ b.until \in 0 .. now + Limits!Life
        /\ b.until = (IF redis THEN now + Limits!Life ELSE 0)
    BY <1>1, <1>5, <2>3
  <2>6. c \in 0 .. Capacity + Limits!Slack
    BY <1>1, <1>3, <1>5, <2>3, <2>4
  <2>7. c >= Limits!Least(Capacity + Limits!Slack, Potential(b))
    BY <1>1, <1>3, <1>4, <1>5, <2>1, <2>3, <2>5 DEF Limits!Least, Potential
  <2>8. ~redis => c = Limits!Least(Capacity, Potential(b)) /\ (Limits!Grants(k, t) \/ Ideal(k) < Cost)
    BY <1>1, <1>3, <1>4, <1>5, <2>1, <2>3, <2>5 DEF Limits!Least, Potential
  <2>. QED
    BY <1>1, <1>5, <2>3, <2>5, <2>6, <2>7, <2>8 DEF Limits!LimitsAssumption
<1>. QED
  BY <1>6, <1>7

\* Nothing else than a check or the clock changes what covers the bucket of j.
LEMMA OtherBucket ==
  ASSUME Limits!LimitsAssumption, LimitInv, NEW j \in Limits!Keys,
         bucket'[j] = bucket[j], Ideal(j)' = Ideal(j), owed'[j] = owed[j] \/ redis,
         now' = now, redis' = redis
  PROVE  KeyInv(j)'
  BY DEF LimitInv, KeyInv, CreditCovers, Potential, Ahead, Limits!Slack

\* An idle bucket would be full.
LEMMA IdleIsFull ==
  ASSUME Limits!LimitsAssumption, LimitInv, NEW j \in Limits!Keys, Limits!Idle(j), ~redis
  PROVE  Ideal(j) = Capacity + Limits!Slack
<1>1. /\ Capacity \in Nat /\ now \in Nat /\ Limits!MaxIdle \in Nat /\ Limits!MaxIdle >= 2 * Capacity
      /\ Limits!Slack = 0 /\ Ahead = 0
  BY Numbers DEF LimitInv, Limits!TypeOK, Ahead
<1>2. /\ bucket[j] # None /\ bucket[j].tokens \in Nat /\ bucket[j].at \in Nat
      /\ now - bucket[j].at > Limits!MaxIdle /\ Ideal(j) = Limits!Least(Capacity, Potential(bucket[j]))
  BY DEF Limits!Idle, LimitInv, KeyInv, Limits!TypeOK, CreditCovers
<1>. QED
  BY <1>1, <1>2 DEF Potential, Limits!Least

\* Types that hold before a step and are kept by it hold after it.
LEMMA TypeKept ==
  ASSUME Limits!LimitsAssumption, LimitInv,
         redis' = redis, now' = now, lastPrune' \in {lastPrune, now}, unfair' = FALSE,
         check' \in [Handlers -> Limits!Keys], credit' \in [Limits!Keys -> Int],
         owed' \in [Limits!Keys -> 0 .. MaxOwed],
         bucket' \in [Limits!Keys -> {None} \cup
            [tokens : 0 .. Capacity, at : 0 .. now + Early, until : 0 .. now + Limits!Life]],
         \A j \in Limits!Keys : KeyInv(j)'
  PROVE  LimitInv'
<1>1. redis \in BOOLEAN /\ now \in 0 .. LimitTicks /\ lastPrune \in 0 .. now /\ LimitTicks \in Nat
  BY Numbers DEF LimitInv, Limits!TypeOK
<1>2. Limits!TypeOK'
  <2>1. lastPrune' \in 0 .. now'
    BY <1>1
  <2>2. bucket' \in [Limits!Keys -> {None} \cup
            [tokens : 0 .. Capacity, at : 0 .. now' + Early, until : 0 .. now' + Limits!Life]]
    OBVIOUS
  <2>. QED
    BY <1>1, <2>1, <2>2 DEF Limits!TypeOK
<1>. QED
  BY <1>2 DEF LimitInv

\* A check of k at time t in Redis that its script counts, whoever learns of it.
LEMMA Counted ==
  ASSUME Limits!LimitsAssumption, LimitInv, NEW k \in Limits!Keys, NEW t \in Limits!Times, redis,
         redis' = redis, now' = now, lastPrune' = lastPrune, unfair' = unfair,
         check' \in [Handlers -> Limits!Keys], credit' \in [Limits!Keys -> Int],
         owed' \in [Limits!Keys -> 0 .. MaxOwed],
         bucket' = [bucket EXCEPT ![k] = Limits!Charged(k, t)],
         Ideal(k)' = (IF Limits!Grants(k, t) THEN Ideal(k) - Cost ELSE Ideal(k)),
         \A j \in Limits!Keys \ {k} : Ideal(j)' = Ideal(j)
  PROVE  LimitInv'
<1>1. /\ now \in Nat /\ Late \in Nat /\ Early \in Nat /\ t \in Nat
      /\ bucket \in [Limits!Keys -> {None} \cup
            [tokens : 0 .. Capacity, at : 0 .. now + Early, until : 0 .. now + Limits!Life]]
  BY Numbers DEF LimitInv, Limits!TypeOK, Limits!Times, Limits!Most
<1>2. bucket'[k] = Limits!Charged(k, t) /\ \A j \in Limits!Keys \ {k} : bucket'[j] = bucket[j]
  BY <1>1
<1>3. /\ bucket'[k] \in [tokens : 0 .. Capacity, at : 0 .. now + Early, until : 0 .. now + Limits!Life]
      /\ KeyInv(k)'
  <2>1. /\ bucket'[k] \in [tokens : 0 .. Capacity, at : 0 .. now + Early, until : 0 .. now + Limits!Life]
        /\ bucket'[k] # None
        /\ Ideal(k)' \in 0 .. Capacity + Limits!Slack
        /\ Ideal(k)' >= Limits!Least(Capacity + Limits!Slack, Potential(bucket'[k]))
        /\ bucket'[k].at <= bucket'[k].until - Limits!Life + Early
        /\ bucket'[k].at <= now + Ahead
    BY <1>1, <1>2, ChargedBucket
  <2>2. (Capacity + Limits!Slack)' = Capacity + Limits!Slack
        /\ Potential(bucket[k])' = Potential(bucket'[k]) /\ Ahead' = Ahead
    BY DEF Limits!Slack, Potential, Ahead
  <2>. QED
    BY <2>1, <2>2 DEF KeyInv, CreditCovers
<1>4. \A j \in Limits!Keys : KeyInv(j)'
  <2>. SUFFICES ASSUME NEW j \in Limits!Keys \ {k} PROVE KeyInv(j)'
    BY <1>3
  <2>. QED
    BY <1>2, OtherBucket
<1>5. bucket' \in [Limits!Keys -> {None} \cup
            [tokens : 0 .. Capacity, at : 0 .. now + Early, until : 0 .. now + Limits!Life]]
  BY <1>1, <1>2, <1>3
<1>6. unfair' = FALSE
  BY DEF LimitInv, Limits!TypeOK
<1>. QED
  BY <1>4, <1>5, <1>6, TypeKept

\* The token bucket script grants no more than the credit (RedisTokenBucketLimiter).
LEMMA ScriptLimit ==
  ASSUME Limits!LimitsAssumption, LimitInv, NEW h \in Handlers, NEW k \in Limits!Keys, NEW t \in Limits!Times,
         Limits!Script(h, k, t)
  PROVE  LimitInv'
<1>1. check' \in [Handlers -> Limits!Keys]
  BY DEF Limits!Script, Limits!Check, LimitInv, Limits!TypeOK, Limits!Keys
<1>2. /\ credit \in [Limits!Keys -> Int] /\ owed \in [Limits!Keys -> 0 .. MaxOwed]
      /\ Cost \in Nat /\ MaxOwed \in Nat
  BY Numbers DEF LimitInv, Limits!TypeOK
<1>3. /\ credit' \in [Limits!Keys -> Int] /\ owed' \in [Limits!Keys -> 0 .. MaxOwed]
      /\ Ideal(k)' = (IF Limits!Grants(k, t) THEN Ideal(k) - Cost ELSE Ideal(k))
      /\ \A j \in Limits!Keys \ {k} : Ideal(j)' = Ideal(j)
  BY <1>2 DEF Limits!Script, Limits!Check, Ideal
<1>. QED
  BY <1>1, <1>3, Counted DEF Limits!Script, Limits!Check

\* A check that Redis does not answer passes; the credit pays if the script took
\* the tokens, and else the key owes them.
LEMMA FailOpenLimit ==
  ASSUME Limits!LimitsAssumption, LimitInv, NEW h \in Handlers, NEW k \in Limits!Keys, NEW t \in Limits!Times,
         Limits!FailOpen(h, k, t)
  PROVE  LimitInv'
<1>1. check' \in [Handlers -> Limits!Keys]
  BY DEF Limits!FailOpen, LimitInv, Limits!TypeOK, Limits!Keys
<1>2. /\ credit \in [Limits!Keys -> Int] /\ owed \in [Limits!Keys -> 0 .. MaxOwed]
      /\ Cost \in Nat /\ MaxOwed \in Nat
  BY Numbers DEF LimitInv, Limits!TypeOK
<1>3. /\ credit' \in [Limits!Keys -> Int] /\ credit'[k] = credit[k] - Cost
      /\ \A j \in Limits!Keys \ {k} : credit'[j] = credit[j]
  BY <1>2 DEF Limits!FailOpen
<1>4. CASE /\ owed' = [owed EXCEPT ![k] = @ + Cost]
           /\ UNCHANGED bucket
  <2>1. /\ owed' \in [Limits!Keys -> 0 .. MaxOwed]
        /\ \A j \in Limits!Keys : Ideal(j)' = Ideal(j)
    BY <1>2, <1>3, <1>4 DEF Limits!FailOpen, Ideal
  <2>2. \A j \in Limits!Keys : KeyInv(j)'
    BY <1>4, <2>1, OtherBucket DEF Limits!FailOpen
  <2>3. bucket' \in [Limits!Keys -> {None} \cup
            [tokens : 0 .. Capacity, at : 0 .. now + Early, until : 0 .. now + Limits!Life]]
    BY <1>4 DEF LimitInv, Limits!TypeOK
  <2>4. redis' = redis /\ now' = now /\ lastPrune' = lastPrune /\ unfair' = FALSE
    BY DEF Limits!FailOpen, LimitInv, Limits!TypeOK
  <2>. QED
    BY <1>1, <1>3, <2>1, <2>2, <2>3, <2>4, TypeKept
<1>5. CASE /\ bucket' = [bucket EXCEPT ![k] = Limits!Charged(k, t)]
           /\ owed' = [owed EXCEPT ![k] = IF Limits!Grants(k, t) THEN @ ELSE @ + Cost]
  <2>1. /\ owed' \in [Limits!Keys -> 0 .. MaxOwed]
        /\ Ideal(k)' = (IF Limits!Grants(k, t) THEN Ideal(k) - Cost ELSE Ideal(k))
        /\ \A j \in Limits!Keys \ {k} : Ideal(j)' = Ideal(j)
    BY <1>2, <1>3, <1>5 DEF Limits!FailOpen, Ideal
  <2>. QED
    BY <1>1, <1>3, <1>5, <2>1, Counted DEF Limits!FailOpen
<1>. QED
  BY <1>4, <1>5 DEF Limits!FailOpen

\* A check in memory grants no more than the credit, and prunes idle buckets only.
LEMMA MemoryLimit ==
  ASSUME Limits!LimitsAssumption, LimitInv, NEW h \in Handlers, NEW k \in Limits!Keys, Limits!CheckMemory(h, k)
  PROVE  LimitInv'
<1>1. /\ now \in Nat /\ Early \in Nat /\ Cost \in Nat /\ MaxOwed \in Nat
      /\ bucket \in [Limits!Keys -> {None} \cup
            [tokens : 0 .. Capacity, at : 0 .. now + Early, until : 0 .. now + Limits!Life]]
      /\ credit \in [Limits!Keys -> Int] /\ owed \in [Limits!Keys -> 0 .. MaxOwed] /\ ~redis
      /\ \A j \in Limits!Keys : owed[j] = 0
  BY Numbers DEF LimitInv, KeyInv, Limits!TypeOK, Limits!CheckMemory
<1>2. /\ bucket'[k] = Limits!Charged(k, now)
      /\ credit'[k] = (IF Limits!Grants(k, now) THEN credit[k] - Cost ELSE credit[k])
      /\ owed' = owed
      /\ \A j \in Limits!Keys \ {k} :
            /\ credit'[j] = credit[j]
            /\ bucket'[j] = bucket[j] \/ (bucket'[j] = None /\ Limits!Idle(j))
  BY <1>1 DEF Limits!CheckMemory, Limits!Check
<1>3. /\ \A j \in Limits!Keys : Ideal(j) = credit[j] /\ Ideal(j)' = credit'[j]
      /\ \A j \in Limits!Keys \ {k} : Ideal(j)' = Ideal(j)
      /\ Ideal(k)' = (IF Limits!Grants(k, now) THEN Ideal(k) - Cost ELSE Ideal(k))
  BY <1>1, <1>2 DEF Ideal
<1>4. /\ bucket'[k] \in [tokens : 0 .. Capacity, at : 0 .. now + Early, until : 0 .. now + Limits!Life]
      /\ bucket'[k] # None
      /\ Ideal(k)' \in 0 .. Capacity + Limits!Slack
      /\ Ideal(k)' >= Limits!Least(Capacity + Limits!Slack, Potential(bucket'[k]))
      /\ Ideal(k)' = Limits!Least(Capacity, Potential(bucket'[k]))
      /\ Limits!Grants(k, now) \/ Ideal(k) < Cost
      /\ bucket'[k].at <= now + Ahead
  BY <1>1, <1>2, <1>3, ChargedBucket
<1>5. \A j \in Limits!Keys : KeyInv(j)'
  <2>0. /\ (Capacity + Limits!Slack)' = Capacity + Limits!Slack /\ Ahead' = Ahead
        /\ redis' = redis /\ now' = now
    BY DEF Limits!Slack, Ahead, Limits!CheckMemory
  <2>1. KeyInv(k)'
    <3>1. Potential(bucket[k])' = Potential(bucket'[k])
      BY <2>0 DEF Potential, Limits!CheckMemory
    <3>. QED
      BY <1>1, <1>2, <1>4, <2>0, <3>1 DEF KeyInv, CreditCovers
  <2>2. ASSUME NEW j \in Limits!Keys \ {k} PROVE KeyInv(j)'
    <3>1. CASE bucket'[j] = bucket[j]
      BY <1>2, <1>3, <3>1, <2>0, OtherBucket
    <3>2. CASE bucket'[j] = None /\ Limits!Idle(j)
      <4>1. Ideal(j)' = (Capacity + Limits!Slack)' /\ Ideal(j)' \in 0 .. (Capacity + Limits!Slack)'
        BY <1>1, <1>3, <2>0, <3>2, IdleIsFull DEF LimitInv, KeyInv
      <4>. QED
        BY <1>1, <1>2, <2>0, <3>2, <4>1 DEF KeyInv, CreditCovers
    <3>. QED
      BY <1>2, <3>1, <3>2
  <2>. QED
    BY <2>1, <2>2
<1>6. bucket' \in [Limits!Keys -> {None} \cup
            [tokens : 0 .. Capacity, at : 0 .. now + Early, until : 0 .. now + Limits!Life]]
  <2>1. \A j \in Limits!Keys : bucket'[j] \in {None} \cup
            [tokens : 0 .. Capacity, at : 0 .. now + Early, until : 0 .. now + Limits!Life]
    BY <1>1, <1>2, <1>4
  <2>. QED
    BY <2>1 DEF Limits!CheckMemory
<1>7. unfair' = FALSE
  <2>1. ~(~Limits!Grants(k, now) /\ credit[k] >= Cost)
    BY <1>1, <1>3, <1>4
  <2>. QED
    BY <2>1 DEF Limits!CheckMemory, LimitInv, Limits!TypeOK
<1>8. check' \in [Handlers -> Limits!Keys]
  BY DEF Limits!CheckMemory, Limits!Check, LimitInv, Limits!TypeOK, Limits!Keys
<1>9. credit' \in [Limits!Keys -> Int] /\ owed' \in [Limits!Keys -> 0 .. MaxOwed]
  BY <1>1, <1>2 DEF Limits!CheckMemory, Limits!Check
<1>10. redis' = redis /\ now' = now /\ lastPrune' \in {lastPrune, now}
  BY DEF Limits!CheckMemory
<1>. QED
  BY <1>5, <1>6, <1>7, <1>8, <1>9, <1>10, TypeKept

\* A tick adds as much to the ideal bucket as to the real one.
LEMMA TickLimit ==
  ASSUME Limits!LimitsAssumption, LimitInv, Limits!Tick
  PROVE  LimitInv'
<1>1. /\ Capacity \in Nat /\ Limits!Slack \in Nat /\ Early \in Nat /\ Ahead \in Nat /\ Limits!Life \in Nat
      /\ now \in 0 .. LimitTicks /\ LimitTicks \in Nat /\ now' = now + 1 /\ now < LimitTicks
      /\ (Capacity + Limits!Slack)' = Capacity + Limits!Slack /\ Ahead' = Ahead /\ redis' = redis
      /\ redis \in BOOLEAN /\ (~redis => Limits!Slack = 0) /\ MaxOwed \in Nat
  BY Numbers DEF LimitInv, Limits!TypeOK, Limits!Tick, Limits!Slack, Ahead
<1>2. ASSUME NEW k \in Limits!Keys
      PROVE  /\ bucket'[k] = bucket[k]
             /\ bucket[k] # None => bucket[k] \in BucketType
             /\ Ideal(k) \in 0 .. Capacity + Limits!Slack /\ CreditCovers(k)
             /\ ~redis => owed[k] = 0
  BY Numbers DEF LimitInv, KeyInv, Limits!TypeOK, Limits!Tick, BucketType
<1>3. ASSUME NEW k \in Limits!Keys
      PROVE  /\ credit'[k] \in Int /\ owed'[k] \in 0 .. MaxOwed
             /\ ~redis => owed'[k] = 0
             /\ Ideal(k)' = Limits!Least(Capacity + Limits!Slack, Ideal(k) + 1)
  <2>1. credit[k] \in Int /\ owed[k] \in 0 .. MaxOwed
    BY DEF LimitInv, Limits!TypeOK
  <2>2. /\ credit'[k] = Limits!Least(Capacity + Limits!Slack, credit[k] + 1)
        /\ owed'[k] = Limits!Least(owed[k], Capacity + Limits!Slack - credit'[k])
    BY DEF Limits!Tick
  <2>3. credit'[k] \in Int /\ credit'[k] <= Capacity + Limits!Slack
    BY <1>1, <2>1, <2>2 DEF Limits!Least
  <2>4. owed'[k] \in 0 .. MaxOwed /\ (~redis => owed'[k] = 0)
    BY <1>1, <1>2, <2>1, <2>2, <2>3 DEF Limits!Least
  <2>5. credit'[k] + owed'[k] = Limits!Least(Capacity + Limits!Slack, credit[k] + owed[k] + 1)
    BY <1>1, <1>2, <2>1, <2>2, <2>3, <2>4 DEF Limits!Least, Ideal
  <2>. QED
    BY <2>3, <2>4, <2>5 DEF Ideal
<1>4. ASSUME NEW k \in Limits!Keys PROVE KeyInv(k)'
  <2> DEFINE b == bucket[k]
             p == b.tokens + now + Ahead - b.at
  <2>1. CASE b = None
    BY <1>1, <1>2, <1>3, <2>1 DEF KeyInv, CreditCovers, Limits!Least
  <2>2. CASE b # None
    <3>1. /\ b.tokens \in Nat /\ b.at \in Nat /\ b.until \in Nat
          /\ Ideal(k) >= Limits!Least(Capacity + Limits!Slack, p)
          /\ ~redis => Ideal(k) = Limits!Least(Capacity, p)
          /\ redis => b.at <= b.until - Limits!Life + Early
          /\ b.at <= now + Ahead
          /\ p \in Int
      BY <1>1, <1>2, <2>2 DEF CreditCovers, BucketType, Potential
    <3>2. Potential(bucket[k])' = b.tokens + (now + 1) + Ahead - b.at /\ p + 1 = b.tokens + (now + 1) + Ahead - b.at
      <4>1. bucket'[k] = b /\ now' = now + 1 /\ Ahead' = Ahead
        BY <1>1, <1>2
      <4>2. Potential(bucket[k])' = b.tokens + (now + 1) + Ahead - b.at
        BY <4>1 DEF Potential
      <4>3. b.tokens \in Int /\ now \in Int /\ Ahead \in Int /\ b.at \in Int
        BY <1>1, <3>1 DEF Ahead
      <4>. QED
        BY <4>2, <4>3
    <3>3. Ideal(k)' \in 0 .. Capacity + Limits!Slack /\ Ideal(k)' >= Limits!Least(Capacity + Limits!Slack, p + 1)
      BY <1>1, <1>2, <1>3, <3>1 DEF Limits!Least
    <3>4. ~redis => Ideal(k)' = Limits!Least(Capacity, p + 1)
      BY <1>1, <1>2, <1>3, <3>1 DEF Limits!Least
    <3>5. b.at <= now' + Ahead
      BY <1>1, <3>1
    <3>. QED
      BY <1>1, <1>2, <1>3, <2>2, <3>1, <3>2, <3>3, <3>4, <3>5 DEF KeyInv, CreditCovers
  <2>. QED
    BY <2>1, <2>2
<1>5. Limits!TypeOK'
  <2>1. credit' \in [Limits!Keys -> Int] /\ owed' \in [Limits!Keys -> 0 .. MaxOwed]
    BY <1>3 DEF Limits!Tick
  <2>2. bucket' \in [Limits!Keys -> {None} \cup
          [tokens : 0 .. Capacity, at : 0 .. now' + Early, until : 0 .. now' + Limits!Life]]
    BY <1>1 DEF LimitInv, Limits!TypeOK, Limits!Tick
  <2>. QED
    BY <1>1, <2>1, <2>2 DEF LimitInv, Limits!TypeOK, Limits!Tick
<1>. QED
  BY <1>4, <1>5 DEF LimitInv, Limits!Tick

(* The checks a key passes are covered by its capacity, its refill and what the clocks *)
(* differ, but for those that Redis does not answer: they pass with no token and are   *)
(* all that an ideal bucket, which pays for them too, is ever overdrawn by.  In memory *)
(* there are none, and no key with credit is refused.  This is so whatever clocks,     *)
(* lost answers, TTLs and pruning do (limiter.py), for every capacity, cost, skew of   *)
(* the clocks and number of handlers.                                                  *)
THEOREM LimitsSafe ==
  ASSUME Limits!LimitsAssumption
  PROVE  Limits!Spec => []Limits!LimitsHold
<1>1. Limits!Init => LimitInv
  BY InitLimit
<1>2. LimitInv /\ [Limits!Next]_(Limits!vars) => LimitInv'
  <2> SUFFICES ASSUME LimitInv, [Limits!Next]_(Limits!vars) PROVE LimitInv'
    OBVIOUS
  <2>1. ASSUME NEW h \in Handlers, NEW k \in Limits!Keys, Limits!CheckMemory(h, k) PROVE LimitInv'
    BY <2>1, MemoryLimit
  <2>2. ASSUME NEW h \in Handlers, NEW k \in Limits!Keys, NEW t \in Limits!Times, Limits!Script(h, k, t)
        PROVE  LimitInv'
    BY <2>2, ScriptLimit
  <2>3. ASSUME NEW h \in Handlers, NEW k \in Limits!Keys, NEW t \in Limits!Times, Limits!FailOpen(h, k, t)
        PROVE  LimitInv'
    BY <2>3, FailOpenLimit
  <2>4. CASE Limits!Tick
    BY <2>4, TickLimit
  <2>5. CASE UNCHANGED Limits!vars
    BY <2>5 DEF Limits!vars, LimitInv, KeyInv, Limits!TypeOK, CreditCovers, Ideal, Potential,
       Ahead, Limits!Slack
  <2>. QED
    BY <2>1, <2>2, <2>3, <2>4, <2>5 DEF Limits!Next
<1>3. LimitInv => Limits!LimitsHold
  BY Numbers DEF LimitInv, KeyInv, Ideal, Limits!LimitsHold
<1>. QED
  BY <1>1, <1>2, <1>3, PTL DEF Limits!Spec

-----------------------------------------------------------------------------
(* StoreSchema (app/core/job_store.py). Parts are only added, so the       *)
(* version a process has read stays true of the parts there are; and the   *)
(* process that migrates holds the write lock, so what it finds missing is *)
(* still missing when it commits.                                          *)

CONSTANTS Processes, Supports, MaxProbes, MaxCrashes
VARIABLES version, parts, generation, writer, proc, probes, broken, crashes

Schema == INSTANCE StoreSchema WITH lock <- writer

\* A starting process: where it is and the version it has read.
ProcType == [pc : {"start", "refused", "begin", "migrate", "ready"}, read : Schema!Versions]

\* What a process has read stays true, as no part is ever dropped; it writes
\* while it migrates, and the row of the probe is not there before its part.
SchemaInv ==
    /\ Schema!MigrationsAreSafe /\ proc \in [Processes -> ProcType]
    /\ \A p \in Processes : 1 .. proc[p].read \subseteq parts
    /\ \A p \in Processes : Schema!At(p, "migrate") => writer = p
    /\ Schema!Probe \notin parts => probes = 0

\* A database of any version has the parts of that version, and no process has begun.
LEMMA InitSchema == ASSUME Schema!SchemaAssumption, Schema!Init PROVE SchemaInv
<1>1. version \in Schema!Versions /\ parts = 1 .. version /\ MaxProbes \in Nat /\ MaxCrashes \in Nat
  BY DEF Schema!Init, Schema!SchemaAssumption
<1>2. Schema!TypeOK /\ ~broken /\ generation = probes /\ probes = 0
  <2>1. generation \in 0 .. MaxProbes /\ probes \in 0 .. MaxProbes /\ crashes \in 0 .. MaxCrashes
    BY <1>1 DEF Schema!Init
  <2>2. ~broken /\ broken \in BOOLEAN
    BY DEF Schema!Init
  <2>3. parts \subseteq Schema!Versions \ {0}
    BY <1>1 DEF Schema!Versions
  <2>. QED
    BY <1>1, <2>1, <2>2, <2>3 DEF Schema!Init, Schema!TypeOK, Schema!Versions
<1>3. \A p \in Processes : proc[p] = [pc |-> "start", read |-> 0]
  BY DEF Schema!Init
<1>4. proc \in [Processes -> ProcType]
  BY DEF Schema!Init, ProcType, Schema!Versions
<1>. QED
  BY <1>1, <1>2, <1>3, <1>4 DEF SchemaInv, Schema!MigrationsAreSafe, Schema!At

\* The parts only grow, and whoever moves finds its parts where it goes.
LEMMA SchemaStep ==
  ASSUME Schema!SchemaAssumption, SchemaInv, Schema!TypeOK', ~broken', generation' = probes',
         proc' \in [Processes -> ProcType],
         parts \subseteq parts', 1 .. version' \subseteq parts',
         Schema!Probe \notin parts' => probes' = 0,
         \A p \in Processes :
             /\ proc'[p] = proc[p] \/ 1 .. proc'[p].read \subseteq parts'
             /\ proc'[p] = proc[p] \/ (proc'[p].pc = "ready" => 1 .. Supports[p] \subseteq parts')
             /\ proc'[p].pc = "migrate" => writer' = p
  PROVE  SchemaInv'
<1>1. \A p \in Processes : 1 .. proc'[p].read \subseteq parts'
  BY DEF SchemaInv
<1>2. \A p \in Processes : proc'[p].pc = "ready" => 1 .. Supports[p] \subseteq parts'
  BY DEF SchemaInv, Schema!MigrationsAreSafe, Schema!At
<1>. QED
  BY <1>1, <1>2 DEF SchemaInv, Schema!MigrationsAreSafe, Schema!At

\* What the invariant says, conjunct by conjunct.
LEMMA SchemaFacts ==
  ASSUME Schema!SchemaAssumption, SchemaInv
  PROVE  /\ version \in Schema!Versions /\ parts \subseteq Schema!Versions \ {0} /\ MaxProbes \in Nat
         /\ generation \in 0 .. MaxProbes /\ probes \in 0 .. MaxProbes /\ generation = probes
         /\ writer \in Processes \cup {None} /\ crashes \in 0 .. MaxCrashes /\ MaxCrashes \in Nat
         /\ proc \in [Processes -> ProcType] /\ Supports \in [Processes -> Schema!Versions]
         /\ 1 .. version \subseteq parts /\ broken = FALSE
         /\ Schema!Probe \notin parts => probes = 0
         /\ \A p \in Processes :
               /\ 1 .. proc[p].read \subseteq parts
               /\ proc[p].pc = "migrate" => writer = p
               /\ proc[p].pc = "ready" => 1 .. Supports[p] \subseteq parts
  BY DEF Schema!SchemaAssumption, SchemaInv, Schema!MigrationsAreSafe, Schema!TypeOK, Schema!At

\* A row of proc that keeps its type is enough.
LEMMA SchemaTypes ==
  ASSUME proc \in [Processes -> ProcType],
         version \in Schema!Versions, parts \subseteq Schema!Versions \ {0},
         generation \in 0 .. MaxProbes, probes \in 0 .. MaxProbes,
         writer \in Processes \cup {None}, broken = FALSE, crashes \in 0 .. MaxCrashes
  PROVE  Schema!TypeOK
  BY DEF Schema!TypeOK, ProcType

\* A process that reads PRAGMA user_version learns what stays true.
LEMMA ReadVersionSchema ==
  ASSUME Schema!SchemaAssumption, SchemaInv, NEW p \in Processes, Schema!ReadVersion(p) PROVE SchemaInv'
<1>1. /\ proc' \in [Processes -> ProcType]
      /\ proc'[p].read = version /\ proc'[p].pc \in {"refused", "begin"}
      /\ \A q \in Processes \ {p} : proc'[q] = proc[q]
  BY SchemaFacts DEF Schema!ReadVersion, ProcType
<1>2. Schema!TypeOK'
  BY <1>1, SchemaFacts, SchemaTypes DEF Schema!ReadVersion, Schema!TypeOK, ProcType
<1>. QED
  BY <1>1, <1>2, SchemaFacts, SchemaStep DEF Schema!ReadVersion

\* BEGIN IMMEDIATE lets one process migrate at a time.
LEMMA BeginSchema ==
  ASSUME Schema!SchemaAssumption, SchemaInv, NEW p \in Processes, Schema!Begin(p) PROVE SchemaInv'
<1>1. /\ proc' \in [Processes -> ProcType]
      /\ proc'[p].read = proc[p].read /\ proc'[p].pc = "migrate"
      /\ \A q \in Processes \ {p} : proc'[q] = proc[q]
  BY SchemaFacts DEF Schema!Begin, Schema!Goes, ProcType
<1>2. Schema!TypeOK'
  BY <1>1, SchemaFacts DEF Schema!Begin, Schema!TypeOK, ProcType
<1>3. \A q \in Processes \ {p} : proc'[q].pc # "migrate"
  BY <1>1, SchemaFacts DEF Schema!Begin, Schema!SchemaAssumption
<1>. QED
  BY <1>1, <1>2, <1>3, SchemaFacts, SchemaStep DEF Schema!Begin

\* The migrations of a process end at its version, with every part up to it.
LEMMA CommitSchema ==
  ASSUME Schema!SchemaAssumption, SchemaInv, NEW p \in Processes, Schema!Commit(p) PROVE SchemaInv'
<1>1. /\ proc' \in [Processes -> ProcType]
      /\ proc'[p].read = proc[p].read /\ proc'[p].pc = "ready"
      /\ \A q \in Processes \ {p} : proc'[q] = proc[q]
  BY SchemaFacts DEF Schema!Commit, Schema!Goes, ProcType
<1>2. /\ proc[p].read \in Schema!Versions /\ Supports[p] \in Schema!Versions
      /\ 1 .. proc[p].read \subseteq parts /\ writer = p
  BY SchemaFacts DEF ProcType, Schema!Commit, Schema!At
<1>3. /\ parts' = parts \cup ((proc[p].read + 1) .. Supports[p])
      /\ version' = Supports[p] /\ probes' = probes
      /\ generation' = (IF Schema!Probe \in Schema!Todo(p) \ parts THEN 0 ELSE generation)
  BY DEF Schema!Commit, Schema!Todo, Schema!Row
<1>4. 1 .. Supports[p] \subseteq parts' /\ parts \subseteq parts' /\ parts' \subseteq Schema!Versions \ {0}
  BY <1>2, <1>3, SchemaFacts DEF Schema!Versions
<1>5. generation' = probes
  BY <1>3, SchemaFacts
<1>6. Schema!Probe \notin parts' => probes' = 0
  BY <1>3, <1>4, SchemaFacts
<1>7. Schema!TypeOK'
  BY <1>1, <1>2, <1>3, <1>4, <1>5, SchemaFacts DEF Schema!Commit, Schema!TypeOK, ProcType
<1>8. \A q \in Processes \ {p} : proc'[q].pc # "migrate"
  BY <1>1, <1>2, SchemaFacts
<1>. QED
  BY <1>1, <1>2, <1>3, <1>4, <1>5, <1>6, <1>7, <1>8, SchemaFacts, SchemaStep DEF Schema!Commit

\* A start that fails or a restart forgets what was read, and rolls its migration back.
LEMMA FailsSchema ==
  ASSUME Schema!SchemaAssumption, SchemaInv, NEW p \in Processes, Schema!Fails(p) PROVE SchemaInv'
<1>1. /\ proc' \in [Processes -> ProcType]
      /\ proc'[p].read = 0 /\ proc'[p].pc = "start"
      /\ \A q \in Processes \ {p} : proc'[q] = proc[q]
  BY SchemaFacts DEF Schema!Fails, ProcType, Schema!Versions
<1>2. \A q \in Processes \ {p} : proc'[q].pc = "migrate" => writer' = q
  BY <1>1, SchemaFacts DEF Schema!Fails
<1>3. Schema!TypeOK'
  BY <1>1, SchemaFacts DEF Schema!Fails, Schema!TypeOK, ProcType
<1>. QED
  BY <1>1, <1>2, <1>3, SchemaFacts, SchemaStep DEF Schema!Fails

\* The health probe writes a row that exists, and counts on.
LEMMA WriteProbeSchema ==
  ASSUME Schema!SchemaAssumption, SchemaInv, NEW p \in Processes, Schema!WriteProbe(p) PROVE SchemaInv'
<1>1. Supports[p] \in Schema!Versions /\ Supports[p] >= Schema!Probe /\ proc[p].pc = "ready"
  BY SchemaFacts DEF Schema!WriteProbe, Schema!At
<1>2. Schema!Probe \in parts
  BY <1>1, SchemaFacts DEF Schema!Probe, Schema!Versions
<1>3. generation' = generation + 1 /\ probes' = probes + 1 /\ probes < MaxProbes /\ UNCHANGED broken
  BY <1>2 DEF Schema!WriteProbe
<1>4. Schema!TypeOK'
  BY <1>3, SchemaFacts DEF Schema!WriteProbe, Schema!TypeOK, ProcType
<1>. QED
  BY <1>2, <1>3, <1>4, SchemaFacts, SchemaStep DEF Schema!WriteProbe

\* An operation of a process that is ready finds the parts it uses.
LEMMA OperateSchema ==
  ASSUME Schema!SchemaAssumption, SchemaInv, NEW p \in Processes, Schema!Operate(p) PROVE SchemaInv'
<1>1. broken' = FALSE
  BY SchemaFacts DEF Schema!Operate, Schema!At
<1>2. Schema!TypeOK'
  BY <1>1, SchemaFacts DEF Schema!Operate, Schema!TypeOK, ProcType
<1>. QED
  BY <1>1, <1>2, SchemaFacts, SchemaStep DEF Schema!Operate

\* The invariant holds in every behaviour, fair or not.
LEMMA SchemaAlways ==
  ASSUME Schema!SchemaAssumption
  PROVE  Schema!Init /\ [][Schema!Next]_(Schema!vars) => []Schema!MigrationsAreSafe
<1>1. Schema!Init => SchemaInv
  BY InitSchema
<1>2. SchemaInv /\ [Schema!Next]_(Schema!vars) => SchemaInv'
  <2> SUFFICES ASSUME SchemaInv, [Schema!Next]_(Schema!vars) PROVE SchemaInv'
    OBVIOUS
  <2>1. ASSUME NEW p \in Processes, Schema!ReadVersion(p) PROVE SchemaInv'
    BY <2>1, ReadVersionSchema
  <2>2. ASSUME NEW p \in Processes, Schema!Begin(p) PROVE SchemaInv'
    BY <2>2, BeginSchema
  <2>3. ASSUME NEW p \in Processes, Schema!Commit(p) PROVE SchemaInv'
    BY <2>3, CommitSchema
  <2>4. ASSUME NEW p \in Processes, Schema!Fails(p) PROVE SchemaInv'
    BY <2>4, FailsSchema
  <2>5. ASSUME NEW p \in Processes, Schema!WriteProbe(p) PROVE SchemaInv'
    BY <2>5, WriteProbeSchema
  <2>6. ASSUME NEW p \in Processes, Schema!Operate(p) PROVE SchemaInv'
    BY <2>6, OperateSchema
  <2>7. CASE UNCHANGED Schema!vars
    BY <2>7 DEF Schema!vars, SchemaInv, Schema!MigrationsAreSafe, Schema!TypeOK, Schema!At
  <2>. QED
    BY <2>1, <2>2, <2>3, <2>4, <2>5, <2>6, <2>7 DEF Schema!Next, Schema!Step
<1>3. SchemaInv => Schema!MigrationsAreSafe
  BY DEF SchemaInv
<1>. QED
  BY <1>1, <1>2, <1>3, PTL

(* Whoever has opened the job store finds every part of its schema, no statement meets a  *)
(* part twice or not at all, and no migration resets the probe's row, through concurrent  *)
(* starts, failures and restarts (job_store.py), for every set of processes and releases. *)
THEOREM SchemaSafe ==
  ASSUME Schema!SchemaAssumption
  PROVE  Schema!Spec => []Schema!MigrationsAreSafe
  BY SchemaAlways, PTL DEF Schema!Spec

-----------------------------------------------------------------------------
(* CacheLeases (app/services/media/media_cache.py). A caller counts on the *)
(* lease until no later than the record of its own token lives; and a      *)
(* token belongs to one caller. So two callers that count would be two     *)
(* owners of one record.                                                   *)

CONSTANTS HoldTtl, HoldTicks, MaxTokens
VARIABLES lease, tokens, holder

Holds ==
  INSTANCE CacheLeases WITH
    Tasks <- Handlers, Ttl <- HoldTtl, MaxNow <- HoldTicks, task <- holder

\* A caller: its operation, its token, since when it waits and until when it counts.
HolderType == [pc : {"idle", "acquire", "renew", "release"}, owner : Nat \cup {None},
               asked : Nat, until : Nat]

\* What t may still count on is in the lease, unless it is over.
LeaseCovers(t) ==
    /\ holder[t].owner = None => holder[t].until = 0
    /\ holder[t].until > now => lease.owner = holder[t].owner /\ lease.until >= holder[t].until

\* Nobody has a token that was not made, and no two have the same.
HoldInv ==
    /\ Holds!TypeOK /\ holder \in [Handlers -> HolderType]
    /\ \A t \in Handlers : LeaseCovers(t)
    /\ \A t, u \in Handlers : holder[t].owner # None /\ holder[t].owner = holder[u].owner => t = u

\* What the invariant says, conjunct by conjunct.
LEMMA HoldFacts ==
  ASSUME Holds!HoldsAssumption, HoldInv
  PROVE  /\ None \notin Nat /\ HoldTtl \in Nat /\ HoldTicks \in Nat /\ MaxTokens \in Nat
         /\ now \in 0 .. HoldTicks /\ tokens \in 0 .. MaxTokens
         /\ lease \in [owner : (1 .. tokens) \cup {None}, until : 0 .. HoldTicks + HoldTtl]
         /\ holder \in [Handlers -> HolderType]
         /\ \A t \in Handlers :
               /\ holder[t].owner \in (1 .. tokens) \cup {None}
               /\ holder[t].asked <= now /\ holder[t].until <= now + HoldTtl
               /\ LeaseCovers(t)
         /\ \A t, u \in Handlers : holder[t].owner # None /\ holder[t].owner = holder[u].owner => t = u
  BY DEF Holds!HoldsAssumption, HoldInv, Holds!TypeOK

\* What a step must leave: a lease, and of its caller t a record that it covers;
\* the others keep theirs, and their lease while it lasts.
LEMMA HoldStep ==
  ASSUME Holds!HoldsAssumption, HoldInv, NEW t \in Handlers, NEW r,
         holder' = [holder EXCEPT ![t] = r], now' = now, redis' = redis,
         tokens' \in tokens .. MaxTokens,
         lease' \in [owner : (1 .. tokens') \cup {None}, until : 0 .. HoldTicks + HoldTtl],
         r \in HolderType, r.owner \in (1 .. tokens') \cup {None},
         r.asked <= now, r.until <= now + HoldTtl,
         r.owner = None => r.until = 0,
         r.until > now => lease'.owner = r.owner /\ lease'.until >= r.until,
         r.owner \in {None, holder[t].owner} \/ r.owner = tokens + 1,
         \A u \in Handlers \ {t} : holder[u].until > now => lease' = lease
  PROVE  HoldInv'
<1>1. /\ holder' \in [Handlers -> HolderType] /\ holder'[t] = r
      /\ \A u \in Handlers \ {t} : holder'[u] = holder[u]
  BY HoldFacts
<1>2. \A u \in Handlers :
         /\ holder'[u].owner \in (1 .. tokens') \cup {None}
         /\ holder'[u].asked <= now' /\ holder'[u].until <= now' + HoldTtl
  <2> SUFFICES ASSUME NEW u \in Handlers \ {t}
               PROVE  /\ holder'[u].owner \in (1 .. tokens') \cup {None}
                      /\ holder'[u].asked <= now' /\ holder'[u].until <= now' + HoldTtl
    BY <1>1
  <2>. QED
    BY <1>1, HoldFacts
<1>3. Holds!TypeOK'
  BY <1>1, <1>2, HoldFacts DEF Holds!TypeOK, HoldInv, HolderType
<1>4. \A u \in Handlers : LeaseCovers(u)'
  <2> SUFFICES ASSUME NEW u \in Handlers \ {t} PROVE LeaseCovers(u)'
    BY <1>1 DEF LeaseCovers
  <2>. QED
    BY <1>1, HoldFacts DEF LeaseCovers
<1>5. ASSUME NEW u \in Handlers, NEW v \in Handlers, holder'[u].owner # None, holder'[u].owner = holder'[v].owner
      PROVE  u = v
  BY <1>1, <1>5, HoldFacts
<1>. QED
  BY <1>1, <1>3, <1>4, <1>5 DEF HoldInv

\* A caller that asks gets a token nobody has, and counts on nothing yet.
LEMMA AskHold ==
  ASSUME Holds!HoldsAssumption, HoldInv, NEW t \in Handlers, NEW op \in {"acquire", "renew", "release"},
         Holds!Ask(t, op)
  PROVE  HoldInv'
<1> DEFINE r == [holder[t] EXCEPT !.pc = op, !.asked = now]
<1>1. holder' = [holder EXCEPT ![t] = r] /\ holder[t] \in HolderType
  BY HoldFacts DEF Holds!Ask, HolderType
<1>2. r.owner = holder[t].owner /\ r.asked = now /\ r.until = holder[t].until
  BY <1>1 DEF HolderType
<1>3. r \in HolderType
  <2>1. now \in Nat /\ op \in {"idle", "acquire", "renew", "release"}
    BY HoldFacts
  <2>. QED
    BY <1>1, <2>1 DEF HolderType
<1>4. /\ now' = now /\ redis' = redis /\ tokens' = tokens /\ lease' = lease
      /\ tokens' \in tokens .. MaxTokens
      /\ lease' \in [owner : (1 .. tokens') \cup {None}, until : 0 .. HoldTicks + HoldTtl]
  BY HoldFacts DEF Holds!Ask
<1>5. /\ holder[t].owner \in (1 .. tokens) \cup {None}
      /\ holder[t].until <= now + HoldTtl /\ now <= now
      /\ holder[t].owner = None => holder[t].until = 0
      /\ holder[t].until > now => lease.owner = holder[t].owner /\ lease.until >= holder[t].until
  BY HoldFacts DEF LeaseCovers
<1> HIDE DEF r
<1>. QED
  BY <1>1, <1>2, <1>3, <1>4, <1>5, HoldStep

\* An operation ends: its caller has no lease, or counts on one as long as
\* Redis may keep it.
LEMMA ToldHold ==
  ASSUME Holds!HoldsAssumption, HoldInv, NEW t \in Handlers, NEW who, NEW until \in Nat,
         Holds!Told(t, who, until), now' = now, redis' = redis,
         tokens' \in tokens .. MaxTokens,
         lease' \in [owner : (1 .. tokens') \cup {None}, until : 0 .. HoldTicks + HoldTtl],
         who \in (1 .. tokens') \cup {None},
         until <= now + HoldTtl,
         who = None => until = 0,
         until > now => lease'.owner = who /\ lease'.until >= until,
         who \in {None, holder[t].owner} \/ who = tokens + 1,
         \A u \in Handlers \ {t} : holder[u].until > now => lease' = lease
  PROVE  HoldInv'
<1> DEFINE r == [pc |-> "idle", owner |-> who, asked |-> 0, until |-> until]
<1>1. holder' = [holder EXCEPT ![t] = r]
  BY DEF Holds!Told
<1>2. r \in HolderType /\ r.owner = who /\ r.asked = 0 /\ r.until = until
  BY HoldFacts DEF HolderType
<1>3. 0 <= now
  BY HoldFacts
<1> HIDE DEF r
<1>. QED
  BY <1>1, <1>2, <1>3, HoldStep

\* A lease that is not alive is nobody's.
LEMMA NobodyCounts ==
  ASSUME Holds!HoldsAssumption, HoldInv, ~Holds!Alive, NEW u \in Handlers
  PROVE  ~(holder[u].until > now)
<1>1. lease.until \in Nat /\ holder[u].until \in Nat /\ now \in Nat
  BY HoldFacts DEF HolderType
<1>. QED
  BY <1>1, HoldFacts DEF Holds!Alive, LeaseCovers

\* The lease that is t's own is no one else's.
LEMMA OnlyOwnerCounts ==
  ASSUME Holds!HoldsAssumption, HoldInv, NEW t \in Handlers, Holds!Owned(t), NEW u \in Handlers \ {t}
  PROVE  ~(holder[u].until > now)
  BY HoldFacts DEF Holds!Owned, Holds!Alive, LeaseCovers

\* SET NX gives the lease to a caller while nobody else counts on it.
LEMMA AcquireHold ==
  ASSUME Holds!HoldsAssumption, HoldInv, NEW t \in Handlers, Holds!Acquire(t)
  PROVE  HoldInv'
<1>1. tokens' = tokens + 1 /\ tokens' \in tokens .. MaxTokens /\ now' = now /\ redis' = redis
  BY HoldFacts DEF Holds!Acquire
<1>2. CASE Holds!Alive
  BY <1>1, <1>2, ToldHold, HoldFacts DEF Holds!Acquire
<1>3. CASE ~Holds!Alive
  <2>1. /\ lease' = [owner |-> tokens + 1, until |-> now + HoldTtl]
        /\ Holds!Told(t, tokens + 1, Holds!AskedAt(t) + HoldTtl)
    BY <1>3 DEF Holds!Acquire
  <2>2. Holds!AskedAt(t) \in 0 .. now
    BY HoldFacts DEF Holds!AskedAt, HolderType
  <2>. QED
    BY <1>1, <1>3, <2>1, <2>2, NobodyCounts, ToldHold, HoldFacts
<1>. QED
  BY <1>2, <1>3

\* A renewal by its owner extends the lease before the caller counts on it.
LEMMA RenewHold ==
  ASSUME Holds!HoldsAssumption, HoldInv, NEW t \in Handlers, Holds!Renew(t)
  PROVE  HoldInv'
<1>1. tokens' = tokens /\ tokens' \in tokens .. MaxTokens /\ now' = now /\ redis' = redis
  BY HoldFacts DEF Holds!Renew
<1>2. CASE ~Holds!Owned(t)
  BY <1>1, <1>2, ToldHold, HoldFacts DEF Holds!Renew
<1>3. CASE Holds!Owned(t)
  <2>1. /\ lease' = [lease EXCEPT !.until = now + HoldTtl]
        /\ Holds!Told(t, holder[t].owner, Holds!AskedAt(t) + HoldTtl)
    BY <1>3 DEF Holds!Renew
  <2>2. Holds!AskedAt(t) \in 0 .. now
    BY HoldFacts DEF Holds!AskedAt, HolderType
  <2>3. lease.owner = holder[t].owner /\ lease.owner # None
    BY <1>3 DEF Holds!Owned, Holds!Alive
  <2>4. lease' \in [owner : (1 .. tokens) \cup {None}, until : 0 .. HoldTicks + HoldTtl]
        /\ lease'.owner = holder[t].owner /\ lease'.until = now + HoldTtl
    BY <2>1, <2>3, HoldFacts
  <2>. QED
    BY <1>1, <1>3, <2>1, <2>2, <2>3, <2>4, OnlyOwnerCounts, ToldHold, HoldFacts
<1>. QED
  BY <1>2, <1>3

\* A release deletes the caller's own record only.
LEMMA ReleaseHold ==
  ASSUME Holds!HoldsAssumption, HoldInv, NEW t \in Handlers, Holds!Release(t)
  PROVE  HoldInv'
<1>1. tokens' = tokens /\ tokens' \in tokens .. MaxTokens /\ now' = now /\ redis' = redis
      /\ Holds!Told(t, None, 0)
  BY HoldFacts DEF Holds!Release
<1>2. CASE ~Holds!Owned(t)
  BY <1>1, <1>2, ToldHold, HoldFacts DEF Holds!Release
<1>3. CASE Holds!Owned(t)
  BY <1>1, <1>3, OnlyOwnerCounts, ToldHold, HoldFacts DEF Holds!Release, Holds!Free
<1>. QED
  BY <1>2, <1>3

\* A call that Redis does not answer may have happened; the caller counts on nothing new.
LEMMA FailsHold ==
  ASSUME Holds!HoldsAssumption, HoldInv, NEW t \in Handlers, Holds!Fails(t)
  PROVE  HoldInv'
<1>1. /\ now' = now /\ redis' = redis
      /\ holder[t].owner \in (1 .. tokens) \cup {None}
      /\ holder[t].until \in Nat /\ holder[t].until <= now + HoldTtl
      /\ holder[t].owner = None => holder[t].until = 0
      /\ holder[t].until > now => lease.owner = holder[t].owner /\ lease.until >= holder[t].until
  BY HoldFacts DEF Holds!Fails, HolderType, LeaseCovers
<1>2. CASE holder[t].pc = "acquire" /\ ~Holds!Alive /\ tokens < MaxTokens
           /\ tokens' = tokens + 1 /\ lease' = [owner |-> tokens + 1, until |-> now + HoldTtl]
  <2>1. Holds!Told(t, holder[t].owner, holder[t].until)
    BY <1>2 DEF Holds!Fails
  <2>2. tokens' \in tokens .. MaxTokens
        /\ lease' \in [owner : (1 .. tokens') \cup {None}, until : 0 .. HoldTicks + HoldTtl]
    BY <1>2, HoldFacts
  <2>. QED
    BY <1>1, <1>2, <2>1, <2>2, NobodyCounts, ToldHold, HoldFacts
<1>3. CASE holder[t].pc = "renew" /\ Holds!Owned(t)
           /\ lease' = [lease EXCEPT !.until = now + HoldTtl] /\ UNCHANGED tokens
  <2>1. Holds!Told(t, holder[t].owner, holder[t].until)
    BY <1>3 DEF Holds!Fails
  <2>2. lease' \in [owner : (1 .. tokens) \cup {None}, until : 0 .. HoldTicks + HoldTtl]
        /\ lease'.owner = holder[t].owner /\ lease'.until = now + HoldTtl
    BY <1>3, HoldFacts DEF Holds!Owned
  <2>. QED
    BY <1>1, <1>3, <2>1, <2>2, OnlyOwnerCounts, ToldHold, HoldFacts
<1>4. CASE holder[t].pc = "release" /\ Holds!Owned(t) /\ lease' = Holds!Free /\ UNCHANGED tokens
  BY <1>1, <1>4, OnlyOwnerCounts, ToldHold, HoldFacts DEF Holds!Fails, Holds!Free
<1>5. CASE UNCHANGED <<tokens, lease>>
  <2>1. CASE holder[t].pc = "release"
    BY <1>1, <1>5, <2>1, ToldHold, HoldFacts DEF Holds!Fails
  <2>2. CASE holder[t].pc # "release"
    BY <1>1, <1>5, <2>2, ToldHold, HoldFacts DEF Holds!Fails
  <2>. QED
    BY <2>1, <2>2
<1>. QED
  BY <1>2, <1>3, <1>4, <1>5 DEF Holds!Fails

\* The clock moves on: a lease runs out no sooner than its caller stops counting on it.
LEMMA TickHold == ASSUME Holds!HoldsAssumption, HoldInv, Holds!Tick PROVE HoldInv'
<1>1. now' = now + 1 /\ now' \in 0 .. HoldTicks /\ UNCHANGED <<redis, lease, tokens, holder>>
  BY HoldFacts DEF Holds!Tick
<1>2. ASSUME NEW t \in Handlers
      PROVE  /\ holder[t].asked <= now' /\ holder[t].until <= now' + HoldTtl
             /\ LeaseCovers(t)'
  <2>1. holder[t].until \in Nat /\ holder[t].asked \in Nat
    BY HoldFacts DEF HolderType
  <2>. QED
    BY <1>1, <2>1, HoldFacts DEF LeaseCovers
<1>3. Holds!TypeOK'
  BY <1>1, <1>2, HoldFacts DEF HoldInv, Holds!TypeOK
<1>. QED
  BY <1>1, <1>2, <1>3, HoldFacts DEF HoldInv

(* Leases of the media cache exclude each other, in memory and in a Redis whose answers  *)
(* are late or lost: no two callers count on one key's lease at a time (media_cache.py), *)
(* for every number of callers, tokens, lease times and ticks.                           *)
THEOREM HoldsSafe ==
  ASSUME Holds!HoldsAssumption
  PROVE  Holds!Spec => []Holds!LeasesAreExclusive
<1>1. Holds!Init => HoldInv
  <2> SUFFICES ASSUME Holds!Init PROVE HoldInv
    OBVIOUS
  <2>1. \A t \in Handlers : holder[t] = [pc |-> "idle", owner |-> None, asked |-> 0, until |-> 0]
    BY DEF Holds!Init
  <2>2. holder \in [Handlers -> HolderType]
    BY DEF Holds!Init, HolderType
  <2>3. Holds!TypeOK
    BY <2>1 DEF Holds!Init, Holds!TypeOK, Holds!Free, Holds!HoldsAssumption
  <2>. QED
    BY <2>1, <2>2, <2>3 DEF Holds!Init, HoldInv, LeaseCovers
<1>2. HoldInv /\ [Holds!Next]_(Holds!vars) => HoldInv'
  <2> SUFFICES ASSUME HoldInv, [Holds!Next]_(Holds!vars) PROVE HoldInv'
    OBVIOUS
  <2>1. ASSUME NEW t \in Handlers, NEW op \in {"acquire", "renew", "release"}, Holds!Ask(t, op)
        PROVE  HoldInv'
    BY <2>1, AskHold
  <2>2. ASSUME NEW t \in Handlers, Holds!Acquire(t) PROVE HoldInv'
    BY <2>2, AcquireHold
  <2>3. ASSUME NEW t \in Handlers, Holds!Renew(t) PROVE HoldInv'
    BY <2>3, RenewHold
  <2>4. ASSUME NEW t \in Handlers, Holds!Release(t) PROVE HoldInv'
    BY <2>4, ReleaseHold
  <2>5. ASSUME NEW t \in Handlers, Holds!Fails(t) PROVE HoldInv'
    BY <2>5, FailsHold
  <2>6. CASE Holds!Tick
    BY <2>6, TickHold
  <2>7. CASE UNCHANGED Holds!vars
    BY <2>7 DEF Holds!vars, HoldInv, Holds!TypeOK, LeaseCovers
  <2>. QED
    BY <2>1, <2>2, <2>3, <2>4, <2>5, <2>6, <2>7 DEF Holds!Next, Holds!Step
<1>3. HoldInv => Holds!LeasesAreExclusive
  <2> SUFFICES ASSUME HoldInv PROVE Holds!LeasesAreExclusive
    OBVIOUS
  <2>1. ASSUME NEW t \in Handlers, Holds!Counts(t)
        PROVE  Holds!Owned(t) /\ holder[t].owner # None
    <3>1. holder[t].until \in Nat /\ lease.until \in Nat /\ now \in Nat
      BY HoldFacts DEF HolderType
    <3>. QED
      BY <2>1, <3>1, HoldFacts DEF Holds!Counts, LeaseCovers, Holds!Owned, Holds!Alive
  <2>2. \A t, u \in Handlers : Holds!Counts(t) /\ Holds!Counts(u) => t = u
    BY <2>1 DEF Holds!Owned, HoldInv
  <2>. QED
    BY <2>1, <2>2 DEF Holds!LeasesAreExclusive, HoldInv
<1>. QED
  BY <1>1, <1>2, <1>3, PTL DEF Holds!Spec

-----------------------------------------------------------------------------
(* MediaCache (app/services/media/media_cache.py). Records are numbered by *)
(* their writes. A number is held by one key's record, or by the write     *)
(* under way, and leaves with an eviction for good: so what a call has in  *)
(* hand was not evicted before the call began.                             *)

CONSTANTS Calls, Ttl, MaxEntries, CacheTicks, MaxPuts
VARIABLES rec, puts, gone, call

Cache == INSTANCE MediaCache WITH MaxNow <- CacheTicks

\* A call: its operation, its key, the record it has, what was evicted since, its answer.
CallType == [pc : {"idle", "touch", "answer", "delete", "evict", "set"}, key : Cache!Keys,
             got : Cache!Records \cup {None}, since : SUBSET Int,
             out : [n : Int, dies : Int, at : Int] \cup {None}]

\* A number is held once: by the record of a key or by a write under way.
NumbersFine ==
    /\ \A k \in Cache!Keys : rec[k] # None => rec[k].n \in 1 .. puts /\ rec[k].n \notin gone
    /\ \A k, j \in Cache!Keys : k # j /\ rec[k] # None /\ rec[j] # None => rec[k].n # rec[j].n
    /\ \A c \in Calls : call[c].pc = "set" =>
          /\ call[c].got.n \in 1 .. puts /\ call[c].got.n \notin gone
          /\ \A k \in Cache!Keys : rec[k] # None => rec[k].n # call[c].got.n
    /\ \A c, d \in Calls : c # d /\ call[c].pc = "set" /\ call[d].pc = "set" =>
          call[c].got.n # call[d].got.n

\* A call under way has a record that nobody had evicted when it began.
CallFine(c) ==
    /\ call[c].pc \in {"touch", "answer", "set"} => call[c].got \in Cache!Records
    /\ call[c].pc \in {"touch", "answer"} => call[c].got.n \notin call[c].since
    /\ call[c].pc # "idle" => redis /\ call[c].out = None
    /\ call[c].out # None => call[c].out.n \notin call[c].since
    /\ call[c].out # None /\ call[c].key = "signed-url" => call[c].out.dies > call[c].out.at
    /\ call[c].since \subseteq gone

\* The keys with a record.
Kept == {k \in Cache!Keys : rec[k] # None}
\* In memory: the bound, and signed URLs that end before they die.
MemoryFine ==
    ~redis => /\ Cardinality(Kept) <= MaxEntries
              /\ rec["signed-url"] # None =>
                    rec["signed-url"].until < rec["signed-url"].dies + Cache!Second

\* The invariant.
CacheInv ==
    /\ redis \in BOOLEAN /\ now \in 0 .. CacheTicks /\ puts \in 0 .. MaxPuts
    /\ rec \in [Cache!Keys -> Cache!Records \cup {None}] /\ gone \subseteq 1 .. puts
    /\ call \in [Calls -> CallType]
    /\ NumbersFine /\ MemoryFine
    /\ \A c \in Calls : CallFine(c)

(* The cardinality MediaCache counts with is that of the library.            *)
LEMMA CacheLibrary == \A S : Cache!Cardinality(S) = Cardinality(S)
<1>1. \A S : Cache!IsFiniteSet(S) <=> IsFiniteSet(S)
  BY DEF Cache!IsFiniteSet, IsFiniteSet
<1>. QED
  BY <1>1 DEF Cache!Cardinality, Cardinality

\* What the invariant says, conjunct by conjunct.
LEMMA CacheFacts ==
  ASSUME Cache!CacheAssumption, CacheInv
  PROVE  /\ MaxEntries \in Nat /\ CacheTicks \in Nat /\ MaxPuts \in Nat
         /\ \A k \in Cache!Keys : Ttl[k] \in Nat
         /\ None \notin Cache!Records /\ None \notin [n : Int, dies : Int, at : Int]
         /\ now \in 0 .. CacheTicks /\ now \in Int /\ puts \in 0 .. MaxPuts
         /\ rec \in [Cache!Keys -> Cache!Records \cup {None}] /\ gone \subseteq 1 .. puts /\ gone \subseteq Int
         /\ call \in [Calls -> CallType]
         /\ NumbersFine /\ MemoryFine
         /\ \A c \in Calls : CallFine(c)
  BY DEF Cache!CacheAssumption, CacheInv, Cache!Records

\* There are finitely many keys, and fewer in a smaller set.
LEMMA KeysFinite ==
  ASSUME NEW S, NEW T, S \subseteq T, T \subseteq Cache!Keys
  PROVE  /\ IsFiniteSet(S) /\ IsFiniteSet(T) /\ Cardinality(S) \in Nat /\ Cardinality(T) \in Nat
         /\ Cardinality(S) <= Cardinality(T)
<1>1. IsFiniteSet({"metadata"} \cup {"signed-url"})
  BY FS_Singleton, FS_AddElement
<1>2. IsFiniteSet(({"metadata"} \cup {"signed-url"}) \cup {"file-id"})
  BY <1>1, FS_AddElement
<1>3. Cache!Keys = ({"metadata"} \cup {"signed-url"}) \cup {"file-id"}
  BY DEF Cache!Keys
<1>4. IsFiniteSet(T) /\ IsFiniteSet(S)
  BY <1>2, <1>3, FS_Subset
<1>. QED
  BY <1>4, FS_CardinalityType, FS_Subset

\* What a step of c must leave.
LEMMA OwnCallStep ==
  ASSUME Cache!CacheAssumption, CacheInv, NEW c \in Calls, NEW q \in CallType,
         call' = [call EXCEPT ![c] = q], redis' = redis, now' = now, puts' \in puts .. MaxPuts,
         rec' \in [Cache!Keys -> Cache!Records \cup {None}], gone \subseteq gone', gone' \subseteq 1 .. puts',
         NumbersFine', MemoryFine',
         q.pc \in {"touch", "answer", "set"} => q.got \in Cache!Records,
         q.pc \in {"touch", "answer"} => q.got.n \notin q.since,
         q.pc # "idle" => redis /\ q.out = None,
         q.out # None => q.out.n \notin q.since,
         q.out # None /\ q.key = "signed-url" => q.out.dies > q.out.at,
         q.since \subseteq gone'
  PROVE  CacheInv'
<1>1. call' \in [Calls -> CallType] /\ call'[c] = q /\ \A d \in Calls \ {c} : call'[d] = call[d]
  BY CacheFacts
<1>2. CallFine(c)'
  BY <1>1 DEF CallFine
<1>3. ASSUME NEW d \in Calls \ {c} PROVE CallFine(d)'
  <2>1. CallFine(d) /\ call'[d] = call[d]
    BY <1>1, CacheFacts
  <2>. QED
    BY <2>1 DEF CallFine
<1>4. puts' \in 0 .. MaxPuts /\ redis \in BOOLEAN /\ now \in 0 .. CacheTicks
  BY CacheFacts DEF CacheInv
<1>. QED
  BY <1>1, <1>2, <1>3, <1>4 DEF CacheInv

\* No number is made, moved or thrown away: records only go.
LEMMA NumbersKept ==
  ASSUME Cache!CacheAssumption, CacheInv, gone' = gone, puts' = puts,
         \A k \in Cache!Keys : rec'[k] # None => rec[k] # None /\ rec'[k].n = rec[k].n,
         \A d \in Calls : call'[d].pc = "set" => call[d].pc = "set" /\ call'[d].got = call[d].got
  PROVE  NumbersFine'
  BY CacheFacts DEF NumbersFine

\* Memory keeps its bound when no key gains a record.
LEMMA MemoryKept ==
  ASSUME Cache!CacheAssumption, CacheInv, redis' = redis,
         \A k \in Cache!Keys : rec'[k] # None => rec[k] # None,
         ~redis => rec'["signed-url"] \in {None, rec["signed-url"]}
  PROVE  MemoryFine'
<1>1. Kept' \subseteq Kept /\ Kept \subseteq Cache!Keys
  BY DEF Kept
<1>2. CASE ~redis
  <2>1. Cardinality(Kept') <= Cardinality(Kept) /\ Cardinality(Kept') \in Nat /\ Cardinality(Kept) \in Nat
    BY <1>1, KeysFinite
  <2>2. Cardinality(Kept) <= MaxEntries /\ MaxEntries \in Nat
    BY <1>2, CacheFacts DEF MemoryFine
  <2>3. Cardinality(Kept') <= MaxEntries
    BY <2>1, <2>2
  <2>. QED
    BY <1>2, <2>3, CacheFacts DEF MemoryFine
<1>3. CASE redis
  BY <1>3 DEF MemoryFine
<1>. QED
  BY <1>2, <1>3

\* In Redis the bound of memory says nothing.
LEMMA RedisMemory ==
  ASSUME redis, redis' = redis PROVE MemoryFine'
  BY DEF MemoryFine

\* A call that does nothing has a call's type.
LEMMA IdleType == ASSUME Cache!CacheAssumption PROVE Cache!Idle \in CallType
  BY DEF Cache!Idle, CallType, Cache!Keys

\* The call of c ends without an answer.
LEMMA NothingAnswered ==
  ASSUME Cache!CacheAssumption, CacheInv, NEW c \in Calls, call' = [call EXCEPT ![c] = Cache!Idle],
         redis' = redis, now' = now, puts' \in puts .. MaxPuts,
         rec' \in [Cache!Keys -> Cache!Records \cup {None}], gone \subseteq gone', gone' \subseteq 1 .. puts',
         NumbersFine', MemoryFine'
  PROVE  CacheInv'
<1>1. Cache!Idle.pc = "idle" /\ Cache!Idle.out = None /\ Cache!Idle.since = {}
  BY DEF Cache!Idle
<1>. QED
  BY <1>1, IdleType, OwnCallStep

\* The call of c ends with the record r, read after since.
LEMMA RecordAnswered ==
  ASSUME Cache!CacheAssumption, CacheInv, NEW c \in Calls, NEW k \in Cache!Keys, NEW r \in Cache!Records,
         NEW since, since \subseteq gone, r.n \notin since, ~Cache!Bad(k, r),
         call' = [call EXCEPT ![c] = [Cache!Idle EXCEPT !.key = k, !.since = since,
                                          !.out = [n |-> r.n, dies |-> r.dies, at |-> now]]],
         redis' = redis, now' = now, puts' = puts, gone' = gone,
         rec' \in [Cache!Keys -> Cache!Records \cup {None}], NumbersFine', MemoryFine'
  PROVE  CacheInv'
<1> DEFINE o == [n |-> r.n, dies |-> r.dies, at |-> now]
           q == [Cache!Idle EXCEPT !.key = k, !.since = since, !.out = o]
<1>1. o \in [n : Int, dies : Int, at : Int] /\ o.n = r.n /\ o.dies = r.dies /\ o.at = now
  BY CacheFacts DEF Cache!Records
<1>2. k = "signed-url" => r.dies > now
  BY CacheFacts DEF Cache!Bad, Cache!Records
<1>3. since \in SUBSET Int /\ puts \in puts .. MaxPuts
  BY CacheFacts
<1> HIDE DEF o
<1>4. /\ q \in CallType /\ q.pc = "idle" /\ q.key = k /\ q.since = since /\ q.out = o
  BY <1>1, <1>3 DEF Cache!Idle, CallType, Cache!Keys
<1>5. call' = [call EXCEPT ![c] = q]
  BY DEF o
<1> HIDE DEF q
<1>. QED
  BY <1>1, <1>2, <1>3, <1>4, <1>5, OwnCallStep, CacheFacts

\* Redis is asked: by a get with the record it will answer, by a write, or to delete.
LEMMA BegunCall ==
  ASSUME Cache!CacheAssumption, CacheInv, NEW c \in Calls, NEW k \in Cache!Keys, redis,
         NEW pc \in {"touch", "answer", "delete", "evict", "set"}, NEW got \in Cache!Records \cup {None},
         Cache!Begin(c, k, pc, got),
         pc \in {"touch", "answer", "set"} => got \in Cache!Records,
         pc \in {"touch", "answer"} => got.n \notin gone,
         redis' = redis, now' = now, puts' \in puts .. MaxPuts, gone' = gone, rec' = rec, NumbersFine'
  PROVE  CacheInv'
<1> DEFINE q == [pc |-> pc, key |-> k, got |-> got, since |-> gone, out |-> None]
<1>1. q \in CallType /\ q.pc = pc /\ q.got = got /\ q.since = gone /\ q.out = None
  BY CacheFacts DEF CallType
<1>2. call' = [call EXCEPT ![c] = q]
  BY DEF Cache!Begin
<1>3. gone' \subseteq 1 .. puts' /\ rec' \in [Cache!Keys -> Cache!Records \cup {None}]
  BY CacheFacts
<1> HIDE DEF q
<1>. QED
  BY <1>1, <1>2, <1>3, RedisMemory, OwnCallStep

\* A record made now, of which nobody has the number.
LEMMA FreshNumber ==
  ASSUME Cache!CacheAssumption, CacheInv, puts < MaxPuts
  PROVE  /\ puts + 1 \in 1 .. MaxPuts /\ puts + 1 \in puts .. MaxPuts
         /\ 1 .. puts \subseteq 1 .. (puts + 1)
         /\ puts + 1 \notin gone
         /\ \A k \in Cache!Keys : rec[k] # None => rec[k].n # puts + 1
         /\ \A c \in Calls : call[c].pc = "set" => call[c].got.n # puts + 1
<1>1. puts \in Nat /\ MaxPuts \in Nat
  BY CacheFacts
<1>2. puts + 1 \notin 1 .. puts
  BY <1>1
<1>. QED
  BY <1>1, <1>2, CacheFacts DEF NumbersFine

\* A record that is touched keeps its number, and the others are left alone.
LEMMA TouchedFacts ==
  ASSUME Cache!CacheAssumption, CacheInv, NEW k \in Cache!Keys, rec[k] # None, rec' = Cache!Touched(k)
  PROVE  /\ rec' \in [Cache!Keys -> Cache!Records \cup {None}] /\ \A j \in Cache!Keys \ {k} : rec'[j] = rec[j]
         /\ rec'[k] # None /\ rec'[k].n = rec[k].n
<1>1. rec[k] \in Cache!Records /\ now + Cache!Second * Ttl[k] \in Int
  BY CacheFacts DEF Cache!Second
<1>2. /\ rec' = [rec EXCEPT ![k] = [rec[k] EXCEPT !.until = now + Cache!Second * Ttl[k]]]
      /\ rec'[k] = [rec[k] EXCEPT !.until = now + Cache!Second * Ttl[k]]
      /\ \A j \in Cache!Keys \ {k} : rec'[j] = rec[j]
  BY CacheFacts DEF Cache!Touched
<1>3. [rec[k] EXCEPT !.until = now + Cache!Second * Ttl[k]] \in Cache!Records /\ rec'[k].n = rec[k].n
  BY <1>1, <1>2 DEF Cache!Records
<1>. QED
  BY <1>1, <1>2, <1>3, CacheFacts

\* A get from memory answers a live record or nothing (MemoryMediaCache.get).
LEMMA GetMemoryCache ==
  ASSUME Cache!CacheAssumption, CacheInv, NEW c \in Calls, NEW k \in Cache!Keys, Cache!GetMemory(c, k) PROVE CacheInv'
<1> DEFINE ok == Cache!Present(k) /\ ~Cache!Bad(k, rec[k])
<1>1. /\ ~redis /\ call[c].pc = "idle" /\ redis' = redis /\ now' = now /\ puts' = puts /\ gone' = gone
      /\ puts' \in puts .. MaxPuts
  BY CacheFacts DEF Cache!GetMemory, Cache!At
<1>2. CASE ~ok
  <2>1. call' = [call EXCEPT ![c] = Cache!Idle] /\ rec' = [rec EXCEPT ![k] = None]
    BY <1>2 DEF Cache!GetMemory
  <2>2. /\ rec' \in [Cache!Keys -> Cache!Records \cup {None}] /\ \A j \in Cache!Keys : rec'[j] \in {None, rec[j]}
    BY <2>1, CacheFacts
  <2>3. \A d \in Calls : call'[d].pc = "set" => call[d].pc = "set" /\ call'[d].got = call[d].got
    BY <2>1, CacheFacts DEF Cache!Idle
  <2>4. NumbersFine' /\ MemoryFine'
    BY <1>1, <2>2, <2>3, NumbersKept, MemoryKept DEF Cache!Keys
  <2>. QED
    BY <1>1, <2>1, <2>2, <2>4, NothingAnswered, CacheFacts
<1>3. CASE ok
  <2>1. /\ call' = [call EXCEPT ![c] = [Cache!Idle EXCEPT !.key = k, !.since = gone,
                              !.out = [n |-> rec[k].n, dies |-> rec[k].dies, at |-> now]]]
        /\ rec' = IF k = "file-id" THEN Cache!Touched(k) ELSE rec
    BY <1>3 DEF Cache!GetMemory
  <2>2. rec[k] # None /\ rec[k] \in Cache!Records /\ rec[k].n \notin gone /\ ~Cache!Bad(k, rec[k])
    BY <1>3, CacheFacts DEF Cache!Present, NumbersFine
  <2>3. /\ rec' \in [Cache!Keys -> Cache!Records \cup {None}]
        /\ \A j \in Cache!Keys : (rec'[j] # None => rec[j] # None /\ rec'[j].n = rec[j].n)
        /\ rec'["signed-url"] = rec["signed-url"]
    <3>1. CASE k = "file-id"
      BY <2>1, <2>2, <3>1, TouchedFacts, CacheFacts DEF Cache!Keys
    <3>2. CASE k # "file-id"
      BY <2>1, <3>2, CacheFacts
    <3>. QED
      BY <3>1, <3>2
  <2>4. \A d \in Calls : call'[d].pc = "set" => call[d].pc = "set" /\ call'[d].got = call[d].got
    BY <2>1, CacheFacts DEF Cache!Idle
  <2>5. NumbersFine' /\ MemoryFine'
    BY <1>1, <2>3, <2>4, NumbersKept, MemoryKept
  <2>6. gone \subseteq gone
    OBVIOUS
  <2>. QED
    BY <1>1, <2>1, <2>2, <2>3, <2>5, <2>6, RecordAnswered
<1>. QED
  BY <1>2, <1>3

\* A get from Redis fetches the record and goes on.
LEMMA GetCache ==
  ASSUME Cache!CacheAssumption, CacheInv, NEW c \in Calls, NEW k \in Cache!Keys, Cache!Get(c, k) PROVE CacheInv'
<1>1. /\ redis /\ redis' = redis /\ now' = now /\ puts' = puts /\ gone' = gone /\ rec' = rec
      /\ puts' \in puts .. MaxPuts
  BY CacheFacts DEF Cache!Get
<1>2. CASE Cache!Present(k)
  <2> DEFINE pc == IF k = "file-id" THEN "touch" ELSE "answer"
  <2>1. Cache!Begin(c, k, pc, rec[k]) /\ pc \in {"touch", "answer"}
    BY <1>2 DEF Cache!Get
  <2>2. rec[k] # None /\ rec[k] \in Cache!Records /\ rec[k].n \notin gone
    BY <1>2, CacheFacts DEF Cache!Present, NumbersFine
  <2> HIDE DEF pc
  <2>3. \A d \in Calls : call'[d].pc = "set" => call[d].pc = "set" /\ call'[d].got = call[d].got
    BY <2>1, CacheFacts DEF Cache!Begin
  <2>4. NumbersFine'
    BY <1>1, <2>3, NumbersKept
  <2>. QED
    BY <1>1, <2>1, <2>2, <2>4, BegunCall
<1>3. CASE ~Cache!Present(k)
  <2>1. call' = [call EXCEPT ![c] = Cache!Idle]
    BY <1>3 DEF Cache!Get
  <2>2. \A d \in Calls : call'[d].pc = "set" => call[d].pc = "set" /\ call'[d].got = call[d].got
    BY <2>1, CacheFacts DEF Cache!Idle
  <2>3. NumbersFine' /\ MemoryFine'
    BY <1>1, <2>2, NumbersKept, RedisMemory
  <2>. QED
    BY <1>1, <2>1, <2>3, NothingAnswered, CacheFacts
<1>. QED
  BY <1>2, <1>3

\* What a call asks of its pc: Redis's operations are under way in Redis only.
LEMMA CallFacts ==
  ASSUME Cache!CacheAssumption, CacheInv, NEW c \in Calls
  PROVE  /\ call[c] \in CallType /\ Cache!Key(c) \in Cache!Keys /\ CallFine(c)
         /\ call[c].pc # "idle" => redis
         /\ Cache!Answered(c, None) = [call EXCEPT ![c] = Cache!Idle]
  BY CacheFacts DEF CallFine, CallType, Cache!Key, Cache!Answered

\* The record in hand is touched, if it is still there.
LEMMA TouchCache ==
  ASSUME Cache!CacheAssumption, CacheInv, NEW c \in Calls, Cache!Touch(c)
  PROVE  CacheInv'
<1>1. /\ redis /\ redis' = redis /\ now' = now /\ puts' = puts /\ gone' = gone
      /\ puts' \in puts .. MaxPuts /\ call[c].pc = "touch"
  BY CallFacts, CacheFacts DEF Cache!Touch, Cache!At
<1>2. CASE Cache!Present(Cache!Key(c))
  <2> DEFINE q == [call[c] EXCEPT !.pc = "answer"]
  <2>1. rec' = Cache!Touched(Cache!Key(c)) /\ call' = [call EXCEPT ![c] = q] /\ rec[Cache!Key(c)] # None
    BY <1>2, CacheFacts DEF Cache!Touch, Cache!Present
  <2>2. q \in CallType /\ q.pc = "answer" /\ q.got = call[c].got /\ q.since = call[c].since
        /\ q.out = call[c].out
    BY CallFacts DEF CallType
  <2> HIDE DEF q
  <2>3. /\ rec' \in [Cache!Keys -> Cache!Records \cup {None}]
        /\ \A j \in Cache!Keys : (rec'[j] # None => rec[j] # None /\ rec'[j].n = rec[j].n)
    BY <2>1, CallFacts, TouchedFacts, CacheFacts
  <2>4. \A d \in Calls : call'[d].pc = "set" => call[d].pc = "set" /\ call'[d].got = call[d].got
    BY <2>1, <2>2, CacheFacts
  <2>5. NumbersFine' /\ MemoryFine'
    BY <1>1, <2>3, <2>4, NumbersKept, RedisMemory
  <2>6. q.got \in Cache!Records /\ q.got.n \notin q.since /\ q.out = None /\ q.since \subseteq gone
    BY <1>1, <2>2, CallFacts DEF CallFine
  <2>7. gone \subseteq gone' /\ gone' \subseteq 1 .. puts'
    BY <1>1, CacheFacts
  <2>. QED
    BY <1>1, <2>1, <2>2, <2>3, <2>5, <2>6, <2>7, OwnCallStep
<1>3. CASE ~Cache!Present(Cache!Key(c))
  <2>1. call' = [call EXCEPT ![c] = Cache!Idle] /\ rec' = rec
    BY <1>3, CallFacts DEF Cache!Touch
  <2>2. \A d \in Calls : call'[d].pc = "set" => call[d].pc = "set" /\ call'[d].got = call[d].got
    BY <2>1, CacheFacts DEF Cache!Idle
  <2>3. NumbersFine' /\ MemoryFine'
    BY <1>1, <2>1, <2>2, NumbersKept, RedisMemory
  <2>. QED
    BY <1>1, <2>1, <2>3, NothingAnswered, CacheFacts
<1>. QED
  BY <1>2, <1>3

\* A record that cannot be decoded, or a dead URL, is not an answer.
LEMMA DecodeCache ==
  ASSUME Cache!CacheAssumption, CacheInv, NEW c \in Calls, Cache!Decode(c)
  PROVE  CacheInv'
<1>1. /\ redis /\ redis' = redis /\ now' = now /\ puts' = puts /\ gone' = gone /\ rec' = rec
      /\ puts' \in puts .. MaxPuts /\ call[c].pc = "answer"
      /\ gone \subseteq gone' /\ gone' \subseteq 1 .. puts'
      /\ rec' \in [Cache!Keys -> Cache!Records \cup {None}]
  BY CallFacts, CacheFacts DEF Cache!Decode, Cache!At
<1>2. call[c].got \in Cache!Records /\ call[c].got.n \notin call[c].since /\ call[c].since \subseteq gone
      /\ call[c].out = None /\ call[c].got # None
  BY <1>1, CallFacts, CacheFacts DEF CallFine
<1>3. CASE Cache!Bad(Cache!Key(c), call[c].got)
  <2> DEFINE q == [call[c] EXCEPT !.pc = "delete"]
  <2>1. call' = [call EXCEPT ![c] = q]
    BY <1>3, CacheFacts DEF Cache!Decode
  <2>2. q \in CallType /\ q.pc = "delete" /\ q.got = call[c].got /\ q.since = call[c].since
        /\ q.out = call[c].out
    BY CallFacts DEF CallType
  <2> HIDE DEF q
  <2>3. \A d \in Calls : call'[d].pc = "set" => call[d].pc = "set" /\ call'[d].got = call[d].got
    BY <2>1, <2>2, CacheFacts
  <2>4. NumbersFine' /\ MemoryFine'
    BY <1>1, <2>3, NumbersKept, RedisMemory
  <2>. QED
    BY <1>1, <1>2, <2>1, <2>2, <2>4, OwnCallStep
<1>4. CASE ~Cache!Bad(Cache!Key(c), call[c].got)
  <2>1. call' = [call EXCEPT ![c] = [Cache!Idle EXCEPT !.key = Cache!Key(c), !.since = call[c].since,
                  !.out = [n |-> call[c].got.n, dies |-> call[c].got.dies, at |-> now]]]
    BY <1>2, <1>4 DEF Cache!Decode, Cache!Answered
  <2>2. \A d \in Calls : call'[d].pc = "set" => call[d].pc = "set" /\ call'[d].got = call[d].got
    BY <2>1, CacheFacts DEF Cache!Idle
  <2>3. NumbersFine' /\ MemoryFine'
    BY <1>1, <2>2, NumbersKept, RedisMemory
  <2>. QED
    BY <1>1, <1>2, <1>4, <2>1, <2>3, CallFacts, RecordAnswered
<1>. QED
  BY <1>3, <1>4

\* The record of a key goes, and its number with it if it was evicted.
LEMMA NumberDropped ==
  ASSUME Cache!CacheAssumption, CacheInv, NEW k \in Cache!Keys, puts' = puts, rec' = [rec EXCEPT ![k] = None],
         gone' = gone \/ (gone' = IF rec[k] # None THEN gone \cup {rec[k].n} ELSE gone),
         \A d \in Calls : call'[d].pc = "set" => call[d].pc = "set" /\ call'[d].got = call[d].got
  PROVE  /\ NumbersFine' /\ gone \subseteq gone' /\ gone' \subseteq 1 .. puts'
         /\ rec' \in [Cache!Keys -> Cache!Records \cup {None}]
<1>1. /\ rec' \in [Cache!Keys -> Cache!Records \cup {None}] /\ rec'[k] = None
      /\ \A j \in Cache!Keys \ {k} : rec'[j] = rec[j]
  BY CacheFacts
<1>2. NumbersFine
  BY CacheFacts
<1>3. NumbersFine'
  <2>1. \A j \in Cache!Keys : rec'[j] # None => rec'[j] = rec[j] /\ rec'[j].n \in 1 .. puts' /\ rec'[j].n \notin gone'
    BY <1>1, <1>2 DEF NumbersFine
  <2>2. \A d \in Calls : call'[d].pc = "set" =>
           call'[d].got.n \in 1 .. puts' /\ call'[d].got.n \notin gone'
    BY <1>2 DEF NumbersFine
  <2>. QED
    BY <1>2, <2>1, <2>2 DEF NumbersFine
<1>4. rec[k] # None => rec[k].n \in 1 .. puts
  BY <1>2 DEF NumbersFine
<1>. QED
  BY <1>1, <1>3, <1>4, CacheFacts

\* A record is deleted.
LEMMA DeleteCache ==
  ASSUME Cache!CacheAssumption, CacheInv, NEW c \in Calls, Cache!Delete(c)
  PROVE  CacheInv'
<1>1. /\ redis /\ redis' = redis /\ now' = now /\ puts' = puts
      /\ puts' \in puts .. MaxPuts
      /\ rec' = [rec EXCEPT ![Cache!Key(c)] = None] /\ call' = [call EXCEPT ![c] = Cache!Idle]
  BY CallFacts, CacheFacts DEF Cache!Delete, Cache!At
<1>2. gone' = gone \/ (gone' = IF rec[Cache!Key(c)] # None THEN gone \cup {rec[Cache!Key(c)].n} ELSE gone)
  BY DEF Cache!Delete
<1>3. \A d \in Calls : call'[d].pc = "set" => call[d].pc = "set" /\ call'[d].got = call[d].got
  BY <1>1, CacheFacts DEF Cache!Idle
<1>. QED
  BY <1>1, <1>2, <1>3, CallFacts, NumberDropped, RedisMemory, NothingAnswered

\* evict_delivery removes the record, and its number is gone for good.
LEMMA EvictCache ==
  ASSUME Cache!CacheAssumption, CacheInv, NEW c \in Calls, Cache!Evict(c)
  PROVE  CacheInv'
<1>1. redis' = redis /\ now' = now /\ puts' = puts /\ puts' \in puts .. MaxPuts /\ "file-id" \in Cache!Keys
  BY CacheFacts DEF Cache!Evict, Cache!Keys
<1>2. CASE redis
  <2>1. Cache!Begin(c, "file-id", "evict", None) /\ rec' = rec /\ gone' = gone
    BY <1>2 DEF Cache!Evict
  <2>2. \A d \in Calls : call'[d].pc = "set" => call[d].pc = "set" /\ call'[d].got = call[d].got
    BY <2>1, CacheFacts DEF Cache!Begin
  <2>3. NumbersFine'
    BY <1>1, <2>1, <2>2, NumbersKept
  <2>. QED
    BY <1>1, <1>2, <2>1, <2>3, BegunCall
<1>3. CASE ~redis
  <2>1. /\ rec' = [rec EXCEPT !["file-id"] = None] /\ call' = call
        /\ gone' = IF rec["file-id"] # None THEN gone \cup {rec["file-id"].n} ELSE gone
    BY <1>3 DEF Cache!Evict
  <2>2. /\ NumbersFine' /\ gone \subseteq gone' /\ gone' \subseteq 1 .. puts'
        /\ rec' \in [Cache!Keys -> Cache!Records \cup {None}]
    BY <1>1, <2>1, NumberDropped
  <2>3. MemoryFine'
    BY <1>1, <2>1, MemoryKept, CacheFacts DEF Cache!Keys
  <2>4. ASSUME NEW d \in Calls PROVE CallFine(d)'
    <3>1. CallFine(d)
      BY CacheFacts
    <3>. QED
      BY <1>1, <2>1, <2>2, <3>1 DEF CallFine
  <2>. QED
    BY <1>1, <2>1, <2>2, <2>3, <2>4, CacheFacts DEF CacheInv
<1>. QED
  BY <1>2, <1>3

\* A put numbers its record before Redis has it.
LEMMA PutCache ==
  ASSUME Cache!CacheAssumption, CacheInv, NEW c \in Calls, NEW k \in Cache!Keys, Cache!Put(c, k) PROVE CacheInv'
<1>1. /\ redis /\ redis' = redis /\ now' = now /\ gone' = gone /\ rec' = rec
      /\ puts < MaxPuts /\ puts' = puts + 1
  BY DEF Cache!Put
<1>2. PICK dies \in {now, now + 1, now + 3} :
        Cache!Begin(c, k, IF k = "signed-url" /\ dies <= now THEN "delete" ELSE "set",
              [n |-> puts + 1, good |-> TRUE, dies |-> dies, until |-> Cache!Life(k, dies)])
  BY DEF Cache!Put
<1> DEFINE pc == IF k = "signed-url" /\ dies <= now THEN "delete" ELSE "set"
           span == Cache!Life(k, dies)
           got == [n |-> puts + 1, good |-> TRUE, dies |-> dies, until |-> span]
<1>3. Cache!Begin(c, k, pc, got) /\ pc \in {"delete", "set"}
  BY <1>2
<1>4. dies \in Int /\ Cache!Ceil(dies - now) \in Int
  BY CacheFacts DEF Cache!Ceil, Cache!Second
<1>5. span \in Int
  BY <1>4, CacheFacts DEF Cache!Life, Cache!Most, Cache!Least
<1> HIDE DEF span
<1>6. got \in Cache!Records /\ got.n = puts + 1
  BY <1>1, <1>4, <1>5, FreshNumber DEF Cache!Records
<1> HIDE DEF pc, got
<1>7. NumbersFine'
  <2>1. /\ call'[c].pc = pc /\ call'[c].got = got
        /\ \A d \in Calls \ {c} : call'[d] = call[d]
    BY <1>3, CacheFacts DEF Cache!Begin
  <2>2. NumbersFine /\ puts + 1 \in 1 .. puts' /\ 1 .. puts \subseteq 1 .. puts'
    BY <1>1, CacheFacts
  <2>. QED
    BY <1>1, <1>6, <2>1, <2>2, FreshNumber DEF NumbersFine
<1>. QED
  BY <1>1, <1>3, <1>6, <1>7, FreshNumber, BegunCall

\* Redis gets the record of a put.
LEMMA SetCache ==
  ASSUME Cache!CacheAssumption, CacheInv, NEW c \in Calls, Cache!Set(c)
  PROVE  CacheInv'
<1>1. /\ redis /\ redis' = redis /\ now' = now /\ puts' = puts /\ gone' = gone
      /\ puts' \in puts .. MaxPuts /\ call[c].pc = "set" /\ call' = [call EXCEPT ![c] = Cache!Idle]
      /\ rec' = [rec EXCEPT ![Cache!Key(c)] = [call[c].got EXCEPT !.until = now + Cache!Second * @]]
  BY CallFacts, CacheFacts DEF Cache!Set, Cache!At
<1> DEFINE r == [call[c].got EXCEPT !.until = now + Cache!Second * @]
<1>2. call[c].got \in Cache!Records
  BY <1>1, CallFacts DEF CallFine
<1>3. now + Cache!Second * call[c].got.until \in Int
  BY <1>2, CacheFacts DEF Cache!Records, Cache!Second
<1>4. r \in Cache!Records /\ r.n = call[c].got.n
  BY <1>2, <1>3 DEF Cache!Records
<1> HIDE DEF r
<1>5. rec' = [rec EXCEPT ![Cache!Key(c)] = r]
  BY <1>1 DEF r
<1>6. /\ rec' \in [Cache!Keys -> Cache!Records \cup {None}] /\ rec'[Cache!Key(c)] = r
      /\ \A j \in Cache!Keys \ {Cache!Key(c)} : rec'[j] = rec[j]
  BY <1>4, <1>5, CallFacts, CacheFacts
<1>7. /\ \A d \in Calls \ {c} : call'[d] = call[d]
      /\ call'[c].pc = "idle"
  BY <1>1, CacheFacts DEF Cache!Idle
<1>8. NumbersFine'
  <2>1. NumbersFine
    BY CacheFacts
  <2>2. r.n \in 1 .. puts /\ r.n \notin gone /\ (\A k \in Cache!Keys : rec[k] # None => rec[k].n # r.n)
        /\ \A d \in Calls \ {c} : call[d].pc = "set" => call[d].got.n # r.n
    BY <1>1, <1>4, <2>1 DEF NumbersFine
  <2>3. \A k \in Cache!Keys : rec'[k] # None => rec'[k].n \in 1 .. puts' /\ rec'[k].n \notin gone'
    BY <1>1, <1>6, <2>1, <2>2 DEF NumbersFine
  <2>4. \A k, j \in Cache!Keys : k # j /\ rec'[k] # None /\ rec'[j] # None => rec'[k].n # rec'[j].n
    BY <1>6, <2>1, <2>2 DEF NumbersFine
  <2>5. \A d \in Calls : call'[d].pc = "set" =>
          /\ call'[d].got.n \in 1 .. puts' /\ call'[d].got.n \notin gone'
          /\ \A k \in Cache!Keys : rec'[k] # None => rec'[k].n # call'[d].got.n
    BY <1>1, <1>6, <1>7, <2>1, <2>2 DEF NumbersFine
  <2>6. \A d, e \in Calls : d # e /\ call'[d].pc = "set" /\ call'[e].pc = "set" =>
          call'[d].got.n # call'[e].got.n
    BY <1>7, <2>1 DEF NumbersFine
  <2>. QED
    BY <2>3, <2>4, <2>5, <2>6 DEF NumbersFine
<1>. QED
  BY <1>1, <1>6, <1>8, RedisMemory, NothingAnswered, CacheFacts

\* A foreign record takes the place of one.
LEMMA JunkCache ==
  ASSUME Cache!CacheAssumption, CacheInv, NEW k \in Cache!Keys, Cache!Junk(k)
  PROVE  CacheInv'
<1> DEFINE r == [n |-> puts + 1, good |-> FALSE, dies |-> now, until |-> now + Cache!Second * Ttl[k]]
<1>1. /\ redis /\ redis' = redis /\ now' = now /\ puts' = puts + 1 /\ gone' = gone /\ call' = call
      /\ puts < MaxPuts /\ rec' = [rec EXCEPT ![k] = r]
  BY DEF Cache!Junk
<1>2. r \in Cache!Records /\ r.n = puts + 1
  <2>1. now + Cache!Second * Ttl[k] \in Int
    BY CacheFacts DEF Cache!Second
  <2>. QED
    BY <1>1, <2>1, FreshNumber, CacheFacts DEF Cache!Records
<1> HIDE DEF r
<1>3. /\ rec' \in [Cache!Keys -> Cache!Records \cup {None}] /\ rec'[k] = r
      /\ \A j \in Cache!Keys \ {k} : rec'[j] = rec[j]
  BY <1>1, <1>2, CacheFacts
<1>4. /\ 1 .. puts \subseteq 1 .. puts' /\ puts + 1 \in 1 .. puts'
      /\ puts' \in 0 .. MaxPuts /\ gone' \subseteq 1 .. puts'
  BY <1>1, CacheFacts
<1>5. NumbersFine'
  BY <1>1, <1>2, <1>3, <1>4, FreshNumber, CacheFacts DEF NumbersFine
<1>6. ASSUME NEW d \in Calls PROVE CallFine(d)'
  <2>1. CallFine(d)
    BY CacheFacts
  <2>. QED
    BY <1>1, <2>1 DEF CallFine
<1>. QED
  BY <1>1, <1>3, <1>4, <1>5, <1>6, RedisMemory, CacheFacts DEF CacheInv

\* A call that Redis fails ends without an answer.
LEMMA FailsCache ==
  ASSUME Cache!CacheAssumption, CacheInv, NEW c \in Calls, Cache!Fails(c)
  PROVE  CacheInv'
<1>1. /\ redis /\ redis' = redis /\ now' = now /\ puts' = puts /\ gone' = gone /\ rec' = rec
      /\ puts' \in puts .. MaxPuts /\ call' = [call EXCEPT ![c] = Cache!Idle]
  BY CallFacts, CacheFacts DEF Cache!Fails, Cache!At
<1>2. \A d \in Calls : call'[d].pc = "set" => call[d].pc = "set" /\ call'[d].got = call[d].got
  BY <1>1, CacheFacts DEF Cache!Idle
<1>3. NumbersFine' /\ MemoryFine'
  BY <1>1, <1>2, NumbersKept, RedisMemory
<1>. QED
  BY <1>1, <1>3, NothingAnswered, CacheFacts

\* What is left beside a record of k fits in memory with it.
LEMMA RoomFacts ==
  ASSUME Cache!CacheAssumption, CacheInv, ~redis, NEW k \in Cache!Keys, NEW kept \in Cache!Room(k)
  PROVE  /\ kept \subseteq Kept /\ kept \subseteq Cache!Keys
         /\ Cardinality(kept \cup {k}) <= MaxEntries
<1> DEFINE live == {j \in Cache!Keys : Cache!Present(j)}
           full == k \notin live /\ Cardinality(live) >= MaxEntries
<1>1. PICK D \in SUBSET live : kept = live \ D /\ (IF full THEN Cardinality(D) = 1 ELSE D = {})
  BY CacheLibrary DEF Cache!Room
<1>2. live \subseteq Kept /\ Kept \subseteq Cache!Keys /\ live \subseteq Cache!Keys
  BY CacheFacts DEF Kept, Cache!Present
<1>3. /\ Cardinality(live) <= Cardinality(Kept) /\ Cardinality(live) \in Nat /\ Cardinality(Kept) \in Nat
      /\ IsFiniteSet(live)
  BY <1>2, KeysFinite
<1>4. Cardinality(Kept) <= MaxEntries /\ MaxEntries \in Nat
  BY CacheFacts DEF MemoryFine
<1>5. kept \subseteq live /\ IsFiniteSet(kept) /\ Cardinality(kept) \in Nat
      /\ Cardinality(kept) <= Cardinality(live)
  <2>1. kept \subseteq live
    BY <1>1
  <2>. QED
    BY <1>2, <2>1, KeysFinite
<1> HIDE DEF live
<1>6. CASE k \in kept
  <2>1. kept \cup {k} = kept
    BY <1>6
  <2>. QED
    BY <1>2, <1>3, <1>4, <1>5, <2>1
<1>7. CASE k \notin kept
  <2>1. Cardinality(kept \cup {k}) = Cardinality(kept) + 1
    BY <1>5, <1>7, FS_AddElement
  <2>2. k \notin live
    <3> SUFFICES ASSUME k \in live PROVE FALSE
      OBVIOUS
    <3>1. D = {}
      BY <1>1
    <3>. QED
      BY <1>1, <1>7, <3>1
  <2>3. CASE full
    <3>1. Cardinality(D) = 1 /\ D # {} /\ IsFiniteSet(D)
      <4>1. Cardinality(D) = 1 /\ D \subseteq live
        BY <1>1, <2>3
      <4>2. IsFiniteSet(D)
        BY <1>2, <4>1, KeysFinite
      <4>. QED
        BY <4>1, <4>2, FS_EmptySet
    <3>2. PICK d : d \in D
      BY <3>1
    <3>3. Cardinality(live \ {d}) = Cardinality(live) - 1
      BY <1>1, <1>3, <3>2, FS_RemoveElement
    <3>4. kept \subseteq live \ {d} /\ live \ {d} \subseteq Cache!Keys
      BY <1>1, <1>2, <3>2
    <3>5. Cardinality(kept) <= Cardinality(live \ {d})
      BY <3>4, KeysFinite
    <3>6. Cardinality(kept) + 1 <= MaxEntries
      BY <1>3, <1>4, <1>5, <3>3, <3>5
    <3>. QED
      BY <1>2, <1>5, <2>1, <3>6
  <2>4. CASE ~full
    <3>1. Cardinality(live) < MaxEntries
      BY <1>3, <1>4, <2>2, <2>4
    <3>2. Cardinality(kept) + 1 <= MaxEntries
      BY <1>3, <1>4, <1>5, <3>1
    <3>. QED
      BY <1>2, <1>5, <2>1, <3>2
  <2>. QED
    BY <2>3, <2>4
<1>. QED
  BY <1>2, <1>5, <1>6, <1>7

\* A put into memory makes room first (MemoryMediaCache.put).
LEMMA PutMemoryCache ==
  ASSUME Cache!CacheAssumption, CacheInv, NEW c \in Calls, NEW k \in Cache!Keys, Cache!PutMemory(c, k) PROVE CacheInv'
<1>1. /\ ~redis /\ redis' = redis /\ now' = now /\ gone' = gone /\ call' = call
      /\ puts < MaxPuts /\ puts' = puts + 1
  BY DEF Cache!PutMemory
<1>2. PICK dies \in {now, now + 1, now + 3}, kept \in Cache!Room(k) :
          rec' = IF k = "signed-url" /\ dies <= now THEN [rec EXCEPT ![k] = None]
                 ELSE [j \in Cache!Keys |->
                    IF j = k THEN [n |-> puts + 1, good |-> TRUE, dies |-> dies,
                                   until |-> now + Cache!Second * Cache!Life(k, dies)]
                    ELSE IF j \in kept THEN rec[j] ELSE None]
  BY DEF Cache!PutMemory
<1>3. /\ 1 .. puts \subseteq 1 .. puts' /\ puts + 1 \in 1 .. puts'
      /\ puts' \in 0 .. MaxPuts /\ gone' \subseteq 1 .. puts'
  BY <1>1, CacheFacts
<1>4. NumbersFine /\ MemoryFine /\ "signed-url" \in Cache!Keys
  BY CacheFacts DEF Cache!Keys
<1>5. CASE k = "signed-url" /\ dies <= now
  <2>1. /\ rec' \in [Cache!Keys -> Cache!Records \cup {None}]
        /\ \A j \in Cache!Keys : rec'[j] # None => rec'[j] = rec[j] /\ rec[j] # None
        /\ rec'["signed-url"] = None
    BY <1>2, <1>5, CacheFacts
  <2>2. NumbersFine'
    BY <1>1, <1>3, <1>4, <2>1 DEF NumbersFine
  <2>3. MemoryFine'
    BY <1>1, <2>1, MemoryKept
  <2>4. \A d \in Calls : CallFine(d)'
    BY <1>1, CacheFacts DEF CallFine
  <2>. QED
    BY <1>1, <1>3, <2>1, <2>2, <2>3, <2>4, CacheFacts DEF CacheInv
<1>6. CASE ~(k = "signed-url" /\ dies <= now)
  <2> DEFINE r == [n |-> puts + 1, good |-> TRUE, dies |-> dies, until |-> now + Cache!Second * Cache!Life(k, dies)]
  <2>1. dies \in Int /\ Cache!Ceil(dies - now) \in Int
    BY CacheFacts DEF Cache!Ceil, Cache!Second
  <2>2. Cache!Life(k, dies) \in Int
    BY <2>1, CacheFacts DEF Cache!Life, Cache!Most, Cache!Least
  <2>3. r \in Cache!Records /\ r.n = puts + 1 /\ r.dies = dies /\ r.until = now + Cache!Second * Cache!Life(k, dies)
    <3>1. now + Cache!Second * Cache!Life(k, dies) \in Int
      BY <2>2, CacheFacts DEF Cache!Second
    <3>. QED
      BY <1>1, <2>1, <3>1, FreshNumber DEF Cache!Records
  <2>4. k = "signed-url" => r.until < r.dies + Cache!Second
    <3> SUFFICES ASSUME k = "signed-url" PROVE r.until < r.dies + Cache!Second
      OBVIOUS
    <3>1. dies = now + 1 \/ dies = now + 3
      BY <1>6, CacheFacts
    <3>2. Ttl[k] \in Nat /\ now \in Int
      BY CacheFacts
    <3>3. CASE dies = now + 1
      <4>1. Cache!Ceil(dies - now) = 1
        BY <3>2, <3>3 DEF Cache!Ceil, Cache!Second
      <4>2. Cache!Life(k, dies) = 1
        BY <3>2, <4>1 DEF Cache!Life, Cache!Most, Cache!Least
      <4>. QED
        BY <2>3, <3>2, <3>3, <4>2 DEF Cache!Second
    <3>4. CASE dies = now + 3
      <4>1. Cache!Ceil(dies - now) = 2
        BY <3>2, <3>4 DEF Cache!Ceil, Cache!Second
      <4>2. Cache!Life(k, dies) <= 2 /\ Cache!Life(k, dies) \in Int
        BY <3>2, <4>1 DEF Cache!Life, Cache!Most, Cache!Least
      <4>. QED
        BY <2>3, <3>2, <3>4, <4>2 DEF Cache!Second
    <3>. QED
      BY <3>1, <3>3, <3>4
  <2>5. /\ rec' = [j \in Cache!Keys |-> IF j = k THEN r ELSE IF j \in kept THEN rec[j] ELSE None]
    BY <1>2, <1>6
  <2> HIDE DEF r
  <2>6. /\ rec' \in [Cache!Keys -> Cache!Records \cup {None}] /\ rec'[k] = r
        /\ \A j \in Cache!Keys \ {k} : rec'[j] # None => rec'[j] = rec[j] /\ rec[j] # None
    BY <2>3, <2>5, CacheFacts
  <2>7. NumbersFine'
    <3>1. \A j \in Cache!Keys \ {k} : rec'[j] # None => rec'[j] = rec[j] /\ rec[j] # None
      BY <2>6
    <3>2. rec'[k].n = puts + 1
      BY <2>3, <2>6
    <3>. QED
      BY <1>1, <1>3, <1>4, <3>1, <3>2, FreshNumber DEF NumbersFine
  <2>8. MemoryFine'
    <3>1. Kept' \subseteq kept \cup {k} /\ kept \cup {k} \subseteq Cache!Keys
      BY <1>1, <2>5, RoomFacts DEF Kept
    <3>2. /\ Cardinality(Kept') <= Cardinality(kept \cup {k}) /\ Cardinality(Kept') \in Nat
          /\ Cardinality(kept \cup {k}) \in Nat
      BY <3>1, KeysFinite
    <3>3. Cardinality(kept \cup {k}) <= MaxEntries /\ MaxEntries \in Nat
      BY <1>1, RoomFacts, CacheFacts
    <3>4. Cardinality(Kept') <= MaxEntries
      BY <3>2, <3>3
    <3>5. rec'["signed-url"] # None => rec'["signed-url"].until < rec'["signed-url"].dies + Cache!Second
      <4>1. CASE k = "signed-url"
        BY <2>4, <2>6, <4>1
      <4>2. CASE k # "signed-url"
        <5>1. rec'["signed-url"] # None => rec'["signed-url"] = rec["signed-url"] /\ rec["signed-url"] # None
          BY <1>4, <2>6, <4>2
        <5>. QED
          BY <1>1, <1>4, <5>1 DEF MemoryFine
      <4>. QED
        BY <4>1, <4>2
    <3>. QED
      BY <3>4, <3>5 DEF MemoryFine
  <2>9. ASSUME NEW d \in Calls PROVE CallFine(d)'
    <3>1. CallFine(d)
      BY CacheFacts
    <3>. QED
      BY <1>1, <3>1 DEF CallFine
  <2>. QED
    BY <1>1, <1>3, <2>6, <2>7, <2>8, <2>9, CacheFacts DEF CacheInv
<1>. QED
  BY <1>5, <1>6

\* The clock alone moves.
LEMMA SameCache ==
  ASSUME Cache!CacheAssumption, CacheInv, now' \in 0 .. CacheTicks, UNCHANGED <<redis, rec, puts, gone, call>>
  PROVE  CacheInv'
<1>1. redis' = redis /\ rec' = rec /\ puts' = puts /\ gone' = gone /\ call' = call
  OBVIOUS
<1>2. NumbersFine' /\ MemoryFine'
  BY <1>1, CacheFacts DEF NumbersFine, MemoryFine, Kept
<1>3. ASSUME NEW d \in Calls PROVE CallFine(d)'
  <2>1. CallFine(d)
    BY CacheFacts
  <2>. QED
    BY <1>1, <2>1 DEF CallFine
<1>. QED
  BY <1>1, <1>2, <1>3 DEF CacheInv

\* The invariant holds in every behaviour, fair or not.
LEMMA CacheAlways ==
  ASSUME Cache!CacheAssumption
  PROVE  Cache!Init /\ [][Cache!Next]_(Cache!vars) => []Cache!CacheIsSafe
<1>1. Cache!Init => CacheInv
  <2> SUFFICES ASSUME Cache!Init PROVE CacheInv
    OBVIOUS
  <2>1. \A k \in Cache!Keys : rec[k] = None
    BY DEF Cache!Init
  <2>2. call \in [Calls -> CallType] /\ \A c \in Calls : call[c] = Cache!Idle
    BY IdleType DEF Cache!Init
  <2>3. Cache!Idle.pc = "idle" /\ Cache!Idle.out = None /\ Cache!Idle.since = {}
    BY DEF Cache!Idle
  <2>4. \A c \in Calls : CallFine(c)
    BY <2>2, <2>3 DEF CallFine
  <2>5. NumbersFine
    BY <2>1, <2>2, <2>3 DEF NumbersFine
  <2>6. MemoryFine
    <3>1. Kept = {}
      BY <2>1 DEF Kept
    <3>2. Cardinality(Kept) = 0
      BY <3>1, FS_EmptySet
    <3>3. rec["signed-url"] = None /\ MaxEntries \in Nat
      BY <2>1 DEF Cache!Keys, Cache!CacheAssumption
    <3>. QED
      BY <3>2, <3>3 DEF MemoryFine
  <2>7. redis \in BOOLEAN
    BY DEF Cache!Init
  <2>8. now \in 0 .. CacheTicks /\ puts \in 0 .. MaxPuts /\ gone = {}
    BY DEF Cache!Init, Cache!CacheAssumption
  <2>9. rec \in [Cache!Keys -> Cache!Records \cup {None}]
    BY DEF Cache!Init
  <2>. QED
    BY <2>2, <2>4, <2>5, <2>6, <2>7, <2>8, <2>9 DEF CacheInv
<1>2. CacheInv /\ [Cache!Next]_(Cache!vars) => CacheInv'
  <2> SUFFICES ASSUME CacheInv, [Cache!Next]_(Cache!vars) PROVE CacheInv'
    OBVIOUS
  <2>1. ASSUME NEW c \in Calls, Cache!Step(c) \/ Cache!Evict(c) \/ Cache!Fails(c) PROVE CacheInv'
    BY <2>1, TouchCache, DecodeCache, DeleteCache, SetCache, EvictCache, FailsCache DEF Cache!Step
  <2>2. ASSUME NEW c \in Calls, NEW k \in Cache!Keys, Cache!GetMemory(c, k) \/ Cache!Get(c, k) \/ Cache!PutMemory(c, k) \/ Cache!Put(c, k)
        PROVE  CacheInv'
    BY <2>2, GetMemoryCache, GetCache, PutMemoryCache, PutCache
  <2>3. ASSUME NEW k \in Cache!Keys, Cache!Junk(k) PROVE CacheInv'
    BY <2>3, JunkCache
  <2>4. CASE Cache!Tick
    <3>1. now' \in 0 .. CacheTicks
      BY <2>4, CacheFacts DEF Cache!Tick
    <3>. QED
      BY <2>4, <3>1, SameCache DEF Cache!Tick
  <2>5. CASE UNCHANGED Cache!vars
    BY <2>5, SameCache, CacheFacts DEF Cache!vars
  <2>. QED
    BY <2>1, <2>2, <2>3, <2>4, <2>5 DEF Cache!Next
<1>3. CacheInv => Cache!CacheIsSafe
  <2> SUFFICES ASSUME CacheInv PROVE Cache!CacheIsSafe
    OBVIOUS
  <2>1. ASSUME NEW c \in Calls
        PROVE  /\ call[c].pc \in {"idle", "touch", "answer", "delete", "evict", "set"}
               /\ call[c].key \in Cache!Keys /\ call[c].since \subseteq gone
               /\ call[c].got \in Cache!Records \cup {None}
    BY CallFacts DEF CallType, CallFine
  <2>2. Cache!TypeOK
    BY <2>1, CacheFacts, CacheLibrary DEF CacheInv, Cache!TypeOK, MemoryFine, Kept
  <2>3. Cache!EvictedStaysGone
    BY CallFacts DEF Cache!EvictedStaysGone, CallFine
  <2>4. Cache!UrlsAreAlive
    <3>1. ~redis /\ rec["signed-url"] # None => rec["signed-url"].until < rec["signed-url"].dies + Cache!Second
      BY CacheFacts DEF MemoryFine
    <3>2. \A c \in Calls : Cache!Key(c) = "signed-url" /\ call[c].out # None => call[c].out.dies > call[c].out.at
      BY CallFacts DEF Cache!Key, CallFine
    <3>. QED
      BY <3>1, <3>2 DEF Cache!UrlsAreAlive
  <2>. QED
    BY <2>2, <2>3, <2>4 DEF Cache!CacheIsSafe
<1>. QED
  BY <1>1, <1>2, <1>3, PTL

(* The media cache never returns what was evicted before, nor a signed URL that is dead,   *)
(* and memory keeps its bound, however gets, puts, evictions and failures of Redis overlap *)
(* (media_cache.py), for every number of calls, entries, ticks and writes.                 *)
THEOREM CacheSafe == ASSUME Cache!CacheAssumption PROVE Cache!Spec => []Cache!CacheIsSafe
  BY CacheAlways, PTL DEF Cache!Spec

-----------------------------------------------------------------------------
(* DownloadQueue (app/core/download_queue.py). The list of waiters holds   *)
(* the callers in state "waiting", each once, and an entry of the lock's   *)
(* queue says where its caller is. So a grant reaches a caller that had no *)
(* slot, an operation under the lock moves one slot at most, and slots     *)
(* that are free, owned or lost always add up.                             *)

CONSTANTS Tasks, Slots, MaxQueue, Free
VARIABLES sem, waiters, waiter, at, lock, lockq

Queue == INSTANCE DownloadQueue

\* The variables keep their types; the bounds of sem and waiters come apart.
QueueType ==
    /\ sem \in Nat
    /\ waiters \in Seq(Tasks)
    /\ waiter \in [Tasks -> {"none", "waiting", "granted", "cancelled"}]
    /\ at \in [Tasks -> Queue!Places]
    /\ lock \in Tasks \cup {Free}
    /\ lockq \in Seq(Tasks \X Queue!Ops)

\* Where a caller is tells what its waiter can be.
WaiterFits ==
    \A t \in Tasks :
        /\ at[t] \in {"new", "entering", "refusing"} => waiter[t] = "none"
        /\ at[t] = "holding" => waiter[t] \in {"none", "granted"}
        /\ at[t] \in {"queued", "timedout", "withdrawing"} => waiter[t] \in {"waiting", "granted"}
        /\ at[t] = "left" => waiter[t] # "waiting"

\* The list holds the callers in state "waiting", each of them once.
WaitersWait ==
    /\ \A i \in 1 .. Len(waiters) : waiter[waiters[i]] = "waiting"
    /\ \A i, j \in 1 .. Len(waiters) : waiters[i] = waiters[j] => i = j
    /\ \A t \in Tasks : waiter[t] = "waiting" => \E i \in 1 .. Len(waiters) : waiters[i] = t

\* Every caller at the lock has one entry, which says what it is about to do.
EntriesFit ==
    /\ \A i \in 1 .. Len(lockq) :
          LET t == lockq[i][1]
              op == lockq[i][2]
          IN  /\ op = "enter" => at[t] = "entering"
              /\ op = "withdraw" => at[t] \in {"timedout", "withdrawing"}
              /\ op = "release" => at[t] = "left"
    /\ \A i, j \in 1 .. Len(lockq) : lockq[i][1] = lockq[j][1] => i = j

\* The callers a slot of the semaphore belongs to, or was lost with.
Has == Queue!Owning \cup Queue!Lost

QueueInv ==
    /\ QueueType
    /\ Len(waiters) <= MaxQueue
    /\ WaiterFits
    /\ WaitersWait
    /\ EntriesFit
    /\ Queue!NoIdleSlot
    /\ sem + Cardinality(Has) = Slots

-----------------------------------------------------------------------------

(* DownloadQueue counts with the cardinality of the library.               *)
LEMMA QueueLibrary ==
  \A S : (Queue!IsFiniteSet(S) <=> IsFiniteSet(S)) /\ Queue!Cardinality(S) = Cardinality(S)
<1>1. \A S : Queue!IsFiniteSet(S) <=> IsFiniteSet(S)
  BY DEF Queue!IsFiniteSet, IsFiniteSet
<1>. QED
  BY <1>1 DEF Queue!Cardinality, Cardinality

(* Lists. *)

(* RemoveAt takes out one element and keeps the others in their order.       *)
LEMMA RemoveAtProperties ==
  ASSUME NEW S, NEW s \in Seq(S), NEW i \in 1 .. Len(s)
  PROVE  /\ Queue!RemoveAt(s, i) \in Seq(S)
         /\ Len(Queue!RemoveAt(s, i)) = Len(s) - 1
         /\ \A j \in 1 .. Len(s) - 1 : Queue!RemoveAt(s, i)[j] = IF j < i THEN s[j] ELSE s[j + 1]
<1> DEFINE a == SubSeq(s, 1, i - 1)
           b == SubSeq(s, i + 1, Len(s))
<1>1. Len(s) \in Nat /\ \A j \in 1 .. Len(s) : s[j] \in S
  BY LenProperties, ElementOfSeq
<1>2. a \in Seq(S) /\ Len(a) = i - 1 /\ \A j \in 1 .. i - 1 : a[j] = s[j]
  <2>1. \A j \in 1 .. i - 1 : s[j] \in S
    BY <1>1
  <2>2. /\ a \in Seq(S) /\ Len(a) = (IF 1 <= i - 1 THEN i - 1 - 1 + 1 ELSE 0)
        /\ \A j \in 1 .. i - 1 - 1 + 1 : a[j] = s[1 + j - 1]
    BY <1>1, <2>1, SubSeqProperties
  <2> HIDE DEF a
  <2>3. ASSUME NEW j \in 1 .. i - 1 PROVE a[j] = s[j]
    <3>1. j \in 1 .. i - 1 - 1 + 1 /\ 1 + j - 1 = j
      BY <1>1, <2>3
    <3>2. a[j] = s[1 + j - 1]
      BY <2>2, <3>1
    <3>. QED
      BY <3>1, <3>2
  <2>. QED
    BY <1>1, <2>2, <2>3
<1>3. b \in Seq(S) /\ Len(b) = Len(s) - i /\ \A j \in 1 .. Len(s) - i : b[j] = s[i + j]
  <2>1. \A j \in i + 1 .. Len(s) : s[j] \in S
    BY <1>1
  <2>2. /\ b \in Seq(S) /\ Len(b) = (IF i + 1 <= Len(s) THEN Len(s) - (i + 1) + 1 ELSE 0)
        /\ \A j \in 1 .. Len(s) - (i + 1) + 1 : b[j] = s[i + 1 + j - 1]
    BY <1>1, <2>1, SubSeqProperties
  <2> HIDE DEF b
  <2>3. Len(b) = Len(s) - i
    BY <1>1, <2>2
  <2>4. ASSUME NEW j \in 1 .. Len(s) - i PROVE b[j] = s[i + j]
    <3>1. j \in 1 .. Len(s) - (i + 1) + 1 /\ i + 1 + j - 1 = i + j
      BY <1>1, <2>4
    <3>2. b[j] = s[i + 1 + j - 1]
      BY <2>2, <3>1
    <3>. QED
      BY <3>1, <3>2
  <2>. QED
    BY <2>2, <2>3, <2>4
<1>4. Queue!RemoveAt(s, i) = a \o b
  BY DEF Queue!RemoveAt
<1> HIDE DEF a, b
<1>5. /\ a \o b \in Seq(S) /\ Len(a \o b) = Len(a) + Len(b)
      /\ \A j \in 1 .. Len(a) + Len(b) : (a \o b)[j] = IF j <= Len(a) THEN a[j] ELSE b[j - Len(a)]
  BY <1>2, <1>3, ConcatProperties
<1>6. ASSUME NEW j \in 1 .. Len(s) - 1
      PROVE  (a \o b)[j] = IF j < i THEN s[j] ELSE s[j + 1]
  <2>1. CASE j < i
    BY <1>1, <1>2, <1>3, <1>5, <1>6, <2>1
  <2>2. CASE ~(j < i)
    <3>1. (a \o b)[j] = b[j - (i - 1)] /\ j - (i - 1) \in 1 .. Len(s) - i
      BY <1>1, <1>2, <1>3, <1>5, <1>6, <2>2
    <3>2. b[j - (i - 1)] = s[i + (j - (i - 1))] /\ i + (j - (i - 1)) = j + 1
      BY <1>1, <1>3, <1>6, <3>1
    <3>. QED
      BY <2>2, <3>1, <3>2, <1>1, <1>6
  <2>. QED
    BY <2>1, <2>2
<1>. QED
  BY <1>1, <1>2, <1>3, <1>4, <1>5, <1>6

\* Where an element stood, and where it stands, once the i-th is gone.
From(i, j) == IF j < i THEN j ELSE j + 1
To(i, k) == IF k < i THEN k ELSE k - 1

(* Without one of its elements a list has the others, at other places.       *)
LEMMA RemovedFromList ==
  ASSUME NEW S, NEW s \in Seq(S), NEW i \in 1 .. Len(s), NEW r, r = Queue!RemoveAt(s, i)
  PROVE  /\ r \in Seq(S) /\ Len(r) = Len(s) - 1
         /\ \A j \in 1 .. Len(r) :
               /\ From(i, j) \in 1 .. Len(s) /\ From(i, j) # i
               /\ r[j] = s[From(i, j)] /\ To(i, From(i, j)) = j
         /\ \A k \in 1 .. Len(s) :
               k # i => To(i, k) \in 1 .. Len(r) /\ r[To(i, k)] = s[k]
<1>1. /\ r \in Seq(S) /\ Len(r) = Len(s) - 1
      /\ \A j \in 1 .. Len(s) - 1 : r[j] = IF j < i THEN s[j] ELSE s[j + 1]
  BY RemoveAtProperties
<1>2. Len(s) \in Nat
  BY LenProperties
<1>3. ASSUME NEW j \in 1 .. Len(r)
      PROVE  /\ From(i, j) \in 1 .. Len(s) /\ From(i, j) # i
             /\ r[j] = s[From(i, j)] /\ To(i, From(i, j)) = j
  BY <1>1, <1>2 DEF From, To
<1>4. ASSUME NEW k \in 1 .. Len(s), k # i
      PROVE  To(i, k) \in 1 .. Len(r) /\ r[To(i, k)] = s[k]
  <2>1. CASE k < i
    <3>1. To(i, k) = k /\ k \in 1 .. Len(s) - 1
      BY <1>2, <2>1 DEF To
    <3>. QED
      BY <1>1, <2>1, <3>1
  <2>2. CASE ~(k < i)
    <3>1. To(i, k) = k - 1 /\ k - 1 \in 1 .. Len(s) - 1 /\ ~(k - 1 < i) /\ k - 1 + 1 = k
      BY <1>2, <1>4, <2>2 DEF To
    <3>. QED
      BY <1>1, <3>1
  <2>. QED
    BY <2>1, <2>2
<1>. QED
  BY <1>1, <1>3, <1>4

(* So it is with the first element.                                          *)
LEMMA TailOfList ==
  ASSUME NEW S, NEW s \in Seq(S), s # << >>
  PROVE  LET r == Tail(s)
         IN  /\ r \in Seq(S) /\ Len(r) = Len(s) - 1 /\ Head(s) = s[1] /\ Len(s) >= 1
             /\ Len(s) \in Nat
             /\ \A j \in 1 .. Len(r) : \E k \in 1 .. Len(s) : k # 1 /\ r[j] = s[k]
             /\ \A k \in 1 .. Len(s) : k # 1 => \E j \in 1 .. Len(r) : r[j] = s[k]
             /\ \A j, k \in 1 .. Len(r) : j # k =>
                   \E l, m \in 1 .. Len(s) : l # m /\ r[j] = s[l] /\ r[k] = s[m]
<1> DEFINE r == Tail(s)
<1>1. /\ r \in Seq(S) /\ Len(r) = Len(s) - 1
      /\ \A j \in 1 .. Len(r) : r[j] = s[j + 1]
  BY HeadTailProperties
<1>2. Len(s) \in Nat /\ Len(s) >= 1
  BY LenProperties, EmptySeq
<1>3. Head(s) = s[1]
  OBVIOUS
<1> HIDE DEF r
<1>4. \A j \in 1 .. Len(r) : j + 1 \in 1 .. Len(s) /\ j + 1 # 1 /\ r[j] = s[j + 1]
  BY <1>1, <1>2
<1>5. \A k \in 1 .. Len(s) : k # 1 => k - 1 \in 1 .. Len(r) /\ r[k - 1] = s[k]
  BY <1>1, <1>2
<1>6. \A j, k \in 1 .. Len(r) : j # k => j + 1 # k + 1
  BY <1>1, <1>2
<1>. QED
  BY <1>1, <1>2, <1>3, <1>4, <1>5, <1>6 DEF r

-----------------------------------------------------------------------------
(* Slots. *)

\* A slot of the semaphore is the caller's, or was lost with it.
OwnsSlot(t) ==
    \/ at[t] = "holding"
    \/ at[t] \in {"queued", "timedout", "withdrawing", "cancelled"} /\ waiter[t] = "granted"
    \/ \E i \in 1 .. Len(lockq) : lockq[i] = <<t, "release">>

(* There are finitely many owners.                                           *)
LEMMA OwnersAreFinite ==
  ASSUME Queue!QueueAssumption, QueueType
  PROVE  /\ Has = {t \in Tasks : OwnsSlot(t)} /\ Has \subseteq Tasks
         /\ IsFiniteSet(Has) /\ Cardinality(Has) \in Nat
<1>1. DOMAIN lockq = 1 .. Len(lockq)
  BY LenProperties DEF QueueType
<1>2. Has = {t \in Tasks : OwnsSlot(t)}
  BY <1>1 DEF Has, Queue!Owning, Queue!Lost, OwnsSlot
<1>3. Has \subseteq Tasks
  BY <1>2
<1>4. IsFiniteSet(Has)
  BY <1>3, FS_Subset, QueueLibrary DEF Queue!QueueAssumption
<1>. QED
  BY <1>2, <1>3, <1>4, FS_CardinalityType

(* Owners still there and owners lost are counted apart.                     *)
LEMMA OwnersAreApart ==
  ASSUME Queue!QueueAssumption, QueueInv
  PROVE  /\ Cardinality(Has) = Cardinality(Queue!Owning) + Cardinality(Queue!Lost)
         /\ IsFiniteSet(Queue!Owning) /\ Cardinality(Queue!Owning) \in Nat /\ Cardinality(Queue!Lost) \in Nat
<1>1. DOMAIN lockq = 1 .. Len(lockq)
  BY LenProperties DEF QueueType, QueueInv
<1>2. Queue!Owning \cap Queue!Lost = {}
  BY <1>1 DEF Queue!Owning, Queue!Lost, QueueInv, EntriesFit
<1>3. Queue!Owning \subseteq Tasks /\ Queue!Lost \subseteq Tasks
  BY DEF Queue!Owning, Queue!Lost
<1>4. IsFiniteSet(Queue!Owning) /\ IsFiniteSet(Queue!Lost)
  BY <1>3, FS_Subset, QueueLibrary DEF Queue!QueueAssumption
<1>5. Cardinality(Has) = Cardinality(Queue!Owning) + Cardinality(Queue!Lost) - Cardinality(Queue!Owning \cap Queue!Lost)
  BY <1>4, FS_Union DEF Has
<1>6. Cardinality(Queue!Owning \cap Queue!Lost) = 0
  BY <1>2, FS_EmptySet
<1>7. Cardinality(Queue!Owning) \in Nat /\ Cardinality(Queue!Lost) \in Nat
  BY <1>4, FS_CardinalityType
<1>. QED
  BY <1>4, <1>5, <1>6, <1>7

(* What a step does to the number of owners.                                 *)
LEMMA OwnersChange ==
  ASSUME Queue!QueueAssumption, QueueType, QueueType',
         NEW A \in SUBSET Tasks, NEW B \in SUBSET Tasks,
         \A t \in Tasks : OwnsSlot(t)' <=> (OwnsSlot(t) /\ t \notin A) \/ t \in B
  PROVE  /\ Has' = (Has \ A) \cup B
         /\ A = {} /\ B = {} => Cardinality(Has)' = Cardinality(Has)
         /\ \A t \in Tasks : A = {} /\ B = {t} /\ ~OwnsSlot(t) =>
               Cardinality(Has)' = Cardinality(Has) + 1
         /\ \A t \in Tasks : A = {t} /\ B = {} /\ OwnsSlot(t) =>
               Cardinality(Has)' = Cardinality(Has) - 1
         /\ \A t, u \in Tasks : A = {t} /\ B = {u} /\ OwnsSlot(t) /\ ~OwnsSlot(u) =>
               Cardinality(Has)' = Cardinality(Has)
<1>1. /\ Has = {t \in Tasks : OwnsSlot(t)} /\ Has \subseteq Tasks
      /\ IsFiniteSet(Has) /\ Cardinality(Has) \in Nat
  BY OwnersAreFinite
<1>2. Has' = {t \in Tasks : OwnsSlot(t)'}
  <2>1. DOMAIN lockq' = 1 .. Len(lockq')
    BY LenProperties DEF QueueType
  <2>. QED
    BY <2>1 DEF Has, Queue!Owning, Queue!Lost, OwnsSlot
<1>3. Has' = (Has \ A) \cup B
  BY <1>1, <1>2
<1>4. A = {} /\ B = {} => Cardinality(Has)' = Cardinality(Has)
  <2>1. A = {} /\ B = {} => Has' = Has
    BY <1>3
  <2>. QED
    BY <2>1
<1>5. ASSUME NEW t \in Tasks, A = {}, B = {t}, ~OwnsSlot(t)
      PROVE  Cardinality(Has)' = Cardinality(Has) + 1
  <2>1. Has' = Has \cup {t} /\ t \notin Has
    BY <1>1, <1>3, <1>5
  <2>2. Cardinality(Has \cup {t}) = Cardinality(Has) + 1
    BY <1>1, <2>1, FS_AddElement
  <2>. QED
    BY <2>1, <2>2
<1>6. ASSUME NEW t \in Tasks, A = {t}, B = {}, OwnsSlot(t)
      PROVE  Cardinality(Has)' = Cardinality(Has) - 1
  <2>1. Has' = Has \ {t} /\ t \in Has
    BY <1>1, <1>3, <1>6
  <2>2. Cardinality(Has \ {t}) = Cardinality(Has) - 1
    BY <1>1, <2>1, FS_RemoveElement
  <2>. QED
    BY <2>1, <2>2
<1>7. ASSUME NEW t \in Tasks, NEW u \in Tasks, A = {t}, B = {u}, OwnsSlot(t), ~OwnsSlot(u)
      PROVE  Cardinality(Has)' = Cardinality(Has)
  <2>1. Has' = (Has \ {t}) \cup {u} /\ t \in Has /\ u \notin Has \ {t}
    BY <1>1, <1>3, <1>7
  <2>2. IsFiniteSet(Has \ {t}) /\ Cardinality(Has \ {t}) = Cardinality(Has) - 1
    BY <1>1, <2>1, FS_RemoveElement
  <2>3. Cardinality((Has \ {t}) \cup {u}) = Cardinality(Has \ {t}) + 1
    BY <2>1, <2>2, FS_AddElement
  <2>. QED
    BY <1>1, <2>1, <2>2, <2>3
<1>. QED
  BY <1>3, <1>4, <1>5, <1>6, <1>7

-----------------------------------------------------------------------------
(* The lock's queue and the list of waiters. *)

\* The entry of t, if it has one, is gone from the lock's queue.
Popped(t) ==
    /\ lockq' \in Seq(Tasks \X Queue!Ops)
    /\ \A i \in 1 .. Len(lockq') :
          \E j \in 1 .. Len(lockq) : lockq'[i] = lockq[j] /\ lockq[j][1] # t
    /\ \A j \in 1 .. Len(lockq) : lockq[j][1] # t =>
          \E i \in 1 .. Len(lockq') : lockq'[i] = lockq[j]
    /\ \A i, j \in 1 .. Len(lockq') : lockq'[i][1] = lockq'[j][1] => i = j

(* A caller that is not at the lock has no entry in its queue.               *)
LEMMA NothingToPop ==
  ASSUME QueueInv, NEW t \in Tasks, UNCHANGED lockq,
         at[t] \in {"new", "refusing", "queued", "holding"}
  PROVE  Popped(t)
<1>1. /\ lockq \in Seq(Tasks \X Queue!Ops)
      /\ \A i, j \in 1 .. Len(lockq) : lockq[i][1] = lockq[j][1] => i = j
  BY DEF QueueInv, QueueType, EntriesFit
<1>2. ASSUME NEW i \in 1 .. Len(lockq) PROVE lockq[i][1] # t
  <2>1. lockq[i] \in Tasks \X Queue!Ops
    BY <1>1, <1>2, ElementOfSeq
  <2>2. lockq[i][2] \in Queue!Ops
    BY <2>1
  <2>. QED
    BY <1>2, <2>2 DEF QueueInv, EntriesFit, Queue!Ops
<1>. QED
  BY <1>1, <1>2 DEF Popped

(* The lock is given to the first in the queue.                              *)
LEMMA FirstPopped ==
  ASSUME QueueInv, lockq # << >>, lockq' = Tail(lockq)
  PROVE  /\ Popped(lockq[1][1]) /\ Head(lockq) = lockq[1]
         /\ lockq[1] \in Tasks \X Queue!Ops /\ 1 \in 1 .. Len(lockq)
<1>1. lockq \in Seq(Tasks \X Queue!Ops)
  BY DEF QueueInv, QueueType
<1>2. /\ lockq' \in Seq(Tasks \X Queue!Ops) /\ Head(lockq) = lockq[1] /\ 1 \in 1 .. Len(lockq)
      /\ \A j \in 1 .. Len(lockq') : \E k \in 1 .. Len(lockq) : k # 1 /\ lockq'[j] = lockq[k]
      /\ \A k \in 1 .. Len(lockq) : k # 1 => \E j \in 1 .. Len(lockq') : lockq'[j] = lockq[k]
      /\ \A j, k \in 1 .. Len(lockq') : j # k =>
            \E l, m \in 1 .. Len(lockq) : l # m /\ lockq'[j] = lockq[l] /\ lockq'[k] = lockq[m]
  BY <1>1, TailOfList
<1>3. \A i, j \in 1 .. Len(lockq) : lockq[i][1] = lockq[j][1] => i = j
  BY DEF QueueInv, EntriesFit
<1>4. lockq[1] \in Tasks \X Queue!Ops
  BY <1>1, <1>2, ElementOfSeq
<1>5. Popped(lockq[1][1])
  BY <1>2, <1>3 DEF Popped
<1>. QED
  BY <1>2, <1>4, <1>5

(* A caller that is cancelled at the lock leaves its queue.                  *)
LEMMA CancelledPopped ==
  ASSUME QueueInv, NEW i \in 1 .. Len(lockq), lockq' = Queue!RemoveAt(lockq, i)
  PROVE  Popped(lockq[i][1])
<1>1. lockq \in Seq(Tasks \X Queue!Ops)
  BY DEF QueueInv, QueueType
<1>2. \A l, m \in 1 .. Len(lockq) : lockq[l][1] = lockq[m][1] => l = m
  BY DEF QueueInv, EntriesFit
<1>3. lockq' \in Seq(Tasks \X Queue!Ops)
  BY <1>1, RemovedFromList
<1>4. /\ \A j \in 1 .. Len(lockq') :
            /\ From(i, j) \in 1 .. Len(lockq) /\ From(i, j) # i
            /\ lockq'[j] = lockq[From(i, j)] /\ To(i, From(i, j)) = j
      /\ \A k \in 1 .. Len(lockq) :
            k # i => To(i, k) \in 1 .. Len(lockq') /\ lockq'[To(i, k)] = lockq[k]
  BY <1>1, RemovedFromList
<1>5. ASSUME NEW j \in 1 .. Len(lockq')
      PROVE  /\ From(i, j) \in 1 .. Len(lockq)
             /\ lockq'[j] = lockq[From(i, j)] /\ lockq[From(i, j)][1] # lockq[i][1]
  BY <1>2, <1>4, <1>5
<1>6. ASSUME NEW k \in 1 .. Len(lockq), lockq[k][1] # lockq[i][1]
      PROVE  To(i, k) \in 1 .. Len(lockq') /\ lockq'[To(i, k)] = lockq[k]
  BY <1>4, <1>6
<1>7. ASSUME NEW j \in 1 .. Len(lockq'), NEW k \in 1 .. Len(lockq'), lockq'[j][1] = lockq'[k][1]
      PROVE  j = k
  <2>1. From(i, j) = From(i, k)
    <3>1. lockq[From(i, j)][1] = lockq[From(i, k)][1]
      BY <1>4, <1>7
    <3>. QED
      BY <1>2, <1>5, <3>1
  <2>. QED
    BY <1>4, <1>7, <2>1
<1>. QED
  <2>1. \A j \in 1 .. Len(lockq') :
           \E k \in 1 .. Len(lockq) : lockq'[j] = lockq[k] /\ lockq[k][1] # lockq[i][1]
    BY <1>5
  <2>2. \A k \in 1 .. Len(lockq) : lockq[k][1] # lockq[i][1] =>
           \E j \in 1 .. Len(lockq') : lockq'[j] = lockq[k]
    BY <1>6
  <2>. QED
    BY <1>3, <1>7, <2>1, <2>2 DEF Popped

(* When only t moves and its entry is gone, the entries still fit, and the   *)
(* releases of the others are still to come.                                 *)
LEMMA PoppedFits ==
  ASSUME QueueInv, NEW t \in Tasks, Popped(t), \A u \in Tasks : u # t => at'[u] = at[u]
  PROVE  /\ EntriesFit' /\ lockq' \in Seq(Tasks \X Queue!Ops)
         /\ ~\E i \in 1 .. Len(lockq') : lockq'[i] = <<t, "release">>
         /\ \A u \in Tasks : u # t =>
               ((\E i \in 1 .. Len(lockq') : lockq'[i] = <<u, "release">>)
                  <=> \E i \in 1 .. Len(lockq) : lockq[i] = <<u, "release">>)
<1>1. \A i \in 1 .. Len(lockq) : lockq[i] \in Tasks \X Queue!Ops
  BY ElementOfSeq DEF QueueInv, QueueType
<1>2. ASSUME NEW i \in 1 .. Len(lockq')
      PROVE  /\ lockq'[i][2] = "enter" => at'[lockq'[i][1]] = "entering"
             /\ lockq'[i][2] = "withdraw" => at'[lockq'[i][1]] \in {"timedout", "withdrawing"}
             /\ lockq'[i][2] = "release" => at'[lockq'[i][1]] = "left"
             /\ lockq'[i][1] # t
  <2>1. PICK j \in 1 .. Len(lockq) : lockq'[i] = lockq[j] /\ lockq[j][1] # t
    BY <1>2 DEF Popped
  <2>2. at'[lockq[j][1]] = at[lockq[j][1]]
    BY <1>1, <2>1
  <2>. QED
    BY <2>1, <2>2 DEF QueueInv, EntriesFit
<1>3. EntriesFit'
  BY <1>2 DEF EntriesFit, Popped
<1>4. ~\E i \in 1 .. Len(lockq') : lockq'[i] = <<t, "release">>
  BY <1>2
<1>5. ASSUME NEW u \in Tasks, u # t
      PROVE  (\E i \in 1 .. Len(lockq') : lockq'[i] = <<u, "release">>)
                <=> \E i \in 1 .. Len(lockq) : lockq[i] = <<u, "release">>
  <2>1. ASSUME NEW i \in 1 .. Len(lockq'), lockq'[i] = <<u, "release">>
        PROVE  \E j \in 1 .. Len(lockq) : lockq[j] = <<u, "release">>
    <3>1. PICK j \in 1 .. Len(lockq) : lockq'[i] = lockq[j]
      BY <2>1 DEF Popped
    <3>. QED
      BY <2>1, <3>1
  <2>2. ASSUME NEW j \in 1 .. Len(lockq), lockq[j] = <<u, "release">>
        PROVE  \E i \in 1 .. Len(lockq') : lockq'[i] = <<u, "release">>
    <3>1. lockq[j][1] # t
      BY <1>5, <2>2
    <3>2. PICK i \in 1 .. Len(lockq') : lockq'[i] = lockq[j]
      BY <2>2, <3>1 DEF Popped
    <3>. QED
      BY <2>2, <3>2
  <2>. QED
    BY <2>1, <2>2
<1>. QED
  BY <1>3, <1>4, <1>5 DEF Popped

(* What the others own is the same, unless their waiter changes.             *)
LEMMA OthersOwn ==
  ASSUME QueueInv, NEW t \in Tasks, Popped(t), \A u \in Tasks : u # t => at'[u] = at[u]
  PROVE  /\ \A u \in Tasks : u # t /\ waiter'[u] = waiter[u] => (OwnsSlot(u)' <=> OwnsSlot(u))
         /\ OwnsSlot(t)' <=>
               \/ at'[t] = "holding"
               \/ at'[t] \in {"queued", "timedout", "withdrawing", "cancelled"} /\ waiter'[t] = "granted"
<1>1. /\ ~\E i \in 1 .. Len(lockq') : lockq'[i] = <<t, "release">>
      /\ \A u \in Tasks : u # t =>
            ((\E i \in 1 .. Len(lockq') : lockq'[i] = <<u, "release">>)
               <=> \E i \in 1 .. Len(lockq) : lockq[i] = <<u, "release">>)
  BY PoppedFits
<1>. QED
  BY <1>1 DEF OwnsSlot

(* What a caller owns before its release, by where it is.                    *)
LEMMA OwnsByPlace ==
  ASSUME QueueInv, NEW t \in Tasks, at[t] # "left"
  PROVE  OwnsSlot(t) <=>
            \/ at[t] = "holding"
            \/ at[t] \in {"queued", "timedout", "withdrawing", "cancelled"} /\ waiter[t] = "granted"
<1>1. ASSUME NEW i \in 1 .. Len(lockq) PROVE lockq[i] # <<t, "release">>
  BY <1>1 DEF QueueInv, EntriesFit
<1>. QED
  BY <1>1 DEF OwnsSlot

(* The first waiter is at the head of the list, and owns nothing yet.        *)
LEMMA FirstWaiter ==
  ASSUME QueueInv, waiters # << >>
  PROVE  /\ Head(waiters) \in Tasks /\ waiter[Head(waiters)] = "waiting"
         /\ at[Head(waiters)] \in {"queued", "timedout", "withdrawing", "cancelled"}
         /\ ~OwnsSlot(Head(waiters))
         /\ sem = 0
<1>1. waiters \in Seq(Tasks)
  BY DEF QueueInv, QueueType
<1>2. 1 \in 1 .. Len(waiters) /\ Head(waiters) = waiters[1]
  BY <1>1, TailOfList
<1>3. waiters[1] \in Tasks
  BY <1>1, <1>2, ElementOfSeq
<1>4. waiter[waiters[1]] = "waiting"
  BY <1>2 DEF QueueInv, WaitersWait
<1>5. at[waiters[1]] \in {"queued", "timedout", "withdrawing", "cancelled"}
  BY <1>3, <1>4 DEF QueueInv, QueueType, WaiterFits, Queue!Places
<1>6. sem = 0
  BY DEF QueueInv, QueueType, Queue!NoIdleSlot
<1>. QED
  BY <1>2, <1>3, <1>4, <1>5, <1>6, OwnsByPlace

-----------------------------------------------------------------------------
(* The list of waiters. *)

(* The first waiter gets the slot: the list still holds those who wait.      *)
LEMMA FirstLeaves ==
  ASSUME Queue!QueueAssumption, QueueInv, waiters # << >>, waiters' = Tail(waiters),
         waiter' \in [Tasks -> {"none", "waiting", "granted", "cancelled"}],
         waiter'[Head(waiters)] = "granted",
         \A u \in Tasks : u # Head(waiters) =>
            (waiter'[u] = "waiting" <=> waiter[u] = "waiting")
  PROVE  WaitersWait' /\ waiters' \in Seq(Tasks) /\ Len(waiters') <= MaxQueue
<1>1. /\ waiters \in Seq(Tasks) /\ Len(waiters) <= MaxQueue
      /\ \A i \in 1 .. Len(waiters) : waiter[waiters[i]] = "waiting"
      /\ \A i, j \in 1 .. Len(waiters) : waiters[i] = waiters[j] => i = j
      /\ \A u \in Tasks : waiter[u] = "waiting" => \E i \in 1 .. Len(waiters) : waiters[i] = u
  BY DEF QueueInv, QueueType, WaitersWait
<1>2. /\ waiters' \in Seq(Tasks) /\ Len(waiters') = Len(waiters) - 1
      /\ \A j \in 1 .. Len(waiters') : waiters'[j] = waiters[j + 1]
      /\ Len(waiters) \in Nat /\ Len(waiters) >= 1 /\ Head(waiters) = waiters[1]
  <2>1. Len(waiters) \in Nat /\ Len(waiters) >= 1
    BY <1>1, LenProperties, EmptySeq
  <2>2. Head(waiters) = waiters[1]
    OBVIOUS
  <2>. QED
    BY <1>1, <2>1, <2>2, HeadTailProperties
<1>3. \A i \in 1 .. Len(waiters) : waiters[i] \in Tasks
  BY <1>1, ElementOfSeq
<1>4. ASSUME NEW i \in 1 .. Len(waiters') PROVE waiter'[waiters'[i]] = "waiting"
  <2>1. i + 1 \in 1 .. Len(waiters) /\ i + 1 # 1 /\ 1 \in 1 .. Len(waiters)
    BY <1>2, <1>4
  <2>2. waiters'[i] = waiters[i + 1] /\ waiters[i + 1] # waiters[1]
    BY <1>1, <1>2, <1>4, <2>1
  <2>. QED
    BY <1>1, <1>2, <1>3, <2>1, <2>2
<1>5. ASSUME NEW i \in 1 .. Len(waiters'), NEW j \in 1 .. Len(waiters'),
             waiters'[i] = waiters'[j]
      PROVE  i = j
  <2>1. i + 1 \in 1 .. Len(waiters) /\ j + 1 \in 1 .. Len(waiters)
    BY <1>2, <1>5
  <2>2. waiters[i + 1] = waiters[j + 1]
    BY <1>2, <1>5
  <2>3. i + 1 = j + 1
    BY <1>1, <2>1, <2>2
  <2>. QED
    BY <2>3
<1>6. ASSUME NEW u \in Tasks, waiter'[u] = "waiting"
      PROVE  \E i \in 1 .. Len(waiters') : waiters'[i] = u
  <2>1. u # waiters[1] /\ waiter[u] = "waiting"
    BY <1>2, <1>6
  <2>2. PICK k \in 1 .. Len(waiters) : waiters[k] = u
    BY <1>1, <2>1
  <2>3. k - 1 \in 1 .. Len(waiters') /\ (k - 1) + 1 = k
    BY <1>2, <2>1, <2>2
  <2>. QED
    BY <1>2, <2>2, <2>3
<1>7. Len(waiters') <= MaxQueue
  BY <1>1, <1>2 DEF Queue!QueueAssumption
<1>. QED
  BY <1>1, <1>2, <1>4, <1>5, <1>6, <1>7 DEF WaitersWait

(* A waiter that gives up is taken out of the list.                          *)
LEMMA OneLeaves ==
  ASSUME Queue!QueueAssumption, QueueInv, NEW i \in 1 .. Len(waiters), waiters' = Queue!RemoveAt(waiters, i)
  PROVE  waiter' = [waiter EXCEPT ![waiters[i]] = "cancelled"] =>
         WaitersWait' /\ waiters' \in Seq(Tasks) /\ Len(waiters') <= MaxQueue
<1>1. /\ waiters \in Seq(Tasks) /\ Len(waiters) <= MaxQueue
      /\ waiter \in [Tasks -> {"none", "waiting", "granted", "cancelled"}]
      /\ \A k \in 1 .. Len(waiters) : waiter[waiters[k]] = "waiting"
      /\ \A k, j \in 1 .. Len(waiters) : waiters[k] = waiters[j] => k = j
      /\ \A u \in Tasks : waiter[u] = "waiting" => \E k \in 1 .. Len(waiters) : waiters[k] = u
  BY DEF QueueInv, QueueType, WaitersWait
<1>2. /\ waiters' \in Seq(Tasks) /\ Len(waiters') = Len(waiters) - 1
      /\ \A j \in 1 .. Len(waiters') :
            /\ From(i, j) \in 1 .. Len(waiters) /\ From(i, j) # i
            /\ waiters'[j] = waiters[From(i, j)] /\ To(i, From(i, j)) = j
      /\ \A k \in 1 .. Len(waiters) :
            k # i => To(i, k) \in 1 .. Len(waiters') /\ waiters'[To(i, k)] = waiters[k]
  <2>1. waiters \in Seq(Tasks)
    BY <1>1
  <2>2. waiters' \in Seq(Tasks) /\ Len(waiters') = Len(waiters) - 1
    BY <2>1, RemovedFromList
  <2>3. \A j \in 1 .. Len(waiters') :
            /\ From(i, j) \in 1 .. Len(waiters) /\ From(i, j) # i
            /\ waiters'[j] = waiters[From(i, j)] /\ To(i, From(i, j)) = j
    BY <2>1, RemovedFromList
  <2>4. \A k \in 1 .. Len(waiters) :
            k # i => To(i, k) \in 1 .. Len(waiters') /\ waiters'[To(i, k)] = waiters[k]
    BY <2>1, RemovedFromList
  <2>. QED
    BY <2>2, <2>3, <2>4
<1>h. HAVE waiter' = [waiter EXCEPT ![waiters[i]] = "cancelled"]
<1>3. \A k \in 1 .. Len(waiters) : waiters[k] \in Tasks
  BY <1>1, ElementOfSeq
<1>4. ASSUME NEW j \in 1 .. Len(waiters') PROVE waiter'[waiters'[j]] = "waiting"
  <2>1. waiters'[j] = waiters[From(i, j)] /\ waiters[From(i, j)] # waiters[i]
    BY <1>1, <1>2, <1>4
  <2>. QED
    BY <1>1, <1>2, <1>3, <1>4, <1>h, <2>1
<1>5. ASSUME NEW k \in 1 .. Len(waiters'), NEW j \in 1 .. Len(waiters'),
             waiters'[k] = waiters'[j]
      PROVE  k = j
  <2>1. From(i, k) = From(i, j)
    <3>1. From(i, k) \in 1 .. Len(waiters) /\ waiters'[k] = waiters[From(i, k)]
      BY <1>2
    <3>2. From(i, j) \in 1 .. Len(waiters) /\ waiters'[j] = waiters[From(i, j)]
      BY <1>2
    <3>3. waiters[From(i, k)] = waiters[From(i, j)]
      BY <1>5, <3>1, <3>2
    <3>. QED
      BY <1>1, <3>1, <3>2, <3>3
  <2>. QED
    BY <1>2, <1>5, <2>1
<1>6. ASSUME NEW u \in Tasks, waiter'[u] = "waiting"
      PROVE  \E k \in 1 .. Len(waiters') : waiters'[k] = u
  <2>1. u # waiters[i] /\ waiter[u] = "waiting"
    BY <1>1, <1>3, <1>6, <1>h
  <2>2. PICK k \in 1 .. Len(waiters) : waiters[k] = u
    BY <1>1, <2>1
  <2>. QED
    BY <1>2, <2>1, <2>2
<1>7. Len(waiters') <= MaxQueue
  BY <1>1, <1>2, LenProperties DEF Queue!QueueAssumption
<1>. QED
  BY <1>2, <1>4, <1>5, <1>6, <1>7 DEF WaitersWait

(* A caller without a slot goes to the end of the list.                      *)
LEMMA OneJoins ==
  ASSUME Queue!QueueAssumption, QueueInv, NEW t \in Tasks, waiter[t] # "waiting", Len(waiters) < MaxQueue,
         waiters' = Append(waiters, t), waiter' = [waiter EXCEPT ![t] = "waiting"]
  PROVE  WaitersWait' /\ waiters' \in Seq(Tasks) /\ Len(waiters') <= MaxQueue
<1>1. /\ waiters \in Seq(Tasks) /\ Len(waiters) \in Nat
      /\ waiter \in [Tasks -> {"none", "waiting", "granted", "cancelled"}]
      /\ \A k \in 1 .. Len(waiters) : waiter[waiters[k]] = "waiting"
      /\ \A k, j \in 1 .. Len(waiters) : waiters[k] = waiters[j] => k = j
      /\ \A u \in Tasks : waiter[u] = "waiting" => \E k \in 1 .. Len(waiters) : waiters[k] = u
  BY LenProperties DEF QueueInv, QueueType, WaitersWait
<1>2. /\ waiters' \in Seq(Tasks) /\ Len(waiters') = Len(waiters) + 1
      /\ \A j \in 1 .. Len(waiters) : waiters'[j] = waiters[j]
      /\ waiters'[Len(waiters) + 1] = t
  BY <1>1, AppendProperties
<1>3. \A k \in 1 .. Len(waiters) : waiters[k] \in Tasks /\ waiters[k] # t
  BY <1>1, ElementOfSeq
<1>4. ASSUME NEW j \in 1 .. Len(waiters') PROVE waiter'[waiters'[j]] = "waiting"
  <2>1. CASE j \in 1 .. Len(waiters)
    BY <1>1, <1>2, <1>3, <2>1
  <2>2. CASE j = Len(waiters) + 1
    BY <1>1, <1>2, <2>2
  <2>. QED
    BY <1>1, <1>2, <1>4, <2>1, <2>2
<1>5. ASSUME NEW k \in 1 .. Len(waiters'), NEW j \in 1 .. Len(waiters'),
             waiters'[k] = waiters'[j]
      PROVE  k = j
  <2>1. CASE k \in 1 .. Len(waiters) /\ j \in 1 .. Len(waiters)
    BY <1>1, <1>2, <1>5, <2>1
  <2>2. CASE k \in 1 .. Len(waiters) /\ j = Len(waiters) + 1
    BY <1>2, <1>3, <1>5, <2>2
  <2>3. CASE k = Len(waiters) + 1 /\ j \in 1 .. Len(waiters)
    BY <1>2, <1>3, <1>5, <2>3
  <2>. QED
    BY <1>1, <1>2, <1>5, <2>1, <2>2, <2>3
<1>6. ASSUME NEW u \in Tasks, waiter'[u] = "waiting"
      PROVE  \E k \in 1 .. Len(waiters') : waiters'[k] = u
  <2>1. CASE u = t
    <3>1. Len(waiters) + 1 \in 1 .. Len(waiters')
      BY <1>1, <1>2
    <3>. QED
      BY <1>2, <2>1, <3>1
  <2>2. CASE u # t
    <3>1. PICK k \in 1 .. Len(waiters) : waiters[k] = u
      BY <1>1, <1>6, <2>2
    <3>2. k \in 1 .. Len(waiters') /\ waiters'[k] = u
      BY <1>1, <1>2, <3>1
    <3>. QED
      BY <3>2
  <2>. QED
    BY <2>1, <2>2
<1>7. Len(waiters') <= MaxQueue
  BY <1>1, <1>2 DEF Queue!QueueAssumption
<1>. QED
  BY <1>2, <1>4, <1>5, <1>6, <1>7 DEF WaitersWait

-----------------------------------------------------------------------------
(* What is done under the lock. *)

(* The locked part of _acquire keeps the slots.                              *)
LEMMA EnterKeeps ==
  ASSUME Queue!QueueAssumption, QueueInv, NEW t \in Tasks, at[t] \in {"new", "entering"},
         Popped(t), Queue!Enter(t)
  PROVE  QueueInv'
<1>0. /\ QueueType /\ WaiterFits /\ WaitersWait /\ Queue!NoIdleSlot /\ Len(waiters) <= MaxQueue
      /\ sem + Cardinality(Has) = Slots
  BY DEF QueueInv
<1>1. waiter[t] = "none" /\ ~OwnsSlot(t)
  BY <1>0, OwnsByPlace DEF WaiterFits
<1>2. \A u \in Tasks : u # t => at'[u] = at[u] /\ waiter'[u] = waiter[u]
  BY <1>0 DEF Queue!Enter, QueueType
<1>3. /\ EntriesFit' /\ lockq' \in Seq(Tasks \X Queue!Ops)
      /\ \A u \in Tasks : u # t => (OwnsSlot(u)' <=> OwnsSlot(u))
      /\ OwnsSlot(t)' <=>
            \/ at'[t] = "holding"
            \/ at'[t] \in {"queued", "timedout", "withdrawing", "cancelled"} /\ waiter'[t] = "granted"
  BY <1>2, PoppedFits, OthersOwn
<1>4. CASE /\ sem > 0 /\ sem' = sem - 1 /\ at' = [at EXCEPT ![t] = "holding"]
           /\ UNCHANGED <<waiters, waiter, lock>>
  <2>1. QueueType' /\ at'[t] = "holding"
    BY <1>0, <1>3, <1>4 DEF QueueType, Queue!Places
  <2>2. Cardinality(Has)' = Cardinality(Has) + 1 /\ Cardinality(Has) \in Nat
    <3> DEFINE A == {}
               B == {t}
    <3>1. \A u \in Tasks : OwnsSlot(u)' <=> (OwnsSlot(u) /\ u \notin A) \/ u \in B
      BY <1>3, <2>1
    <3>2. A \in SUBSET Tasks /\ B \in SUBSET Tasks /\ A = {} /\ B = {t}
      OBVIOUS
    <3> HIDE DEF A, B
    <3>. QED
      BY <1>0, <1>1, <2>1, <3>1, <3>2, OwnersChange, OwnersAreFinite
  <2>3. WaiterFits' /\ WaitersWait' /\ Queue!NoIdleSlot'
    BY <1>0, <1>1, <1>2, <1>4, <2>1 DEF QueueType, WaiterFits, WaitersWait, Queue!NoIdleSlot
  <2>4. sem' + Cardinality(Has)' = Slots
    BY <1>0, <1>4, <2>2 DEF QueueType
  <2>. QED
    BY <1>0, <1>3, <1>4, <2>1, <2>3, <2>4 DEF QueueInv
<1>5. CASE /\ lock' = t /\ at' = [at EXCEPT ![t] = "refusing"]
           /\ UNCHANGED <<sem, waiters, waiter>>
  <2>1. QueueType' /\ at'[t] = "refusing"
    BY <1>0, <1>3, <1>5 DEF QueueType, Queue!Places
  <2>2. Cardinality(Has)' = Cardinality(Has)
    <3> DEFINE A == {}
               B == {}
    <3>1. \A u \in Tasks : OwnsSlot(u)' <=> (OwnsSlot(u) /\ u \notin A) \/ u \in B
      BY <1>1, <1>3, <2>1
    <3>2. A \in SUBSET Tasks /\ B \in SUBSET Tasks /\ A = {} /\ B = {}
      OBVIOUS
    <3> HIDE DEF A, B
    <3>. QED
      BY <1>0, <2>1, <3>1, <3>2, OwnersChange
  <2>3. WaiterFits'
    BY <1>0, <1>1, <1>2, <1>5, <2>1 DEF WaiterFits
  <2>4. WaitersWait' /\ Queue!NoIdleSlot'
    BY <1>0, <1>5 DEF WaitersWait, Queue!NoIdleSlot
  <2>. QED
    BY <1>0, <1>3, <1>5, <2>1, <2>2, <2>3, <2>4 DEF QueueInv
<1>6. CASE /\ sem = 0 /\ Len(waiters) < MaxQueue /\ waiters' = Append(waiters, t)
           /\ waiter' = [waiter EXCEPT ![t] = "waiting"]
           /\ at' = [at EXCEPT ![t] = "queued"]
           /\ UNCHANGED <<sem, lock>>
  <2>1. WaitersWait' /\ waiters' \in Seq(Tasks) /\ Len(waiters') <= MaxQueue
    BY <1>1, <1>6, OneJoins
  <2>2. QueueType' /\ at'[t] = "queued" /\ waiter'[t] = "waiting"
    BY <1>0, <1>3, <1>6, <2>1 DEF QueueType, Queue!Places
  <2>3. Cardinality(Has)' = Cardinality(Has)
    <3> DEFINE A == {}
               B == {}
    <3>1. \A u \in Tasks : OwnsSlot(u)' <=> (OwnsSlot(u) /\ u \notin A) \/ u \in B
      BY <1>1, <1>3, <2>2
    <3>2. A \in SUBSET Tasks /\ B \in SUBSET Tasks /\ A = {} /\ B = {}
      OBVIOUS
    <3> HIDE DEF A, B
    <3>. QED
      BY <1>0, <2>2, <3>1, <3>2, OwnersChange
  <2>4. WaiterFits'
    BY <1>0, <1>2, <2>2 DEF WaiterFits
  <2>5. Queue!NoIdleSlot'
    BY <1>6 DEF Queue!NoIdleSlot
  <2>. QED
    BY <1>0, <1>3, <1>6, <2>1, <2>2, <2>3, <2>4, <2>5 DEF QueueInv
<1>. QED
  BY <1>4, <1>5, <1>6 DEF Queue!Enter

(* A slot comes back: to the first waiter, or to the semaphore.              *)
LEMMA HandoffKeeps ==
  ASSUME Queue!QueueAssumption, QueueInv, NEW t \in Tasks, Popped(t), Queue!Handoff, UNCHANGED lock,
         at' = [at EXCEPT ![t] = "left"],
         OwnsSlot(t), at[t] \in {"holding", "left"}
  PROVE  QueueInv'
<1>0. /\ QueueType /\ WaiterFits /\ WaitersWait /\ Queue!NoIdleSlot /\ Len(waiters) <= MaxQueue
      /\ sem + Cardinality(Has) = Slots
  BY DEF QueueInv
<1>1. /\ waiter[t] # "waiting" /\ at'[t] = "left" /\ at' \in [Tasks -> Queue!Places]
      /\ \A u \in Tasks : u # t => at'[u] = at[u]
  BY <1>0 DEF QueueType, WaiterFits, Queue!Places
<1>2. /\ EntriesFit' /\ lockq' \in Seq(Tasks \X Queue!Ops) /\ ~OwnsSlot(t)'
      /\ \A u \in Tasks : u # t /\ waiter'[u] = waiter[u] => (OwnsSlot(u)' <=> OwnsSlot(u))
  BY <1>1, PoppedFits, OthersOwn
<1>3. CASE /\ waiters # << >> /\ waiter' = [waiter EXCEPT ![Head(waiters)] = "granted"]
           /\ waiters' = Tail(waiters) /\ UNCHANGED sem
  <2>1. PICK first \in Tasks :
           /\ first = Head(waiters) /\ waiter[first] = "waiting" /\ ~OwnsSlot(first)
           /\ at[first] \in {"queued", "timedout", "withdrawing", "cancelled"} /\ sem = 0
    BY <1>3, FirstWaiter
  <2>2. /\ waiter'[first] = "granted" /\ first # t
        /\ waiter' \in [Tasks -> {"none", "waiting", "granted", "cancelled"}]
        /\ \A u \in Tasks : u # first => waiter'[u] = waiter[u]
    BY <1>0, <1>1, <1>3, <2>1 DEF QueueType
  <2>3. WaitersWait' /\ waiters' \in Seq(Tasks) /\ Len(waiters') <= MaxQueue
    BY <1>3, <2>1, <2>2, FirstLeaves
  <2>4. QueueType'
    BY <1>0, <1>1, <1>2, <1>3, <2>2, <2>3 DEF QueueType
  <2>5. OwnsSlot(first)' /\ at'[first] = at[first]
    BY <1>1, <2>1, <2>2 DEF OwnsSlot
  <2>6. Cardinality(Has)' = Cardinality(Has)
    <3> DEFINE A == {t}
               B == {first}
    <3>1. \A u \in Tasks : OwnsSlot(u)' <=> (OwnsSlot(u) /\ u \notin A) \/ u \in B
      BY <1>2, <2>2, <2>5
    <3>2. A \in SUBSET Tasks /\ B \in SUBSET Tasks /\ A = {t} /\ B = {first}
      BY <2>1
    <3> HIDE DEF A, B
    <3>. QED
      BY <1>0, <2>1, <2>4, <3>1, <3>2, OwnersChange
  <2>7. WaiterFits'
    BY <1>0, <1>1, <2>1, <2>2, <2>5 DEF WaiterFits
  <2>8. Queue!NoIdleSlot'
    BY <1>3, <2>1 DEF Queue!NoIdleSlot
  <2>. QED
    BY <1>0, <1>2, <1>3, <2>3, <2>4, <2>6, <2>7, <2>8 DEF QueueInv
<1>4. CASE waiters = << >> /\ sem' = sem + 1 /\ UNCHANGED <<waiters, waiter>>
  <2>1. QueueType'
    BY <1>0, <1>1, <1>2, <1>4 DEF QueueType
  <2>2. Cardinality(Has)' = Cardinality(Has) - 1 /\ Cardinality(Has) \in Nat
    <3> DEFINE A == {t}
               B == {}
    <3>1. \A u \in Tasks : OwnsSlot(u)' <=> (OwnsSlot(u) /\ u \notin A) \/ u \in B
      BY <1>2, <1>4
    <3>2. A \in SUBSET Tasks /\ B \in SUBSET Tasks /\ A = {t} /\ B = {}
      OBVIOUS
    <3> HIDE DEF A, B
    <3>. QED
      BY <1>0, <2>1, <3>1, <3>2, OwnersChange, OwnersAreFinite
  <2>3. WaiterFits' /\ WaitersWait' /\ Queue!NoIdleSlot'
    BY <1>0, <1>1, <1>4 DEF WaiterFits, WaitersWait, Queue!NoIdleSlot
  <2>. QED
    BY <1>0, <1>2, <1>4, <2>1, <2>2, <2>3 DEF QueueInv, QueueType
<1>. QED
  BY <1>3, <1>4 DEF Queue!Handoff

(* _withdraw: a waiter leaves the list, or passes on the slot it was granted. *)
LEMMA WithdrawKeeps ==
  ASSUME Queue!QueueAssumption, QueueInv, NEW t \in Tasks,
         at[t] \in {"queued", "timedout", "withdrawing"}, Popped(t), Queue!Withdraw(t)
  PROVE  QueueInv'
<1>0. /\ QueueType /\ WaiterFits /\ WaitersWait /\ Queue!NoIdleSlot /\ Len(waiters) <= MaxQueue
      /\ sem + Cardinality(Has) = Slots
  BY DEF QueueInv
<1>1. /\ at' = [at EXCEPT ![t] = "left"] /\ UNCHANGED lock
      /\ at'[t] = "left" /\ at' \in [Tasks -> Queue!Places]
      /\ \A u \in Tasks : u # t => at'[u] = at[u]
  BY <1>0 DEF QueueType, Queue!Places, Queue!Withdraw
<1>2. /\ EntriesFit' /\ lockq' \in Seq(Tasks \X Queue!Ops) /\ ~OwnsSlot(t)'
      /\ \A u \in Tasks : u # t /\ waiter'[u] = waiter[u] => (OwnsSlot(u)' <=> OwnsSlot(u))
  BY <1>1, PoppedFits, OthersOwn
<1>3. OwnsSlot(t) <=> waiter[t] = "granted"
  BY OwnsByPlace
<1>4. ASSUME waiter[t] = "waiting", waiter' = [waiter EXCEPT ![t] = "cancelled"],
             \E i \in DOMAIN waiters : waiters[i] = t /\ waiters' = Queue!RemoveAt(waiters, i),
             UNCHANGED sem
      PROVE  QueueInv'
  <2>1. PICK i \in 1 .. Len(waiters) : waiters[i] = t /\ waiters' = Queue!RemoveAt(waiters, i)
    BY <1>0, <1>4, LenProperties DEF QueueType
  <2>2. WaitersWait' /\ waiters' \in Seq(Tasks) /\ Len(waiters') <= MaxQueue
    BY <1>4, <2>1, OneLeaves
  <2>3. QueueType' /\ waiter'[t] = "cancelled" /\ \A u \in Tasks : u # t => waiter'[u] = waiter[u]
    BY <1>0, <1>1, <1>2, <1>4, <2>2 DEF QueueType
  <2>4. Cardinality(Has)' = Cardinality(Has)
    <3> DEFINE A == {}
               B == {}
    <3>1. \A u \in Tasks : OwnsSlot(u)' <=> (OwnsSlot(u) /\ u \notin A) \/ u \in B
      BY <1>2, <1>3, <1>4, <2>3
    <3>2. A \in SUBSET Tasks /\ B \in SUBSET Tasks /\ A = {} /\ B = {}
      OBVIOUS
    <3> HIDE DEF A, B
    <3>. QED
      BY <1>0, <2>3, <3>1, <3>2, OwnersChange
  <2>5. WaiterFits'
    BY <1>0, <1>1, <2>3 DEF WaiterFits
  <2>6. waiters # << >>
    BY <1>0, <2>1, EmptySeq DEF QueueType
  <2>7. Queue!NoIdleSlot'
    BY <1>0, <1>4, <2>6 DEF Queue!NoIdleSlot
  <2>. QED
    BY <1>0, <1>2, <1>4, <2>2, <2>3, <2>4, <2>5, <2>7 DEF QueueInv
<1>5. ASSUME waiter[t] = "granted", waiters # << >>, waiters' = Tail(waiters),
             waiter' = [waiter EXCEPT ![t] = "cancelled", ![Head(waiters)] = "granted"],
             UNCHANGED sem
      PROVE  QueueInv'
  <2>1. PICK first \in Tasks :
           /\ first = Head(waiters) /\ waiter[first] = "waiting" /\ ~OwnsSlot(first)
           /\ at[first] \in {"queued", "timedout", "withdrawing", "cancelled"} /\ sem = 0
    BY <1>5, FirstWaiter
  <2>2. /\ waiter'[first] = "granted" /\ first # t /\ waiter'[t] = "cancelled"
        /\ waiter' \in [Tasks -> {"none", "waiting", "granted", "cancelled"}]
        /\ \A u \in Tasks : u # first /\ u # t => waiter'[u] = waiter[u]
    BY <1>0, <1>5, <2>1 DEF QueueType
  <2>3. WaitersWait' /\ waiters' \in Seq(Tasks) /\ Len(waiters') <= MaxQueue
    <3>1. \A u \in Tasks : u # Head(waiters) => (waiter'[u] = "waiting" <=> waiter[u] = "waiting")
      BY <1>5, <2>1, <2>2
    <3>. QED
      BY <1>5, <2>1, <2>2, <3>1, FirstLeaves
  <2>4. QueueType'
    BY <1>0, <1>1, <1>2, <1>5, <2>2, <2>3 DEF QueueType
  <2>5. OwnsSlot(first)' /\ at'[first] = at[first]
    BY <1>1, <2>1, <2>2 DEF OwnsSlot
  <2>6. Cardinality(Has)' = Cardinality(Has)
    <3> DEFINE A == {t}
               B == {first}
    <3>1. \A u \in Tasks : OwnsSlot(u)' <=> (OwnsSlot(u) /\ u \notin A) \/ u \in B
      BY <1>2, <2>2, <2>5
    <3>2. A \in SUBSET Tasks /\ B \in SUBSET Tasks /\ A = {t} /\ B = {first}
      BY <2>1
    <3> HIDE DEF A, B
    <3>. QED
      BY <1>0, <1>3, <1>5, <2>1, <2>4, <3>1, <3>2, OwnersChange
  <2>7. WaiterFits'
    BY <1>0, <1>1, <2>1, <2>2, <2>5 DEF WaiterFits
  <2>8. Queue!NoIdleSlot'
    BY <1>5, <2>1 DEF Queue!NoIdleSlot
  <2>. QED
    BY <1>0, <1>2, <1>5, <2>3, <2>4, <2>6, <2>7, <2>8 DEF QueueInv
<1>6. ASSUME waiter[t] = "granted", waiters = << >>, sem' = sem + 1,
             waiter' = [waiter EXCEPT ![t] = "cancelled"], UNCHANGED waiters
      PROVE  QueueInv'
  <2>1. QueueType' /\ waiter'[t] = "cancelled" /\ \A u \in Tasks : u # t => waiter'[u] = waiter[u]
    BY <1>0, <1>1, <1>2, <1>6 DEF QueueType
  <2>2. Cardinality(Has)' = Cardinality(Has) - 1 /\ Cardinality(Has) \in Nat
    <3> DEFINE A == {t}
               B == {}
    <3>1. \A u \in Tasks : OwnsSlot(u)' <=> (OwnsSlot(u) /\ u \notin A) \/ u \in B
      BY <1>2, <2>1
    <3>2. A \in SUBSET Tasks /\ B \in SUBSET Tasks /\ A = {t} /\ B = {}
      OBVIOUS
    <3> HIDE DEF A, B
    <3>. QED
      BY <1>0, <1>3, <1>6, <2>1, <3>1, <3>2, OwnersChange, OwnersAreFinite
  <2>3. sem' + Cardinality(Has)' = Slots
    BY <1>0, <1>6, <2>2 DEF QueueType
  <2>4. WaiterFits' /\ Queue!NoIdleSlot'
    BY <1>0, <1>1, <1>6, <2>1 DEF WaiterFits, Queue!NoIdleSlot
  <2>5. WaitersWait'
    <3>1. Len(waiters) = 0
      BY <1>6, EmptySeq
    <3>2. \A u \in Tasks : waiter[u] # "waiting"
      BY <1>0, <3>1 DEF WaitersWait
    <3>. QED
      BY <1>6, <2>1, <3>1, <3>2 DEF WaitersWait
  <2>. QED
    BY <1>0, <1>2, <1>6, <2>1, <2>3, <2>4, <2>5 DEF QueueInv
<1>. QED
  BY <1>4, <1>5, <1>6 DEF Queue!Withdraw

(* An operation under the lock keeps the slots.                              *)
LEMMA LockedKeeps ==
  ASSUME Queue!QueueAssumption, QueueInv, NEW t \in Tasks, NEW op \in Queue!Ops, Popped(t), Queue!Locked(t, op),
         op = "enter" => at[t] \in {"new", "entering"},
         op = "withdraw" => at[t] \in {"queued", "timedout", "withdrawing"},
         op = "release" => at[t] = "left" /\ OwnsSlot(t)
  PROVE  QueueInv'
<1>1. CASE op = "enter"
  BY <1>1, EnterKeeps DEF Queue!Locked
<1>2. CASE op = "withdraw"
  BY <1>2, WithdrawKeeps DEF Queue!Locked
<1>3. CASE op = "release"
  <2>1. Queue!Handoff /\ UNCHANGED <<at, lock>>
    BY <1>3 DEF Queue!Locked
  <2>2. at' = [at EXCEPT ![t] = "left"]
    BY <1>3, <2>1 DEF QueueInv, QueueType
  <2>. QED
    BY <1>3, <2>1, <2>2, HandoffKeeps
<1>. QED
  BY <1>1, <1>2, <1>3 DEF Queue!Ops

-----------------------------------------------------------------------------
(* Steps of a caller. *)

(* A step that moves one caller, and no waiter or slot, keeps the slots.     *)
LEMMA MoveKeeps ==
  ASSUME Queue!QueueAssumption, QueueInv, QueueType', EntriesFit', NEW t \in Tasks,
         UNCHANGED <<sem, waiters, waiter>>, NEW p, at' = [at EXCEPT ![t] = p],
         p \in {"new", "entering", "refusing"} => waiter[t] = "none",
         p = "holding" => waiter[t] \in {"none", "granted"},
         p \in {"queued", "timedout", "withdrawing"} => waiter[t] \in {"waiting", "granted"},
         p = "left" => waiter[t] # "waiting",
         \A u \in Tasks : OwnsSlot(u)' <=> OwnsSlot(u)
  PROVE  QueueInv'
<1>0. /\ QueueType /\ WaiterFits /\ WaitersWait /\ Queue!NoIdleSlot /\ Len(waiters) <= MaxQueue
      /\ sem + Cardinality(Has) = Slots
  BY DEF QueueInv
<1>1. at'[t] = p /\ \A u \in Tasks : u # t => at'[u] = at[u]
  BY <1>0 DEF QueueType
<1>2. Cardinality(Has)' = Cardinality(Has)
  <2> DEFINE A == {}
             B == {}
  <2>1. \A u \in Tasks : OwnsSlot(u)' <=> (OwnsSlot(u) /\ u \notin A) \/ u \in B
    OBVIOUS
  <2>2. A \in SUBSET Tasks /\ B \in SUBSET Tasks /\ A = {} /\ B = {}
    OBVIOUS
  <2> HIDE DEF A, B
  <2>. QED
    BY <1>0, <2>1, <2>2, OwnersChange
<1>3. WaiterFits'
  BY <1>0, <1>1 DEF WaiterFits
<1>4. WaitersWait' /\ Queue!NoIdleSlot'
  BY <1>0 DEF WaitersWait, Queue!NoIdleSlot
<1>. QED
  BY <1>0, <1>2, <1>3, <1>4 DEF QueueInv

(* A caller comes to the lock while it is taken, and goes to its queue's end. *)
LEMMA QueueingKeeps ==
  ASSUME Queue!QueueAssumption, QueueInv, NEW t \in Tasks, NEW op \in Queue!Ops, NEW p \in Queue!Places,
         lockq' = Append(lockq, <<t, op>>), at' = [at EXCEPT ![t] = p],
         UNCHANGED <<sem, waiters, waiter, lock>>,
         \/ op = "enter" /\ at[t] = "new" /\ p = "entering"
         \/ op = "withdraw" /\ at[t] = "queued" /\ p \in {"timedout", "withdrawing"}
         \/ op = "release" /\ at[t] = "holding" /\ p = "left"
  PROVE  QueueInv'
<1>0. QueueType /\ WaiterFits /\ EntriesFit
  BY DEF QueueInv
<1>1. at'[t] = p /\ \A u \in Tasks : u # t => at'[u] = at[u]
  BY <1>0 DEF QueueType
<1>2. <<t, op>> \in Tasks \X Queue!Ops /\ <<t, op>>[1] = t /\ <<t, op>>[2] = op
  OBVIOUS
<1>3. /\ lockq' \in Seq(Tasks \X Queue!Ops) /\ Len(lockq') = Len(lockq) + 1
      /\ \A i \in 1 .. Len(lockq) : lockq'[i] = lockq[i]
      /\ lockq'[Len(lockq) + 1] = <<t, op>> /\ Len(lockq) \in Nat
  BY <1>0, <1>2, AppendProperties, LenProperties DEF QueueType
<1>4. \A i \in 1 .. Len(lockq) : lockq[i] \in Tasks \X Queue!Ops /\ lockq[i][1] # t
  <2>1. \A i \in 1 .. Len(lockq) : lockq[i] \in Tasks \X Queue!Ops
    BY <1>0, ElementOfSeq DEF QueueType
  <2>2. ASSUME NEW i \in 1 .. Len(lockq) PROVE lockq[i][1] # t
    <3>1. lockq[i][2] \in Queue!Ops
      BY <2>1, <2>2
    <3>. QED
      BY <1>0, <2>2, <3>1 DEF EntriesFit, Queue!Ops
  <2>. QED
    BY <2>1, <2>2
<1>5. QueueType'
  BY <1>0, <1>3 DEF QueueType
<1>6. EntriesFit'
  <2>1. ASSUME NEW i \in 1 .. Len(lockq')
        PROVE  /\ lockq'[i][2] = "enter" => at'[lockq'[i][1]] = "entering"
               /\ lockq'[i][2] = "withdraw" => at'[lockq'[i][1]] \in {"timedout", "withdrawing"}
               /\ lockq'[i][2] = "release" => at'[lockq'[i][1]] = "left"
    <3>1. CASE i \in 1 .. Len(lockq)
      <4>1. at'[lockq[i][1]] = at[lockq[i][1]]
        BY <1>1, <1>4, <3>1
      <4>. QED
        BY <1>0, <1>3, <3>1, <4>1 DEF EntriesFit
    <3>2. CASE i = Len(lockq) + 1
      BY <1>1, <1>2, <1>3, <3>2
    <3>. QED
      BY <1>3, <2>1, <3>1, <3>2
  <2>2. ASSUME NEW i \in 1 .. Len(lockq'), NEW j \in 1 .. Len(lockq'), lockq'[i][1] = lockq'[j][1]
        PROVE  i = j
    <3>1. CASE i \in 1 .. Len(lockq) /\ j \in 1 .. Len(lockq)
      BY <1>0, <1>3, <2>2, <3>1 DEF EntriesFit
    <3>2. CASE i \in 1 .. Len(lockq) /\ j = Len(lockq) + 1
      BY <1>2, <1>3, <1>4, <2>2, <3>2
    <3>3. CASE i = Len(lockq) + 1 /\ j \in 1 .. Len(lockq)
      BY <1>2, <1>3, <1>4, <2>2, <3>3
    <3>. QED
      BY <1>3, <2>2, <3>1, <3>2, <3>3
  <2>. QED
    BY <2>1, <2>2 DEF EntriesFit
<1>7. ASSUME NEW u \in Tasks PROVE OwnsSlot(u)' <=> OwnsSlot(u)
  <2>1. CASE u # t
    <3>1. ASSUME NEW i \in 1 .. Len(lockq'), lockq'[i] = <<u, "release">>
          PROVE  \E j \in 1 .. Len(lockq) : lockq[j] = <<u, "release">>
      <4>1. i # Len(lockq) + 1
        BY <1>2, <1>3, <2>1, <3>1
      <4>. QED
        BY <1>3, <3>1, <4>1
    <3>2. ASSUME NEW i \in 1 .. Len(lockq), lockq[i] = <<u, "release">>
          PROVE  \E j \in 1 .. Len(lockq') : lockq'[j] = <<u, "release">>
      <4>1. i \in 1 .. Len(lockq') /\ lockq'[i] = lockq[i]
        BY <1>3, <3>2
      <4>. QED
        BY <3>2, <4>1
    <3>. QED
      BY <1>1, <2>1, <3>1, <3>2 DEF OwnsSlot
  <2>2. CASE u = t /\ op = "release"
    <3>1. Len(lockq) + 1 \in 1 .. Len(lockq')
      BY <1>3
    <3>. QED
      BY <1>3, <2>2, <3>1 DEF OwnsSlot
  <2>3. CASE u = t /\ op # "release"
    <3>1. ASSUME NEW i \in 1 .. Len(lockq') PROVE lockq'[i] # <<t, "release">>
      <4>1. CASE i \in 1 .. Len(lockq)
        BY <1>3, <1>4, <4>1
      <4>2. CASE i = Len(lockq) + 1
        BY <1>2, <1>3, <2>3, <4>2
      <4>. QED
        BY <1>3, <3>1, <4>1, <4>2
    <3>2. ASSUME NEW i \in 1 .. Len(lockq) PROVE lockq[i] # <<t, "release">>
      BY <1>4, <3>2
    <3>. QED
      BY <1>0, <1>1, <2>3, <3>1, <3>2 DEF OwnsSlot, WaiterFits
  <2>. QED
    BY <2>1, <2>2, <2>3
<1>8. /\ p = "entering" => waiter[t] = "none"
      /\ p \in {"timedout", "withdrawing"} => waiter[t] \in {"waiting", "granted"}
      /\ p = "left" => waiter[t] # "waiting"
  BY <1>0 DEF WaiterFits
<1>. QED
  BY <1>5, <1>6, <1>7, <1>8, MoveKeeps

(* A caller comes to the lock: to enter, or to withdraw.                     *)
LEMMA ArriveKeeps ==
  ASSUME Queue!QueueAssumption, QueueInv, NEW t \in Tasks, NEW op \in Queue!Ops, NEW p \in Queue!Places,
         Queue!Arrive(t, op, p),
         \/ op = "enter" /\ at[t] = "new" /\ p = "entering"
         \/ op = "withdraw" /\ at[t] = "queued" /\ p \in {"timedout", "withdrawing"}
  PROVE  QueueInv'
<1>1. CASE Queue!Locked(t, op) /\ UNCHANGED lockq
  <2>1. Popped(t)
    BY <1>1, NothingToPop
  <2>. QED
    BY <1>1, <2>1, LockedKeeps
<1>2. CASE /\ lockq' = Append(lockq, <<t, op>>) /\ at' = [at EXCEPT ![t] = p]
           /\ UNCHANGED <<sem, waiters, waiter, lock>>
  BY <1>2, QueueingKeeps
<1>. QED
  BY <1>1, <1>2 DEF Queue!Arrive

(* The lock goes to the first who waits for it.                              *)
LEMMA LockGrantedKeeps ==
  ASSUME Queue!QueueAssumption, QueueInv, Queue!LockGranted
  PROVE  QueueInv'
<1>1. /\ lockq # << >> /\ lockq' = Tail(lockq) /\ Queue!Locked(Head(lockq)[1], Head(lockq)[2])
  BY DEF Queue!LockGranted
<1>2. /\ Popped(lockq[1][1]) /\ Head(lockq) = lockq[1]
      /\ lockq[1] \in Tasks \X Queue!Ops /\ 1 \in 1 .. Len(lockq)
  BY <1>1, FirstPopped
<1>3. PICK t \in Tasks, op \in Queue!Ops : lockq[1] = <<t, op>>
  BY <1>2
<1>4. lockq[1][1] = t /\ lockq[1][2] = op
  BY <1>3
<1>5. Popped(t) /\ Queue!Locked(t, op)
  BY <1>1, <1>2, <1>4
<1>6. /\ op = "enter" => at[t] = "entering"
      /\ op = "withdraw" => at[t] \in {"timedout", "withdrawing"}
      /\ op = "release" => at[t] = "left"
  BY <1>2, <1>4 DEF QueueInv, EntriesFit
<1>7. op = "release" => OwnsSlot(t)
  BY <1>2, <1>3 DEF OwnsSlot
<1>. QED
  BY <1>5, <1>6, <1>7, LockedKeeps

(* A step of the caller, of the event loop for it, or its cancellation.      *)
LEMMA CallerKeeps ==
  ASSUME Queue!QueueAssumption, QueueInv, NEW t \in Tasks
  PROVE  /\ Queue!Acquire(t) => QueueInv'
         /\ Queue!Timeout(t) => QueueInv'
         /\ Queue!CancelQueued(t) => QueueInv'
         /\ Queue!Release(t) => QueueInv'
<1>1. ASSUME Queue!Acquire(t) PROVE QueueInv'
  BY <1>1, ArriveKeeps DEF Queue!Acquire, Queue!Ops, Queue!Places
<1>2. ASSUME Queue!Timeout(t) PROVE QueueInv'
  BY <1>2, ArriveKeeps DEF Queue!Timeout, Queue!Ops, Queue!Places
<1>3. ASSUME Queue!CancelQueued(t) PROVE QueueInv'
  BY <1>3, ArriveKeeps DEF Queue!CancelQueued, Queue!Ops, Queue!Places
<1>4. ASSUME Queue!Release(t) PROVE QueueInv'
  <2>1. at[t] = "holding" /\ at' = [at EXCEPT ![t] = "left"]
    BY <1>4 DEF Queue!Release
  <2>2. CASE Queue!Handoff /\ UNCHANGED <<lock, lockq>>
    <3>1. Popped(t) /\ OwnsSlot(t)
      BY <2>1, <2>2, NothingToPop DEF OwnsSlot
    <3>. QED
      BY <2>1, <2>2, <3>1, HandoffKeeps
  <2>3. CASE lockq' = Append(lockq, <<t, "release">>) /\ UNCHANGED <<sem, waiters, waiter, lock>>
    <3>1. "release" \in Queue!Ops /\ "left" \in Queue!Places
      BY DEF Queue!Ops, Queue!Places
    <3>. QED
      BY <2>1, <2>3, <3>1, QueueingKeeps
  <2>. QED
    BY <1>4, <2>2, <2>3 DEF Queue!Release
<1>. QED
  BY <1>1, <1>2, <1>3, <1>4

(* A caller goes away, or on, without the lock.                              *)
LEMMA AloneKeeps ==
  ASSUME Queue!QueueAssumption, QueueInv, NEW t \in Tasks, NEW p \in {"left", "holding", "cancelled"},
         at' = [at EXCEPT ![t] = p], UNCHANGED <<sem, waiters, waiter>>, lock' \in {lock, Free},
         Popped(t),
         \/ at[t] \in {"new", "refusing"} /\ p = "left"
         \/ at[t] = "queued" /\ waiter[t] = "granted" /\ p = "holding"
         \/ at[t] \in {"entering", "timedout"} /\ p = "cancelled"
  PROVE  QueueInv'
<1>0. QueueType /\ WaiterFits
  BY DEF QueueInv
<1>1. at'[t] = p /\ \A u \in Tasks : u # t => at'[u] = at[u]
  BY <1>0 DEF QueueType
<1>2. /\ EntriesFit' /\ lockq' \in Seq(Tasks \X Queue!Ops)
      /\ \A u \in Tasks : u # t => (OwnsSlot(u)' <=> OwnsSlot(u))
      /\ OwnsSlot(t)' <=>
            \/ at'[t] = "holding"
            \/ at'[t] \in {"queued", "timedout", "withdrawing", "cancelled"} /\ waiter'[t] = "granted"
  BY <1>1, PoppedFits, OthersOwn
<1>3. QueueType'
  BY <1>0, <1>2 DEF QueueType, Queue!Places
<1>4. OwnsSlot(t)' <=> OwnsSlot(t)
  <2>1. OwnsSlot(t) <=>
            \/ at[t] = "holding"
            \/ at[t] \in {"queued", "timedout", "withdrawing", "cancelled"} /\ waiter[t] = "granted"
    BY OwnsByPlace
  <2>. QED
    BY <1>0, <1>1, <1>2, <2>1 DEF WaiterFits
<1>5. /\ p = "holding" => waiter[t] = "granted"
      /\ p = "left" => waiter[t] = "none"
  BY <1>0 DEF WaiterFits
<1>6. \A u \in Tasks : OwnsSlot(u)' <=> OwnsSlot(u)
  BY <1>2, <1>4
<1>. QED
  BY <1>2, <1>3, <1>5, <1>6, MoveKeeps

(* Those who are turned away, granted a slot, or cancelled at the lock.      *)
LEMMA RestKeeps ==
  ASSUME Queue!QueueAssumption, QueueInv, NEW t \in Tasks
  PROVE  /\ Queue!Maintenance(t) => QueueInv'
         /\ Queue!Refused(t) => QueueInv'
         /\ Queue!Granted(t) => QueueInv'
         /\ Queue!CancelAtLock(t) => QueueInv'
<1>1. ASSUME Queue!Maintenance(t) PROVE QueueInv'
  <2>1. Popped(t)
    BY <1>1, NothingToPop DEF Queue!Maintenance
  <2>. QED
    BY <1>1, <2>1, AloneKeeps DEF Queue!Maintenance
<1>2. ASSUME Queue!Refused(t) PROVE QueueInv'
  <2>1. Popped(t)
    BY <1>2, NothingToPop DEF Queue!Refused
  <2>. QED
    BY <1>2, <2>1, AloneKeeps DEF Queue!Refused
<1>3. ASSUME Queue!Granted(t) PROVE QueueInv'
  <2>1. Popped(t)
    BY <1>3, NothingToPop DEF Queue!Granted
  <2>. QED
    BY <1>3, <2>1, AloneKeeps DEF Queue!Granted
<1>4. ASSUME Queue!CancelAtLock(t) PROVE QueueInv'
  <2>1. DOMAIN lockq = 1 .. Len(lockq)
    BY LenProperties DEF QueueInv, QueueType
  <2>2. PICK i \in 1 .. Len(lockq) : lockq[i][1] = t /\ lockq' = Queue!RemoveAt(lockq, i)
    BY <1>4, <2>1 DEF Queue!CancelAtLock
  <2>3. Popped(t)
    BY <2>2, CancelledPopped
  <2>. QED
    BY <1>4, <2>3, AloneKeeps DEF Queue!CancelAtLock
<1>. QED
  BY <1>1, <1>2, <1>3, <1>4

-----------------------------------------------------------------------------
(* The theorem. *)

(* The start has every slot free.                                            *)
LEMMA QueueStart == ASSUME Queue!QueueAssumption, Queue!Init PROVE QueueInv
<1>1. QueueType
  BY EmptySeq DEF Queue!Init, QueueType, Queue!QueueAssumption, Queue!Places
<1>2. Len(waiters) = 0 /\ Len(lockq) = 0
  BY EmptySeq DEF Queue!Init
<1>3. WaiterFits /\ WaitersWait /\ EntriesFit /\ Queue!NoIdleSlot
  BY <1>2 DEF Queue!Init, WaiterFits, WaitersWait, EntriesFit, Queue!NoIdleSlot
<1>4. \A t \in Tasks : ~OwnsSlot(t)
  BY <1>2 DEF Queue!Init, OwnsSlot
<1>5. Has = {}
  BY <1>1, <1>4, OwnersAreFinite
<1>6. sem + Cardinality(Has) = Slots
  BY <1>5, FS_EmptySet DEF Queue!Init, Queue!QueueAssumption
<1>. QED
  BY <1>1, <1>2, <1>3, <1>6 DEF QueueInv, Queue!QueueAssumption

(* What the argument knows of the queue says what SlotsAreKept does.         *)
LEMMA SlotsFollow == ASSUME Queue!QueueAssumption, QueueInv PROVE Queue!SlotsAreKept
<1>0. QueueType /\ Queue!NoIdleSlot /\ Len(waiters) <= MaxQueue /\ sem + Cardinality(Has) = Slots
  BY DEF QueueInv
<1>1. /\ Cardinality(Has) = Cardinality(Queue!Owning) + Cardinality(Queue!Lost)
      /\ IsFiniteSet(Queue!Owning) /\ Cardinality(Queue!Owning) \in Nat /\ Cardinality(Queue!Lost) \in Nat
  BY OwnersAreApart
<1>2. Queue!LostOnlyByTimeout
  BY <1>0, <1>1, QueueLibrary DEF Queue!LostOnlyByTimeout, QueueType
<1>3. Queue!TypeOK
  BY <1>0, <1>1 DEF Queue!TypeOK, QueueType, Queue!QueueAssumption
<1>4. Queue!AtMostSlots
  <2> DEFINE H == {t \in Tasks : at[t] = "holding"}
  <2>1. H \subseteq Queue!Owning
    BY DEF Queue!Owning
  <2>2. Cardinality(H) <= Cardinality(Queue!Owning) /\ Cardinality(H) \in Nat
    BY <1>1, <2>1, FS_Subset, FS_CardinalityType
  <2>. QED
    BY <1>0, <1>1, <2>2, QueueLibrary DEF Queue!AtMostSlots, QueueType, Queue!QueueAssumption
<1>. QED
  BY <1>0, <1>2, <1>3, <1>4 DEF Queue!SlotsAreKept

(* Download slots are lost in one way only, a cancellation in the withdrawal  *)
(* after a timeout; never are too many in use, and never is one idle while    *)
(* someone queues for it: for any number of callers, slots and places, and in *)
(* whatever order releases, grants, timeouts, cancellations and new callers   *)
(* reach the queue's lock (DownloadQueue._acquire, _withdraw,                 *)
(* _handoff_locked, DownloadLease.release).                                   *)
THEOREM SlotsKept == ASSUME Queue!QueueAssumption PROVE Queue!Spec => []Queue!SlotsAreKept
<1>1. Queue!Init => QueueInv
  BY QueueStart
<1>2. QueueInv /\ [Queue!Next]_(Queue!vars) => QueueInv'
  <2> SUFFICES ASSUME QueueInv, [Queue!Next]_(Queue!vars) PROVE QueueInv'
    OBVIOUS
  <2>1. ASSUME NEW t \in Tasks, Queue!Acquire(t) \/ Queue!Timeout(t) \/ Queue!CancelQueued(t) \/ Queue!Release(t)
        PROVE  QueueInv'
    BY <2>1, CallerKeeps
  <2>2. ASSUME NEW t \in Tasks, Queue!Maintenance(t) \/ Queue!Refused(t) \/ Queue!Granted(t) \/ Queue!CancelAtLock(t)
        PROVE  QueueInv'
    BY <2>2, RestKeeps
  <2>3. ASSUME Queue!LockGranted PROVE QueueInv'
    BY <2>3, LockGrantedKeeps
  <2>4. ASSUME UNCHANGED Queue!vars PROVE QueueInv'
    <3>1. /\ UNCHANGED <<sem, waiters, waiter, at, lock, lockq>>
      BY <2>4 DEF Queue!vars
    <3>2. Has' = Has
      BY <3>1 DEF Has, Queue!Owning, Queue!Lost
    <3>. QED
      BY <3>1, <3>2 DEF QueueInv, QueueType, WaiterFits, WaitersWait, EntriesFit, Queue!NoIdleSlot
  <2>. QED
    BY <2>1, <2>2, <2>3, <2>4 DEF Queue!Next
<1>3. QueueInv => Queue!SlotsAreKept
  BY SlotsFollow
<1>. QED
  BY <1>1, <1>2, <1>3, PTL DEF Queue!Spec

-----------------------------------------------------------------------------
(* ProcessSupervisor (app/core/process.py). Where a call is says which     *)
(* slots it uses and what is known of its process, and a semaphore's lists *)
(* hold the calls that wait for it. So slots that are free, granted or in  *)
(* use always add up: a step of a call moves what its place says.          *)

CONSTANTS Launches, Owners, OwnerOf, Opens, Inner, MaxProcesses, MaxCancels
VARIABLES
    workload, process, refs, epoch, registered, stage, born, tree, down, end, reap, cancels

Sup == INSTANCE ProcessSupervisor WITH Calls <- Launches, at <- stage, generation <- epoch

Queued(s) == {s.waiting[i] : i \in 1 .. Len(s.waiting)}

\* Who waits for a slot or has been granted one that it has not seen yet.
Asking(s) == Queued(s) \cup s.granted

\* Slots that nobody uses yet.
Total(s) == s.free + Cardinality(s.granted)

\* A semaphore in order: everybody waits once, or has been granted.
SemFits(s) ==
  /\ s \in [free : Nat, waiting : Seq(Launches), granted : SUBSET Launches]
  /\ \A i, j \in 1 .. Len(s.waiting) : s.waiting[i] = s.waiting[j] => i = j
  /\ \A i \in 1 .. Len(s.waiting) : s.waiting[i] \notin s.granted

Types ==
  /\ epoch \in [Owners -> 0 .. 1]
  /\ registered \subseteq Launches
  /\ stage \in [Launches -> Sup!Places]
  /\ born \in [Launches -> 0 .. 1]
  /\ tree \in [Launches -> {"none", "alive", "exited", "dead"}]
  /\ down \in [Launches -> {"no", "working", "done", "interrupted"}]
  /\ end \in [Launches -> {"no", "owner", "closing", "done"}]
  /\ reap \subseteq Launches
  /\ cancels \in 0 .. MaxCancels

\* What the place of a call says of its process, and the process of its end.
PlaceFits(c) ==
  /\ stage[c] \in {"new", "called", "workload", "process", "spawning"} => tree[c] = "none" /\ end[c] = "no"
  /\ stage[c] \in {"aborting", "running", "cancelling", "flushing"} => tree[c] # "none"
  /\ tree[c] = "none" => down[c] = "no" /\ c \notin registered /\ c \notin reap /\ end[c] # "closing"
  /\ end[c] = "owner" => tree[c] = "none"
  /\ end[c] = "done" => tree[c] \in {"none", "dead"}
  /\ stage[c] = "left" /\ c \in registered /\ c \notin reap => c \in Opens /\ cancels > 0

\* A call takes a process slot, gives it back, or neither.
ProcessMoves(c) ==
  /\ ~Sup!HasProcessSlot(c) /\ Sup!HasProcessSlot(c)' => Total(process)' = Total(process) - 1
  /\ Sup!HasProcessSlot(c) /\ ~Sup!HasProcessSlot(c)' => Total(process)' = Total(process) + 1
  /\ (Sup!HasProcessSlot(c) <=> Sup!HasProcessSlot(c)') => Total(process)' = Total(process)

\* A call begins to use its owner's slot, ends to, or neither.
OwnerMoves(c) ==
  LET o == OwnerOf[c]
  IN  /\ ~Sup!HasOwnerSlot(c) /\ Sup!HasOwnerSlot(c)' =>
           /\ refs' = [refs EXCEPT ![o] = @ + 1]
           /\ Total(workload)' = IF refs[o] > 0 THEN Total(workload) ELSE Total(workload) - 1
      /\ Sup!HasOwnerSlot(c) /\ ~Sup!HasOwnerSlot(c)' =>
           /\ refs' = [refs EXCEPT ![o] = @ - 1]
           /\ Total(workload)' = IF refs[o] = 1 THEN Total(workload) + 1 ELSE Total(workload)
      /\ (Sup!HasOwnerSlot(c) <=> Sup!HasOwnerSlot(c)') =>
           /\ refs' = refs
           /\ Total(workload)' = Total(workload)

Using == {c \in Launches : Sup!HasProcessSlot(c)}
UsingOf(o) == {c \in Launches : OwnerOf[c] = o /\ Sup!HasOwnerSlot(c)}
Served == {o \in Owners : refs[o] > 0}

\* SlotsAddUp.
ProcessesCounted == 2 * MaxProcesses = Total(process) + Cardinality(Using)
OwnersCounted ==
  /\ \A o \in Owners : refs[o] = Cardinality(UsingOf(o))
  /\ IsFiniteSet(Served)
  /\ MaxProcesses = Total(workload) + Cardinality(Served)

SupInv ==
  /\ Types /\ refs \in [Owners -> Nat] /\ SemFits(workload) /\ SemFits(process)
  /\ \A c \in Launches : /\ c \in Asking(workload) <=> stage[c] = "workload"
                         /\ c \in Asking(process) <=> stage[c] = "process"
                         /\ PlaceFits(c)
  /\ ProcessesCounted /\ OwnersCounted

-----------------------------------------------------------------------------

(* ProcessSupervisor counts with the cardinality of the library.             *)
LEMMA SupLibrary ==
  /\ \A S : (Sup!IsFiniteSet(S) <=> IsFiniteSet(S)) /\ Sup!Cardinality(S) = Cardinality(S)
<1>1. \A S : Sup!IsFiniteSet(S) <=> IsFiniteSet(S)
  BY DEF Sup!IsFiniteSet, IsFiniteSet
<1>. QED
  BY <1>1 DEF Sup!Cardinality, Cardinality

(* There are finitely many calls.                                            *)
LEMMA CallsAreFinite == ASSUME Sup!SupervisorAssumption PROVE IsFiniteSet(Launches)
  BY SupLibrary DEF Sup!SupervisorAssumption

-----------------------------------------------------------------------------
(* Semaphores. *)

(* What a semaphore's type says.                                             *)
LEMMA SemFacts ==
  ASSUME Sup!SupervisorAssumption, NEW s, SemFits(s)
  PROVE  /\ s.free \in Nat /\ s.waiting \in Seq(Launches) /\ s.granted \in SUBSET Launches
         /\ Len(s.waiting) \in Nat /\ IsFiniteSet(s.granted) /\ Cardinality(s.granted) \in Nat
         /\ Total(s) \in Nat /\ Asking(s) \subseteq Launches
         /\ \A i \in 1 .. Len(s.waiting) : s.waiting[i] \in Launches
         /\ s = [free |-> s.free, waiting |-> s.waiting, granted |-> s.granted]
<1>1. s.free \in Nat /\ s.waiting \in Seq(Launches) /\ s.granted \in SUBSET Launches
      /\ s = [free |-> s.free, waiting |-> s.waiting, granted |-> s.granted]
  BY DEF SemFits
<1>2. IsFiniteSet(s.granted) /\ Cardinality(s.granted) \in Nat
  BY <1>1, FS_Subset, FS_CardinalityType, CallsAreFinite
<1>3. Len(s.waiting) \in Nat /\ \A i \in 1 .. Len(s.waiting) : s.waiting[i] \in Launches
  BY <1>1, LenProperties, ElementOfSeq
<1>. QED
  BY <1>1, <1>2, <1>3 DEF Total, Asking, Queued

(* What the operations on a semaphore make of it.                            *)
LEMMA SemForms ==
  ASSUME NEW s, NEW c, s = [free |-> s.free, waiting |-> s.waiting, granted |-> s.granted]
  PROVE  /\ Sup!Take(s) = [free |-> s.free - 1, waiting |-> s.waiting, granted |-> s.granted]
         /\ Sup!Await(s, c) = [free |-> s.free, waiting |-> Append(s.waiting, c), granted |-> s.granted]
         /\ Sup!Resume(s, c) = [free |-> s.free, waiting |-> s.waiting, granted |-> s.granted \ {c}]
         /\ s.waiting = << >> =>
              Sup!Give(s) = [free |-> s.free + 1, waiting |-> s.waiting, granted |-> s.granted]
         /\ s.waiting # << >> =>
              Sup!Give(s) = [free |-> s.free, waiting |-> Tail(s.waiting),
                         granted |-> s.granted \cup {Head(s.waiting)}]
         /\ c \notin s.granted =>
              Sup!Quit(s, c) = [free |-> s.free,
                            waiting |-> Sup!Without(s.waiting, c),
                            granted |-> s.granted]
<1> DEFINE f == s.free
           w == s.waiting
           g == s.granted
           r == [free |-> f, waiting |-> w, granted |-> g]
<1>1. s = r
  OBVIOUS
<1> HIDE DEF f, w, g
<1>2. Sup!Take(r) = [free |-> f - 1, waiting |-> w, granted |-> g]
  BY DEF Sup!Take
<1>3. Sup!Await(r, c) = [free |-> f, waiting |-> Append(w, c), granted |-> g]
  BY DEF Sup!Await
<1>4. Sup!Resume(r, c) = [free |-> f, waiting |-> w, granted |-> g \ {c}]
  BY DEF Sup!Resume
<1>5. w = << >> => Sup!Give(r) = [free |-> f + 1, waiting |-> w, granted |-> g]
  BY DEF Sup!Give
<1>6. w # << >> => Sup!Give(r) = [free |-> f, waiting |-> Tail(w), granted |-> g \cup {Head(w)}]
  BY DEF Sup!Give
<1>7. c \notin g =>
        Sup!Quit(r, c) = [free |-> f, waiting |-> Sup!Without(w, c),
                      granted |-> g]
  BY DEF Sup!Quit
<1>. QED
  BY <1>1, <1>2, <1>3, <1>4, <1>5, <1>6, <1>7 DEF f, w, g

(* A free slot is taken.                                                     *)
LEMMA TakeSem ==
  ASSUME Sup!SupervisorAssumption, NEW s, SemFits(s), Sup!CanTake(s)
  PROVE  SemFits(Sup!Take(s)) /\ Total(Sup!Take(s)) = Total(s) - 1 /\ Asking(Sup!Take(s)) = Asking(s)
<1>0. /\ s.free \in Nat /\ s.waiting \in Seq(Launches) /\ s.granted \in SUBSET Launches
      /\ Cardinality(s.granted) \in Nat
      /\ s = [free |-> s.free, waiting |-> s.waiting, granted |-> s.granted]
  BY SemFacts
<1>1. Sup!Take(s) = [free |-> s.free - 1, waiting |-> s.waiting, granted |-> s.granted]
  BY <1>0, SemForms
<1>2. s.free - 1 \in Nat
  BY <1>0 DEF Sup!CanTake
<1>3. SemFits(Sup!Take(s))
  BY <1>0, <1>1, <1>2 DEF SemFits
<1>. QED
  BY <1>0, <1>1, <1>3 DEF Total, Asking, Queued

(* Nobody has one: the caller waits.                                         *)
LEMMA AwaitSem ==
  ASSUME Sup!SupervisorAssumption, NEW s, SemFits(s), NEW c \in Launches, c \notin Asking(s)
  PROVE  /\ SemFits(Sup!Await(s, c)) /\ Total(Sup!Await(s, c)) = Total(s)
         /\ Asking(Sup!Await(s, c)) = Asking(s) \cup {c}
<1> DEFINE q == Append(s.waiting, c)
           r == [free |-> s.free, waiting |-> q, granted |-> s.granted]
<1>1. Sup!Await(s, c) = r
  BY SemFacts, SemForms
<1>2. /\ q \in Seq(Launches) /\ Len(q) = Len(s.waiting) + 1
      /\ \A i \in 1 .. Len(s.waiting) : q[i] = s.waiting[i]
      /\ q[Len(s.waiting) + 1] = c
  BY SemFacts, AppendProperties
<1>3. c \notin s.granted /\ \A i \in 1 .. Len(s.waiting) : s.waiting[i] # c
  BY DEF Asking, Queued
<1> HIDE DEF q
<1>4. Queued(r) = Queued(s) \cup {c}
  BY <1>2, SemFacts DEF Queued
<1>5. SemFits(r)
  <2>1. ASSUME NEW i \in 1 .. Len(q), NEW j \in 1 .. Len(q), q[i] = q[j] PROVE i = j
    BY <1>2, <1>3, <2>1, SemFacts DEF SemFits
  <2>2. ASSUME NEW i \in 1 .. Len(q) PROVE q[i] \notin s.granted
    BY <1>2, <1>3, SemFacts DEF SemFits
  <2>. QED
    BY <1>2, <2>1, <2>2, SemFacts DEF SemFits
<1>. QED
  BY <1>1, <1>4, <1>5 DEF Total, Asking

(* A slot comes back: to the first who waits, if somebody does.              *)
LEMMA GiveSem ==
  ASSUME Sup!SupervisorAssumption, NEW s, SemFits(s)
  PROVE  SemFits(Sup!Give(s)) /\ Total(Sup!Give(s)) = Total(s) + 1 /\ Asking(Sup!Give(s)) = Asking(s)
<1>1. CASE s.waiting = << >>
  <2>0. /\ s.free \in Nat /\ s.waiting \in Seq(Launches) /\ s.granted \in SUBSET Launches
        /\ Cardinality(s.granted) \in Nat
        /\ s = [free |-> s.free, waiting |-> s.waiting, granted |-> s.granted]
    BY SemFacts
  <2>1. Sup!Give(s) = [free |-> s.free + 1, waiting |-> s.waiting, granted |-> s.granted]
    BY <1>1, <2>0, SemForms
  <2>2. SemFits(Sup!Give(s))
    BY <2>0, <2>1 DEF SemFits
  <2>. QED
    BY <2>0, <2>1, <2>2 DEF Total, Asking, Queued
<1>2. CASE s.waiting # << >>
  <2> DEFINE q == Tail(s.waiting)
             h == Head(s.waiting)
             r == [free |-> s.free, waiting |-> q, granted |-> s.granted \cup {h}]
  <2>1. Sup!Give(s) = r
    BY <1>2, SemFacts, SemForms
  <2>2. /\ q \in Seq(Launches) /\ Len(q) = Len(s.waiting) - 1
        /\ \A j \in 1 .. Len(q) : q[j] = s.waiting[j + 1]
        /\ h = s.waiting[1] /\ Len(s.waiting) >= 1
    BY <1>2, SemFacts, HeadTailProperties, EmptySeq
  <2> HIDE DEF q, h
  <2>3. h \in Launches /\ h \notin s.granted
    BY <2>2, SemFacts DEF SemFits
  <2>4. Queued(s) = Queued(r) \cup {h}
    <3>0. Len(s.waiting) \in Nat /\ Len(q) = Len(s.waiting) - 1 /\ Len(s.waiting) >= 1
      BY <2>2, SemFacts
    <3>1. Queued(r) \cup {h} \subseteq Queued(s)
      <4>1. ASSUME NEW j \in 1 .. Len(q) PROVE q[j] \in Queued(s)
        <5>1. j + 1 \in 1 .. Len(s.waiting)
          BY <3>0
        <5>. QED
          BY <2>2, <5>1 DEF Queued
      <4>2. h \in Queued(s)
        <5>1. 1 \in 1 .. Len(s.waiting)
          BY <3>0
        <5>. QED
          BY <2>2, <5>1 DEF Queued
      <4>. QED
        BY <4>1, <4>2 DEF Queued
    <3>2. ASSUME NEW i \in 1 .. Len(s.waiting) PROVE s.waiting[i] \in Queued(r) \cup {h}
      <4>1. CASE i = 1
        BY <2>2, <4>1
      <4>2. CASE i # 1
        <5>1. i - 1 \in 1 .. Len(q) /\ q[i - 1] = s.waiting[i]
          BY <2>2, <4>2, SemFacts
        <5>. QED
          BY <5>1 DEF Queued
      <4>. QED
        BY <4>1, <4>2
    <3>. QED
      BY <3>1, <3>2 DEF Queued
  <2>5. SemFits(r)
    <3>1. ASSUME NEW i \in 1 .. Len(q), NEW j \in 1 .. Len(q), q[i] = q[j] PROVE i = j
      <4>1. i + 1 \in 1 .. Len(s.waiting) /\ j + 1 \in 1 .. Len(s.waiting)
        BY <2>2, SemFacts
      <4>2. i + 1 = j + 1
        BY <2>2, <3>1, <4>1 DEF SemFits
      <4>. QED
        BY <4>2
    <3>2. ASSUME NEW i \in 1 .. Len(q) PROVE q[i] \notin s.granted \cup {h}
      <4>1. i + 1 \in 1 .. Len(s.waiting) /\ 1 \in 1 .. Len(s.waiting) /\ i + 1 # 1
        BY <2>2, SemFacts
      <4>. QED
        BY <2>2, <4>1 DEF SemFits
    <3>. QED
      BY <2>2, <2>3, <3>1, <3>2, SemFacts DEF SemFits
  <2>6. Cardinality(s.granted \cup {h}) = Cardinality(s.granted) + 1
    BY <2>3, SemFacts, FS_AddElement
  <2>7. Total(r) = Total(s) + 1
    BY <2>6, SemFacts DEF Total
  <2>8. Asking(r) = Asking(s)
    BY <2>4 DEF Asking
  <2>. QED
    BY <2>1, <2>5, <2>7, <2>8
<1>. QED
  BY <1>1, <1>2

(* A granted caller goes on with its slot.                                   *)
LEMMA ResumeSem ==
  ASSUME Sup!SupervisorAssumption, NEW s, SemFits(s), NEW c \in s.granted
  PROVE  /\ SemFits(Sup!Resume(s, c)) /\ Total(Sup!Resume(s, c)) = Total(s) - 1
         /\ Asking(Sup!Resume(s, c)) = Asking(s) \ {c}
<1>1. Sup!Resume(s, c) = [free |-> s.free, waiting |-> s.waiting, granted |-> s.granted \ {c}]
  BY SemFacts, SemForms
<1>2. Cardinality(s.granted \ {c}) = Cardinality(s.granted) - 1
  BY SemFacts, FS_RemoveElement
<1>3. c \notin Queued(s)
  BY DEF SemFits, Queued
<1>4. /\ s.free \in Nat /\ s.waiting \in Seq(Launches) /\ s.granted \in SUBSET Launches
      /\ Cardinality(s.granted) \in Nat
  BY SemFacts
<1>5. SemFits(Sup!Resume(s, c))
  BY <1>1, <1>4 DEF SemFits
<1>. QED
  BY <1>1, <1>2, <1>3, <1>4, <1>5 DEF Total, Asking, Queued

(* A caller leaves the semaphore; a slot it was granted goes on.             *)
LEMMA QuitSem ==
  ASSUME Sup!SupervisorAssumption, NEW s, SemFits(s), NEW c \in Asking(s)
  PROVE  /\ SemFits(Sup!Quit(s, c)) /\ Total(Sup!Quit(s, c)) = Total(s)
         /\ Asking(Sup!Quit(s, c)) = Asking(s) \ {c}
<1>1. CASE c \in s.granted
  <2>1. /\ SemFits(Sup!Resume(s, c)) /\ Total(Sup!Resume(s, c)) = Total(s) - 1
        /\ Asking(Sup!Resume(s, c)) = Asking(s) \ {c}
    BY <1>1, ResumeSem
  <2>2. Sup!Quit(s, c) = Sup!Give(Sup!Resume(s, c))
    BY <1>1 DEF Sup!Quit
  <2>3. /\ SemFits(Sup!Quit(s, c)) /\ Total(Sup!Quit(s, c)) = Total(Sup!Resume(s, c)) + 1
        /\ Asking(Sup!Quit(s, c)) = Asking(Sup!Resume(s, c))
    BY <2>1, <2>2, GiveSem
  <2>. QED
    BY <2>1, <2>3, SemFacts
<1>2. CASE c \notin s.granted
  <2>1. PICK k \in 1 .. Len(s.waiting) : s.waiting[k] = c
    BY <1>2 DEF Asking, Queued
  <2>2. /\ Sup!Quit(s, c) = [free |-> s.free,
                         waiting |-> Sup!Without(s.waiting, c),
                         granted |-> s.granted]
        /\ s.waiting \in Seq(Launches) /\ DOMAIN s.waiting = 1 .. Len(s.waiting)
    <3>1. /\ s = [free |-> s.free, waiting |-> s.waiting, granted |-> s.granted]
          /\ s.waiting \in Seq(Launches)
      BY SemFacts
    <3>2. DOMAIN s.waiting = 1 .. Len(s.waiting)
      BY <3>1, LenProperties
    <3>3. Sup!Quit(s, c) = [free |-> s.free,
                         waiting |-> Sup!Without(s.waiting, c),
                         granted |-> s.granted]
      BY <1>2, <3>1, SemForms
    <3>. QED
      BY <3>1, <3>2, <3>3
  <2> DEFINE i == CHOOSE i \in DOMAIN s.waiting : s.waiting[i] = c
  <2>3. i \in 1 .. Len(s.waiting) /\ s.waiting[i] = c
    BY <2>1, <2>2
  <2> HIDE DEF i
  <2> DEFINE w == s.waiting
             q == Queue!RemoveAt(w, i)
             r == [free |-> s.free, waiting |-> q, granted |-> s.granted]
  <2>a. Sup!Quit(s, c) = r
    BY <2>2 DEF Sup!Without, Queue!RemoveAt, i
  <2>4. /\ q \in Seq(Launches) /\ Len(q) = Len(w) - 1
        /\ \A j \in 1 .. Len(q) :
              /\ From(i, j) \in 1 .. Len(w) /\ From(i, j) # i
              /\ q[j] = w[From(i, j)] /\ To(i, From(i, j)) = j
        /\ \A j \in 1 .. Len(w) : j # i => To(i, j) \in 1 .. Len(q) /\ q[To(i, j)] = w[j]
    <3>1. w \in Seq(Launches) /\ i \in 1 .. Len(w)
      BY <2>2, <2>3
    <3>2. q = Queue!RemoveAt(w, i)
      OBVIOUS
    <3> HIDE DEF q, w
    <3>3. q \in Seq(Launches) /\ Len(q) = Len(w) - 1
      BY <3>1, <3>2, RemovedFromList
    <3>4. \A j \in 1 .. Len(q) :
              /\ From(i, j) \in 1 .. Len(w) /\ From(i, j) # i
              /\ q[j] = w[From(i, j)] /\ To(i, From(i, j)) = j
      BY <3>1, <3>2, RemovedFromList
    <3>5. \A j \in 1 .. Len(w) : j # i => To(i, j) \in 1 .. Len(q) /\ q[To(i, j)] = w[j]
      BY <3>1, <3>2, RemovedFromList
    <3>. QED
      BY <3>3, <3>4, <3>5
  <2> HIDE DEF q
  <2>5. Queued(r) = Queued(s) \ {c}
    <3>1. ASSUME NEW j \in 1 .. Len(q) PROVE q[j] \in Queued(s) \ {c}
      BY <2>3, <2>4 DEF SemFits, Queued
    <3>2. ASSUME NEW j \in 1 .. Len(s.waiting), s.waiting[j] # c PROVE s.waiting[j] \in Queued(r)
      BY <2>3, <2>4, <3>2 DEF Queued
    <3>. QED
      BY <3>1, <3>2 DEF Queued
  <2>6. SemFits(r)
    <3>1. ASSUME NEW j \in 1 .. Len(q), NEW l \in 1 .. Len(q), q[j] = q[l] PROVE j = l
      <4>1. From(i, j) = From(i, l)
        BY <2>4, <3>1 DEF SemFits
      <4>. QED
        BY <2>4, <4>1
    <3>2. ASSUME NEW j \in 1 .. Len(q) PROVE q[j] \notin s.granted
      BY <2>4 DEF SemFits
    <3>. QED
      BY <2>4, <3>1, <3>2, SemFacts DEF SemFits
  <2>7. Asking(r) = Asking(s) \ {c}
    BY <1>2, <2>5 DEF Asking
  <2>. QED
    BY <2>a, <2>6, <2>7 DEF Total
<1>. QED
  BY <1>1, <1>2

-----------------------------------------------------------------------------
(* Counting. *)

(* The process slots still add up when one call takes or returns one.        *)
LEMMA ProcessCounts ==
  ASSUME Sup!SupervisorAssumption, ProcessesCounted,
         Total(process) \in Nat, Total(process)' \in Nat, NEW c \in Launches,
         \A d \in Launches : d # c => (Sup!HasProcessSlot(d)' <=> Sup!HasProcessSlot(d)),
         ProcessMoves(c)
  PROVE  ProcessesCounted'
<1> DEFINE P == Using
           N == Using'
<1>1. /\ \A d \in Launches : d \in P <=> Sup!HasProcessSlot(d)
      /\ \A d \in Launches : d \in N <=> Sup!HasProcessSlot(d)'
      /\ P \subseteq Launches /\ N \subseteq Launches
  BY DEF Using
<1>2. IsFiniteSet(P) /\ Cardinality(P) \in Nat
  BY <1>1, FS_Subset, FS_CardinalityType, CallsAreFinite
<1>3. MaxProcesses' = MaxProcesses /\ 2 * MaxProcesses = Total(process) + Cardinality(P)
      /\ MaxProcesses \in Nat
  BY DEF ProcessesCounted, Sup!SupervisorAssumption
<1> HIDE DEF P, N
<1>4. CASE ~Sup!HasProcessSlot(c) /\ Sup!HasProcessSlot(c)'
  <2>1. N = P \cup {c} /\ c \notin P
    BY <1>1, <1>4
  <2>2. Cardinality(N) = Cardinality(P) + 1
    BY <1>2, <2>1, FS_AddElement
  <2>3. Total(process)' = Total(process) - 1
    BY <1>4 DEF ProcessMoves
  <2>. QED
    BY <1>2, <1>3, <2>2, <2>3 DEF ProcessesCounted, N
<1>5. CASE Sup!HasProcessSlot(c) /\ ~Sup!HasProcessSlot(c)'
  <2>1. N = P \ {c} /\ c \in P
    BY <1>1, <1>5
  <2>2. Cardinality(N) = Cardinality(P) - 1
    BY <1>2, <2>1, FS_RemoveElement
  <2>3. Total(process)' = Total(process) + 1
    BY <1>5 DEF ProcessMoves
  <2>. QED
    BY <1>2, <1>3, <2>2, <2>3 DEF ProcessesCounted, N
<1>6. CASE Sup!HasProcessSlot(c) <=> Sup!HasProcessSlot(c)'
  <2>1. N = P
    BY <1>1, <1>6
  <2>2. Total(process)' = Total(process)
    BY <1>6 DEF ProcessMoves
  <2>. QED
    BY <1>2, <1>3, <2>1, <2>2 DEF ProcessesCounted, N
<1>. QED
  BY <1>4, <1>5, <1>6

(* So do the owners' slots and their reference counts.                       *)
LEMMA OwnerCounts ==
  ASSUME Sup!SupervisorAssumption, OwnersCounted, refs \in [Owners -> Nat],
         Total(workload) \in Nat, Total(workload)' \in Nat, NEW c \in Launches,
         \A d \in Launches : d # c => (Sup!HasOwnerSlot(d)' <=> Sup!HasOwnerSlot(d)),
         OwnerMoves(c)
  PROVE  OwnersCounted' /\ refs' \in [Owners -> Nat]
<1> DEFINE o == OwnerOf[c]
           Q == UsingOf(o)
           M == UsingOf(o)'
           S == Served
           T == Served'
<1>1. o \in Owners /\ MaxProcesses \in Nat /\ MaxProcesses' = MaxProcesses
  BY DEF Sup!SupervisorAssumption
<1>2. /\ \A d \in Launches : d \in Q <=> OwnerOf[d] = o /\ Sup!HasOwnerSlot(d)
      /\ \A d \in Launches : d \in M <=> OwnerOf[d] = o /\ Sup!HasOwnerSlot(d)'
      /\ Q \subseteq Launches /\ M \subseteq Launches
  BY DEF UsingOf
<1>3. IsFiniteSet(Q) /\ Cardinality(Q) \in Nat /\ refs[o] = Cardinality(Q)
  BY <1>1, <1>2, FS_Subset, FS_CardinalityType, CallsAreFinite DEF OwnersCounted
<1>4. ASSUME NEW p \in Owners, p # o PROVE UsingOf(p)' = UsingOf(p) /\ refs[p] = Cardinality(UsingOf(p))
  BY <1>4 DEF UsingOf, OwnersCounted
<1>5. /\ \A p \in Owners : p \in S <=> refs[p] > 0
      /\ \A p \in Owners : p \in T <=> refs'[p] > 0
      /\ S \subseteq Owners /\ T \subseteq Owners
  BY DEF Served
<1>6. IsFiniteSet(S) /\ Cardinality(S) \in Nat /\ MaxProcesses = Total(workload) + Cardinality(S)
  BY FS_CardinalityType DEF OwnersCounted
<1>7. ASSUME refs' \in [Owners -> Nat], refs'[o] = Cardinality(M),
             \A p \in Owners : p # o => refs'[p] = refs[p],
             IsFiniteSet(T), MaxProcesses = Total(workload)' + Cardinality(T)
      PROVE  OwnersCounted'
  <2>1. \A p \in Owners : refs'[p] = Cardinality(UsingOf(p)')
    BY <1>4, <1>7
  <2>. QED
    BY <1>1, <1>7, <2>1 DEF OwnersCounted
<1> HIDE DEF o, Q, M, S, T
<1>8. CASE ~Sup!HasOwnerSlot(c) /\ Sup!HasOwnerSlot(c)'
  <2>1. /\ refs' = [refs EXCEPT ![o] = @ + 1]
        /\ Total(workload)' = IF refs[o] > 0 THEN Total(workload) ELSE Total(workload) - 1
    BY <1>8 DEF OwnerMoves, o
  <2>2. M = Q \cup {c} /\ c \notin Q
    BY <1>2, <1>8 DEF o
  <2>3. Cardinality(M) = Cardinality(Q) + 1
    BY <1>3, <2>2, FS_AddElement
  <2>4. /\ refs' \in [Owners -> Nat] /\ refs'[o] = refs[o] + 1
        /\ \A p \in Owners : p # o => refs'[p] = refs[p]
    BY <1>1, <1>3, <2>1
  <2>5. T = S \cup {o} /\ (o \in S <=> refs[o] > 0)
    <3>1. o \in T /\ (o \in S <=> refs[o] > 0)
      BY <1>1, <1>3, <1>5, <2>4
    <3>2. ASSUME NEW p \in Owners, p # o PROVE p \in T <=> p \in S
      BY <1>5, <2>4, <3>2
    <3>. QED
      BY <1>5, <3>1, <3>2
  <2>6. IsFiniteSet(T) /\ Cardinality(T) = IF refs[o] > 0 THEN Cardinality(S) ELSE Cardinality(S) + 1
    BY <1>6, <2>5, FS_AddElement
  <2>. QED
    BY <1>3, <1>6, <1>7, <2>1, <2>3, <2>4, <2>6
<1>9. CASE Sup!HasOwnerSlot(c) /\ ~Sup!HasOwnerSlot(c)'
  <2>1. /\ refs' = [refs EXCEPT ![o] = @ - 1]
        /\ Total(workload)' = IF refs[o] = 1 THEN Total(workload) + 1 ELSE Total(workload)
    BY <1>9 DEF OwnerMoves, o
  <2>2. M = Q \ {c} /\ c \in Q
    BY <1>2, <1>9 DEF o
  <2>3. Cardinality(M) = Cardinality(Q) - 1 /\ Cardinality(Q) # 0
    BY <1>3, <2>2, FS_RemoveElement, FS_EmptySet
  <2>4. /\ refs' \in [Owners -> Nat] /\ refs'[o] = refs[o] - 1
        /\ \A p \in Owners : p # o => refs'[p] = refs[p]
    BY <1>1, <1>3, <2>1, <2>3
  <2>5. o \in S /\ T = IF refs[o] = 1 THEN S \ {o} ELSE S
    <3>1. o \in S /\ (o \in T <=> refs[o] # 1)
      BY <1>1, <1>3, <1>5, <2>3, <2>4
    <3>2. ASSUME NEW p \in Owners, p # o PROVE p \in T <=> p \in S
      BY <1>5, <2>4, <3>2
    <3>. QED
      BY <1>5, <3>1, <3>2
  <2>6. IsFiniteSet(T) /\ Cardinality(T) = IF refs[o] = 1 THEN Cardinality(S) - 1 ELSE Cardinality(S)
    BY <1>6, <2>5, FS_RemoveElement
  <2>. QED
    BY <1>3, <1>6, <1>7, <2>1, <2>3, <2>4, <2>6
<1>10. CASE Sup!HasOwnerSlot(c) <=> Sup!HasOwnerSlot(c)'
  <2>1. refs' = refs /\ Total(workload)' = Total(workload)
    BY <1>10 DEF OwnerMoves, o
  <2>2. M = Q /\ T = S
    BY <1>2, <1>5, <1>10, <2>1 DEF o
  <2>. QED
    BY <1>1, <1>3, <1>6, <1>7, <2>1, <2>2
<1>. QED
  BY <1>8, <1>9, <1>10

-----------------------------------------------------------------------------
(* Steps of one call. *)

\* Nobody but the call moves.
Alone(c) ==
  /\ \A d \in Launches : d # c =>
        /\ stage'[d] = stage[d] /\ tree'[d] = tree[d] /\ end'[d] = end[d] /\ down'[d] = down[d]
        /\ d \in registered' <=> d \in registered
        /\ d \in reap' <=> d \in reap
  /\ cancels \in Nat /\ cancels' \in Nat /\ cancels' >= cancels

(* A step that moves one call keeps the invariant, if what it makes of that  *)
(* call fits, and what the slots gain it loses.                              *)
LEMMA OneMoves ==
  ASSUME Sup!SupervisorAssumption, SupInv, NEW c \in Launches, Alone(c), Types',
         SemFits(workload)', SemFits(process)',
         \A d \in Launches : d # c => (d \in Asking(workload)' <=> d \in Asking(workload)),
         \A d \in Launches : d # c => (d \in Asking(process)' <=> d \in Asking(process)),
         c \in Asking(workload)' <=> stage'[c] = "workload",
         c \in Asking(process)' <=> stage'[c] = "process",
         PlaceFits(c)', ProcessMoves(c), OwnerMoves(c)
  PROVE  SupInv'
<1>1. Total(workload) \in Nat /\ Total(process) \in Nat /\ SemFits(workload') /\ SemFits(process')
  BY SemFacts DEF SupInv, SemFits
<1>2. Total(workload') \in Nat /\ Total(process') \in Nat
  BY <1>1, SemFacts
<1>3. Total(workload)' \in Nat /\ Total(process)' \in Nat
  BY <1>2 DEF Total
<1>4. \A d \in Launches : d # c => (Sup!HasProcessSlot(d)' <=> Sup!HasProcessSlot(d))
  BY DEF Alone, Sup!HasProcessSlot
<1>5. \A d \in Launches : d # c => (Sup!HasOwnerSlot(d)' <=> Sup!HasOwnerSlot(d))
  BY <1>4 DEF Alone, Sup!HasOwnerSlot
<1>6. ProcessesCounted'
  BY <1>1, <1>3, <1>4, ProcessCounts DEF SupInv
<1>7. OwnersCounted' /\ refs' \in [Owners -> Nat]
  BY <1>1, <1>3, <1>5, OwnerCounts DEF SupInv
<1>8. ASSUME NEW d \in Launches, d # c
      PROVE  /\ d \in Asking(workload)' <=> stage'[d] = "workload"
             /\ d \in Asking(process)' <=> stage'[d] = "process"
             /\ PlaceFits(d)'
  <2>1. /\ d \in Asking(workload) <=> stage[d] = "workload"
        /\ d \in Asking(process) <=> stage[d] = "process"
        /\ PlaceFits(d)
    BY DEF SupInv
  <2>2. PlaceFits(d)'
    BY <1>8, <2>1 DEF Alone, PlaceFits
  <2>. QED
    BY <1>8, <2>1, <2>2 DEF Alone
<1>. QED
  BY <1>6, <1>7, <1>8 DEF SupInv

(* A step that leaves the slots alone.                                       *)
LEMMA OneStays ==
  ASSUME Sup!SupervisorAssumption, SupInv, NEW c \in Launches, Alone(c), Types', UNCHANGED Sup!slots,
         stage[c] \notin {"workload", "process"}, stage'[c] \notin {"workload", "process"},
         Sup!HasProcessSlot(c)' <=> Sup!HasProcessSlot(c), Sup!HasOwnerSlot(c)' <=> Sup!HasOwnerSlot(c),
         PlaceFits(c)'
  PROVE  SupInv'
<1>1. workload' = workload /\ process' = process /\ refs' = refs
  BY DEF Sup!slots
<1>2. /\ Total(workload)' = Total(workload) /\ Total(process)' = Total(process)
      /\ Asking(workload)' = Asking(workload) /\ Asking(process)' = Asking(process)
  BY <1>1 DEF Total, Asking, Queued
<1>3. SemFits(workload)' /\ SemFits(process)'
  BY <1>1 DEF SupInv, SemFits
<1>4. c \notin Asking(workload) /\ c \notin Asking(process)
  BY DEF SupInv
<1>5. ProcessMoves(c) /\ OwnerMoves(c)
  BY <1>1, <1>2 DEF ProcessMoves, OwnerMoves
<1>. QED
  BY <1>2, <1>3, <1>4, <1>5, OneMoves

(* What is known of a call.                                                  *)
LEMMA LaunchFacts ==
  ASSUME SupInv, NEW c \in Launches
  PROVE  /\ Types /\ PlaceFits(c)
         /\ stage[c] \in Sup!Places /\ tree[c] \in {"none", "alive", "exited", "dead"}
         /\ down[c] \in {"no", "working", "done", "interrupted"}
         /\ end[c] \in {"no", "owner", "closing", "done"}
         /\ c \in Asking(workload) <=> stage[c] = "workload"
         /\ c \in Asking(process) <=> stage[c] = "process"
  BY DEF SupInv, Types

(* A call is made.                                                           *)
LEMMA CallSup ==
  ASSUME Sup!SupervisorAssumption, SupInv, NEW c \in Launches, Sup!Call(c)
  PROVE  SupInv'
<1>1. Types /\ PlaceFits(c) /\ stage[c] = "new"
  BY LaunchFacts DEF Sup!Call
<1>2. Types' /\ stage'[c] = "called"
  BY <1>1 DEF Types, Sup!Call, Sup!Go, Sup!slots, Sup!Places, Sup!SupervisorAssumption
<1>3. Alone(c) /\ UNCHANGED Sup!slots
  BY <1>1 DEF Types, Alone, Sup!Call, Sup!Go, Sup!SupervisorAssumption
<1>4. /\ tree'[c] = tree[c] /\ end'[c] = end[c] /\ down'[c] = down[c]
      /\ registered' = registered /\ reap' = reap /\ cancels' = cancels
  BY DEF Sup!Call
<1>5. PlaceFits(c)'
  BY <1>1, <1>2, <1>4 DEF PlaceFits
<1>. QED
  BY <1>1, <1>2, <1>3, <1>4, <1>5, OneStays DEF Sup!HasProcessSlot, Sup!HasOwnerSlot, PlaceFits

(* The process exists; a cancelled owner's is taken down at once.            *)
LEMMA SpawnedSup ==
  ASSUME Sup!SupervisorAssumption, SupInv, NEW c \in Launches, Sup!Spawned(c)
  PROVE  SupInv'
<1>1. Types /\ PlaceFits(c) /\ stage[c] = "spawning"
  BY LaunchFacts DEF Sup!Spawned
<1>2. Types' /\ stage'[c] \in {"running", "aborting"} /\ tree'[c] = "alive"
  BY <1>1 DEF Types, Sup!Spawned, Sup!Go, Sup!slots, Sup!Places
<1>3. Alone(c) /\ UNCHANGED Sup!slots
  BY <1>1 DEF Types, Alone, Sup!Spawned, Sup!Go, Sup!SupervisorAssumption
<1>4. end'[c] = end[c] /\ cancels' = cancels
  BY DEF Sup!Spawned
<1>5. PlaceFits(c)'
  BY <1>1, <1>2, <1>4 DEF PlaceFits
<1>. QED
  BY <1>1, <1>2, <1>3, <1>4, <1>5, OneStays DEF Sup!HasProcessSlot, Sup!HasOwnerSlot, PlaceFits

(* The leader of a group exits.                                              *)
LEMMA LeaderExitsSup ==
  ASSUME Sup!SupervisorAssumption, SupInv, NEW c \in Launches, Sup!LeaderExits(c)
  PROVE  SupInv'
<1>1. Types /\ PlaceFits(c) /\ tree[c] = "alive"
  BY LaunchFacts DEF Sup!LeaderExits
<1>2. Types' /\ tree'[c] = "exited"
  BY <1>1 DEF Types, Sup!LeaderExits, Sup!slots
<1>3. Alone(c) /\ UNCHANGED Sup!slots
  BY <1>1 DEF Types, Alone, Sup!LeaderExits, Sup!SupervisorAssumption
<1>4. /\ stage'[c] = stage[c] /\ end'[c] = end[c] /\ down'[c] = down[c]
      /\ registered' = registered /\ reap' = reap /\ cancels' = cancels
  BY DEF Sup!LeaderExits
<1>5. PlaceFits(c)'
  BY <1>1, <1>2, <1>4 DEF PlaceFits
<1>. QED
  BY <1>1, <1>2, <1>3, <1>4, <1>5, OneStays DEF Sup!HasProcessSlot, Sup!HasOwnerSlot, PlaceFits

(* A group is killed.                                                        *)
LEMMA TearDownSup ==
  ASSUME Sup!SupervisorAssumption, SupInv, NEW c \in Launches, Sup!TearDown(c)
  PROVE  SupInv'
<1>1. Types /\ PlaceFits(c) /\ down[c] = "working"
  BY LaunchFacts DEF Sup!TearDown
<1>2. Types' /\ tree'[c] = "dead"
  BY <1>1 DEF Types, Sup!TearDown, Sup!slots
<1>3. Alone(c) /\ UNCHANGED Sup!slots
  BY <1>1 DEF Types, Alone, Sup!TearDown, Sup!SupervisorAssumption
<1>4. /\ stage'[c] = stage[c] /\ end'[c] = end[c]
      /\ registered' = registered /\ reap' = reap /\ cancels' = cancels
  BY DEF Sup!TearDown
<1>5. PlaceFits(c)'
  BY <1>1, <1>2, <1>4 DEF PlaceFits
<1>. QED
  BY <1>1, <1>2, <1>3, <1>4, <1>5, OneStays DEF Sup!HasProcessSlot, Sup!HasOwnerSlot, PlaceFits

(* A launch of a cancelled owner ends.                                      *)
LEMMA AbortedSup ==
  ASSUME Sup!SupervisorAssumption, SupInv, NEW c \in Launches, Sup!Aborted(c)
  PROVE  SupInv'
<1>1. Types /\ PlaceFits(c) /\ stage[c] = "aborting"
  BY LaunchFacts DEF Sup!Aborted
<1>2. Types' /\ stage'[c] = "left"
  BY <1>1 DEF Types, Sup!Aborted, Sup!Finish, Sup!Go, Sup!slots, Sup!Places
<1>3. Alone(c) /\ UNCHANGED Sup!slots
  BY <1>1 DEF Types, Alone, Sup!Aborted, Sup!Finish, Sup!Go, Sup!SupervisorAssumption
<1>4. /\ tree'[c] = tree[c] /\ down'[c] = down[c] /\ c \notin registered'
      /\ end'[c] = (IF end[c] = "no" THEN "closing" ELSE end[c])
      /\ reap' \subseteq reap /\ cancels' = cancels
  BY <1>1 DEF Sup!Aborted, Sup!Finish, Types
<1>5. PlaceFits(c)'
  BY <1>1, <1>2, <1>4 DEF PlaceFits
<1>. QED
  BY <1>1, <1>2, <1>3, <1>4, <1>5, OneStays DEF Sup!HasProcessSlot, Sup!HasOwnerSlot, PlaceFits

(* A run returns.                                                           *)
LEMMA CommunicatedSup ==
  ASSUME Sup!SupervisorAssumption, SupInv, NEW c \in Launches, Sup!Communicated(c)
  PROVE  SupInv'
<1>1. Types /\ PlaceFits(c) /\ stage[c] = "running"
  BY LaunchFacts DEF Sup!Communicated
<1>2. Types' /\ stage'[c] = "left"
  BY <1>1 DEF Types, Sup!Communicated, Sup!Finish, Sup!Go, Sup!slots, Sup!Places
<1>3. Alone(c) /\ UNCHANGED Sup!slots
  BY <1>1 DEF Types, Alone, Sup!Communicated, Sup!Finish, Sup!Go, Sup!SupervisorAssumption
<1>4. /\ tree'[c] = tree[c] /\ down'[c] = down[c] /\ c \notin registered'
      /\ end'[c] = (IF end[c] = "no" THEN "closing" ELSE end[c])
      /\ reap' \subseteq reap /\ cancels' = cancels
  BY <1>1 DEF Sup!Communicated, Sup!Finish, Types
<1>5. PlaceFits(c)'
  BY <1>1, <1>2, <1>4 DEF PlaceFits
<1>. QED
  BY <1>1, <1>2, <1>3, <1>4, <1>5, OneStays DEF Sup!HasProcessSlot, Sup!HasOwnerSlot, PlaceFits

(* An open returns.                                                         *)
LEMMA FlushedSup ==
  ASSUME Sup!SupervisorAssumption, SupInv, NEW c \in Launches, Sup!Flushed(c)
  PROVE  SupInv'
<1>1. Types /\ PlaceFits(c) /\ stage[c] = "flushing"
  BY LaunchFacts DEF Sup!Flushed
<1>2. Types' /\ stage'[c] = "left"
  BY <1>1 DEF Types, Sup!Flushed, Sup!Finish, Sup!Go, Sup!slots, Sup!Places
<1>3. Alone(c) /\ UNCHANGED Sup!slots
  BY <1>1 DEF Types, Alone, Sup!Flushed, Sup!Finish, Sup!Go, Sup!SupervisorAssumption
<1>4. /\ tree'[c] = tree[c] /\ down'[c] = down[c] /\ c \notin registered'
      /\ end'[c] = (IF end[c] = "no" THEN "closing" ELSE end[c])
      /\ reap' \subseteq reap /\ cancels' = cancels
  BY <1>1 DEF Sup!Flushed, Sup!Finish, Types
<1>5. PlaceFits(c)'
  BY <1>1, <1>2, <1>4 DEF PlaceFits
<1>. QED
  BY <1>1, <1>2, <1>3, <1>4, <1>5, OneStays DEF Sup!HasProcessSlot, Sup!HasOwnerSlot, PlaceFits

(* cancel_owner finishes a handle.                                          *)
LEMMA ReapSup ==
  ASSUME Sup!SupervisorAssumption, SupInv, NEW c \in Launches, Sup!Reap(c)
  PROVE  SupInv'
<1>1. Types /\ PlaceFits(c) /\ c \in reap
  BY LaunchFacts DEF Sup!Reap
<1>2. Types' /\ stage'[c] = stage[c]
  BY <1>1 DEF Types, Sup!Reap, Sup!Finish, Sup!Go, Sup!slots, Sup!Places
<1>3. Alone(c) /\ UNCHANGED Sup!slots
  BY <1>1 DEF Types, Alone, Sup!Reap, Sup!Finish, Sup!Go, Sup!SupervisorAssumption
<1>4. /\ tree'[c] = tree[c] /\ down'[c] = down[c] /\ c \notin registered'
      /\ end'[c] = (IF end[c] = "no" THEN "closing" ELSE end[c])
      /\ reap' \subseteq reap /\ cancels' = cancels
  BY <1>1 DEF Sup!Reap, Sup!Finish, Types
<1>5. PlaceFits(c)'
  BY <1>1, <1>2, <1>4 DEF PlaceFits
<1>. QED
  BY <1>1, <1>2, <1>3, <1>4, <1>5, OneStays DEF Sup!HasProcessSlot, Sup!HasOwnerSlot, PlaceFits

(* A body ends.                                                              *)
LEMMA BodyEndsSup ==
  ASSUME Sup!SupervisorAssumption, SupInv, NEW c \in Launches, Sup!BodyEnds(c)
  PROVE  SupInv'
<1>1. Types /\ PlaceFits(c) /\ stage[c] = "running"
  BY LaunchFacts DEF Sup!BodyEnds
<1>2. Types' /\ stage'[c] \in {"flushing", "cancelling"}
  BY <1>1 DEF Types, Sup!BodyEnds, Sup!StartCancel, Sup!Go, Sup!slots, Sup!Places
<1>3. Alone(c) /\ UNCHANGED Sup!slots
  BY <1>1 DEF Types, Alone, Sup!BodyEnds, Sup!StartCancel, Sup!Go, Sup!SupervisorAssumption
<1>4. /\ tree'[c] = tree[c] /\ end'[c] = end[c]
      /\ registered' = registered /\ reap' = reap /\ cancels' = cancels
  BY DEF Sup!BodyEnds
<1>5. PlaceFits(c)'
  BY <1>1, <1>2, <1>4 DEF PlaceFits
<1>. QED
  BY <1>1, <1>2, <1>3, <1>4, <1>5, OneStays DEF Sup!HasProcessSlot, Sup!HasOwnerSlot, PlaceFits

(* The process of a body is dead.                                            *)
LEMMA CancelDoneSup ==
  ASSUME Sup!SupervisorAssumption, SupInv, NEW c \in Launches, Sup!CancelDone(c)
  PROVE  SupInv'
<1>1. Types /\ PlaceFits(c) /\ stage[c] = "cancelling"
  BY LaunchFacts DEF Sup!CancelDone
<1>2. Types' /\ stage'[c] \in {"flushing", "left"}
  BY <1>1 DEF Types, Sup!CancelDone, Sup!Finish, Sup!Go, Sup!slots, Sup!Places
<1>3. Alone(c) /\ UNCHANGED Sup!slots
  BY <1>1 DEF Types, Alone, Sup!CancelDone, Sup!Finish, Sup!Go, Sup!SupervisorAssumption
<1>4. /\ tree'[c] = tree[c] /\ down'[c] = down[c] /\ reap' = reap /\ cancels' = cancels
      /\ end'[c] = end[c] \/ end'[c] = (IF end[c] = "no" THEN "closing" ELSE end[c])
      /\ c \in registered' => c \in registered /\ stage'[c] = "flushing"
  BY <1>1 DEF Sup!CancelDone, Sup!Finish, Sup!Go, Types
<1>5. PlaceFits(c)'
  BY <1>1, <1>2, <1>4 DEF PlaceFits
<1>. QED
  BY <1>1, <1>2, <1>3, <1>4, <1>5, OneStays DEF Sup!HasProcessSlot, Sup!HasOwnerSlot, PlaceFits

(* A call is cancelled in its teardown.                                      *)
LEMMA CancelTeardownSup ==
  ASSUME Sup!SupervisorAssumption, SupInv, NEW c \in Launches, Sup!Cancel(c), Sup!CancelTeardown(c),
         UNCHANGED <<Sup!slots, tree>>
  PROVE  SupInv'
<1>1. Types /\ PlaceFits(c) /\ stage[c] \in {"aborting", "cancelling", "flushing"}
  BY LaunchFacts DEF Sup!CancelTeardown
<1>0. cancels' = cancels + 1 /\ cancels < MaxCancels /\ UNCHANGED <<epoch, born, reap>>
  BY DEF Sup!Cancel
<1>2. Types' /\ stage'[c] = "left"
  BY <1>0, <1>1 DEF Types, Sup!CancelTeardown, Sup!Finish, Sup!Go, Sup!Places,
     Sup!SupervisorAssumption
<1>3. Alone(c) /\ UNCHANGED Sup!slots
  BY <1>0, <1>1 DEF Types, Alone, Sup!CancelTeardown, Sup!Finish, Sup!Go, Sup!SupervisorAssumption
<1>4. /\ tree'[c] = tree[c] /\ reap' = reap
      /\ end'[c] = end[c] \/ end'[c] = (IF end[c] = "no" THEN "closing" ELSE end[c])
      /\ c \in registered' => c \in registered /\ c \in Opens /\ cancels' > 0
  BY <1>0, <1>1 DEF Sup!CancelTeardown, Sup!Finish, Sup!Go, Types, Sup!SupervisorAssumption
<1>5. PlaceFits(c)'
  BY <1>1, <1>2, <1>4 DEF PlaceFits
<1>. QED
  BY <1>1, <1>2, <1>3, <1>4, <1>5, OneStays DEF Sup!HasProcessSlot, Sup!HasOwnerSlot, PlaceFits

-----------------------------------------------------------------------------
(* Steps that move slots. *)

(* What is said of a semaphore after a step is said of what it is then.      *)
LEMMA SemPrimed ==
  /\ SemFits(process)' <=> SemFits(process')
  /\ SemFits(workload)' <=> SemFits(workload')
  /\ Total(process)' = Total(process') /\ Total(workload)' = Total(workload')
  /\ Asking(process)' = Asking(process') /\ Asking(workload)' = Asking(workload')
  BY DEF SemFits, Total, Asking, Queued

(* The semaphores of the supervisor.                                         *)
LEMMA Sems ==
  ASSUME Sup!SupervisorAssumption, SupInv
  PROVE  /\ SemFits(process) /\ Total(process) \in Nat
         /\ SemFits(workload) /\ Total(workload) \in Nat
         /\ refs \in [Owners -> Nat]
  BY SemFacts DEF SupInv

(* With its owner's slot: a call takes a process slot, waits, or gives up.   *)
LEMMA AdmitSup ==
  ASSUME Sup!SupervisorAssumption, SupInv, NEW c \in Launches, stage[c] \in {"called", "workload"},
         Sup!Admit(c), tree' = tree
  PROVE  /\ SemFits(process)'
         /\ \A d \in Launches : d # c => (d \in Asking(process)' <=> d \in Asking(process))
         /\ c \in Asking(process)' <=> stage'[c] = "process"
         /\ stage'[c] \in {"spawning", "process", "left"} /\ stage' = [stage EXCEPT ![c] = stage'[c]]
         /\ end'[c] = (IF stage'[c] = "left" THEN "owner" ELSE "no")
         /\ end' = [end EXCEPT ![c] = end'[c]]
         /\ ProcessMoves(c) /\ ~Sup!HasOwnerSlot(c) /\ Sup!HasOwnerSlot(c)'
<1>1. Types /\ PlaceFits(c) /\ tree[c] = "none" /\ end[c] = "no" /\ c \notin Asking(process)
  BY LaunchFacts DEF PlaceFits
<1>2. ~Sup!HasProcessSlot(c) /\ ~Sup!HasOwnerSlot(c)
  BY <1>1 DEF Sup!HasProcessSlot, Sup!HasOwnerSlot
<1>3. CASE Sup!CanTake(process) /\ ~Sup!Cancelled(c) /\ process' = Sup!Take(process) /\ Sup!Go(c, "spawning")
           /\ UNCHANGED end
  <2>1. stage'[c] = "spawning" /\ stage' = [stage EXCEPT ![c] = stage'[c]] /\ end' = [end EXCEPT ![c] = end'[c]]
        /\ end'[c] = "no"
    BY <1>1, <1>3 DEF Types, Sup!Go
  <2>2. SemFits(process)' /\ Total(process)' = Total(process) - 1
        /\ Asking(process)' = Asking(process)
    BY <1>3, Sems, TakeSem, SemPrimed
  <2>3. Sup!HasProcessSlot(c)' /\ Sup!HasOwnerSlot(c)'
    BY <2>1 DEF Sup!HasProcessSlot, Sup!HasOwnerSlot
  <2>. QED
    BY <1>1, <1>2, <2>1, <2>2, <2>3 DEF ProcessMoves
<1>4. CASE Sup!CanTake(process) /\ Sup!Cancelled(c) /\ Sup!GiveUp(c) /\ UNCHANGED process
  <2>1. stage'[c] = "left" /\ stage' = [stage EXCEPT ![c] = stage'[c]] /\ end' = [end EXCEPT ![c] = end'[c]]
        /\ end'[c] = "owner"
    BY <1>1, <1>4 DEF Types, Sup!Go, Sup!GiveUp
  <2>2. SemFits(process)' /\ Total(process)' = Total(process)
        /\ Asking(process)' = Asking(process)
    BY <1>4, Sems, SemPrimed
  <2>3. ~Sup!HasProcessSlot(c)' /\ Sup!HasOwnerSlot(c)'
    BY <1>1, <2>1 DEF Sup!HasProcessSlot, Sup!HasOwnerSlot
  <2>. QED
    BY <1>1, <1>2, <2>1, <2>2, <2>3 DEF ProcessMoves
<1>5. CASE ~Sup!CanTake(process) /\ process' = Sup!Await(process, c) /\ Sup!Go(c, "process") /\ UNCHANGED end
  <2>1. stage'[c] = "process" /\ stage' = [stage EXCEPT ![c] = stage'[c]] /\ end' = [end EXCEPT ![c] = end'[c]]
        /\ end'[c] = "no"
    BY <1>1, <1>5 DEF Types, Sup!Go
  <2>2. SemFits(process)' /\ Total(process)' = Total(process)
        /\ Asking(process)' = Asking(process) \cup {c}
    BY <1>1, <1>5, Sems, AwaitSem, SemPrimed
  <2>3. ~Sup!HasProcessSlot(c)' /\ Sup!HasOwnerSlot(c)'
    BY <1>1, <2>1 DEF Sup!HasProcessSlot, Sup!HasOwnerSlot
  <2>. QED
    BY <1>1, <1>2, <2>1, <2>2, <2>3 DEF ProcessMoves
<1>. QED
  BY <1>3, <1>4, <1>5 DEF Sup!Admit

(* A call asks for its owner's slot.                                         *)
LEMMA AcquireOwnerSlotSup ==
  ASSUME Sup!SupervisorAssumption, SupInv, NEW c \in Launches, Sup!AcquireOwnerSlot(c)
  PROVE  SupInv'
<1> DEFINE o == OwnerOf[c]
<1>1. Types /\ PlaceFits(c) /\ stage[c] = "called" /\ tree[c] = "none" /\ end[c] = "no"
  BY LaunchFacts DEF Sup!AcquireOwnerSlot, PlaceFits
<1>2. /\ tree' = tree /\ down' = down /\ registered' = registered /\ reap' = reap
      /\ epoch' = epoch /\ born' = born /\ cancels' = cancels
  BY DEF Sup!AcquireOwnerSlot
<1>3. o \in Owners /\ refs[o] \in Nat
  BY Sems DEF Sup!SupervisorAssumption
<1>4. c \notin Asking(workload) /\ c \notin Asking(process)
  BY <1>1, LaunchFacts
<1>5. ~Sup!HasProcessSlot(c) /\ ~Sup!HasOwnerSlot(c)
  BY <1>1 DEF Sup!HasProcessSlot, Sup!HasOwnerSlot
<1>6. CASE /\ refs[o] > 0 \/ Sup!CanTake(workload)
           /\ workload' = IF refs[o] > 0 THEN workload ELSE Sup!Take(workload)
           /\ refs' = [refs EXCEPT ![o] = @ + 1]
           /\ Sup!Admit(c)
  <2>1. /\ SemFits(process)'
        /\ \A d \in Launches : d # c => (d \in Asking(process)' <=> d \in Asking(process))
        /\ c \in Asking(process)' <=> stage'[c] = "process"
        /\ ProcessMoves(c) /\ Sup!HasOwnerSlot(c)'
    BY <1>1, <1>2, <1>6, AdmitSup
  <2>2. /\ stage'[c] \in {"spawning", "process", "left"} /\ stage' = [stage EXCEPT ![c] = stage'[c]]
        /\ end'[c] = (IF stage'[c] = "left" THEN "owner" ELSE "no")
        /\ end' = [end EXCEPT ![c] = end'[c]]
    BY <1>1, <1>2, <1>6, AdmitSup
  <2>3. SemFits(workload)' /\ Asking(workload)' = Asking(workload)
        /\ Total(workload)' = IF refs[o] > 0 THEN Total(workload) ELSE Total(workload) - 1
    BY <1>6, Sems, TakeSem, SemPrimed
  <2>4. OwnerMoves(c)
    BY <1>5, <1>6, <2>1, <2>3 DEF OwnerMoves
  <2>5. Types' /\ Alone(c)
    BY <1>1, <1>2, <2>2 DEF Types, Alone, Sup!Places, Sup!SupervisorAssumption
  <2>6. PlaceFits(c)'
    BY <1>1, <1>2, <2>2 DEF PlaceFits
  <2>7. stage'[c] # "workload"
    BY <2>2
  <2>. QED
    BY <1>4, <2>1, <2>3, <2>4, <2>5, <2>6, <2>7, OneMoves
<1>7. CASE /\ workload' = Sup!Await(workload, c) /\ Sup!Go(c, "workload")
           /\ UNCHANGED <<refs, process, end>>
  <2>1. /\ stage'[c] = "workload" /\ stage' = [stage EXCEPT ![c] = stage'[c]]
    BY <1>1, <1>7 DEF Types, Sup!Go
  <2>2. SemFits(workload)' /\ Asking(workload)' = Asking(workload) \cup {c}
        /\ Total(workload)' = Total(workload)
    BY <1>4, <1>7, Sems, AwaitSem, SemPrimed
  <2>3. SemFits(process)' /\ Asking(process)' = Asking(process) /\ Total(process)' = Total(process)
    BY <1>7, Sems, SemPrimed
  <2>4. ~Sup!HasProcessSlot(c)' /\ ~Sup!HasOwnerSlot(c)'
    BY <1>1, <1>2, <1>7, <2>1 DEF Sup!HasProcessSlot, Sup!HasOwnerSlot
  <2>5. ProcessMoves(c) /\ OwnerMoves(c)
    BY <1>5, <1>7, <2>2, <2>3, <2>4 DEF ProcessMoves, OwnerMoves
  <2>6. Types' /\ Alone(c)
    BY <1>1, <1>2, <1>7, <2>1 DEF Types, Alone, Sup!Places, Sup!SupervisorAssumption
  <2>7. PlaceFits(c)'
    BY <1>1, <1>2, <1>7, <2>1 DEF PlaceFits
  <2>. QED
    BY <1>4, <2>1, <2>2, <2>3, <2>5, <2>6, <2>7, OneMoves
<1>. QED
  BY <1>6, <1>7 DEF Sup!AcquireOwnerSlot

(* A granted call goes on with a slot for its owner, or gives it back.       *)
LEMMA ResumeWorkloadSup ==
  ASSUME Sup!SupervisorAssumption, SupInv, NEW c \in Launches, Sup!ResumeWorkload(c)
  PROVE  SupInv'
<1> DEFINE o == OwnerOf[c]
<1>1. Types /\ PlaceFits(c) /\ stage[c] = "workload" /\ tree[c] = "none" /\ end[c] = "no"
  BY LaunchFacts DEF Sup!ResumeWorkload, PlaceFits
<1>2. /\ tree' = tree /\ down' = down /\ registered' = registered /\ reap' = reap
      /\ epoch' = epoch /\ born' = born /\ cancels' = cancels
  BY DEF Sup!ResumeWorkload
<1>3. o \in Owners /\ refs[o] \in Nat
  BY Sems DEF Sup!SupervisorAssumption
<1>4. /\ c \in workload.granted /\ Sup!Admit(c)
      /\ refs' = [refs EXCEPT ![o] = @ + 1]
      /\ workload' = IF refs[o] > 0 THEN Sup!Give(Sup!Resume(workload, c)) ELSE Sup!Resume(workload, c)
  BY DEF Sup!ResumeWorkload
<1>5. ~Sup!HasOwnerSlot(c)
  BY <1>1 DEF Sup!HasProcessSlot, Sup!HasOwnerSlot
<1>6. /\ SemFits(process)'
      /\ \A d \in Launches : d # c => (d \in Asking(process)' <=> d \in Asking(process))
      /\ c \in Asking(process)' <=> stage'[c] = "process"
      /\ ProcessMoves(c) /\ Sup!HasOwnerSlot(c)'
  BY <1>1, <1>2, <1>4, AdmitSup
<1>7. /\ stage'[c] \in {"spawning", "process", "left"} /\ stage' = [stage EXCEPT ![c] = stage'[c]]
      /\ end'[c] = (IF stage'[c] = "left" THEN "owner" ELSE "no")
      /\ end' = [end EXCEPT ![c] = end'[c]]
  BY <1>1, <1>2, <1>4, AdmitSup
<1>8. /\ SemFits(Sup!Resume(workload, c)) /\ Total(Sup!Resume(workload, c)) = Total(workload) - 1
      /\ Asking(Sup!Resume(workload, c)) = Asking(workload) \ {c}
  BY <1>4, Sems, ResumeSem
<1>9. /\ SemFits(Sup!Give(Sup!Resume(workload, c)))
      /\ Total(Sup!Give(Sup!Resume(workload, c))) = Total(workload) - 1 + 1
      /\ Asking(Sup!Give(Sup!Resume(workload, c))) = Asking(workload) \ {c}
  BY <1>8, GiveSem
<1>10. SemFits(workload)' /\ Asking(workload)' = Asking(workload) \ {c}
       /\ Total(workload)' = IF refs[o] > 0 THEN Total(workload) ELSE Total(workload) - 1
  BY <1>4, <1>8, <1>9, Sems, SemPrimed
<1>11. OwnerMoves(c)
  BY <1>4, <1>5, <1>6, <1>10 DEF OwnerMoves
<1>12. Types' /\ Alone(c)
  BY <1>1, <1>2, <1>7 DEF Types, Alone, Sup!Places, Sup!SupervisorAssumption
<1>13. PlaceFits(c)'
  BY <1>1, <1>2, <1>7 DEF PlaceFits
<1>14. stage'[c] # "workload"
  BY <1>7
<1>. QED
  BY <1>6, <1>10, <1>11, <1>12, <1>13, <1>14, OneMoves

(* A call that no longer wants, or cannot use, a process slot gives up.      *)
LEMMA GivesUp ==
  ASSUME Sup!SupervisorAssumption, SupInv, NEW c \in Launches, Sup!GiveUp(c),
         stage[c] \in {"process", "spawning"},
         UNCHANGED <<workload, refs, epoch, registered, born, tree, down, reap>>,
         cancels' \in 0 .. MaxCancels, cancels' >= cancels, SemFits(process)',
         Asking(process)' = Asking(process) \ {c},
         Total(process)' = IF stage[c] = "process" THEN Total(process) ELSE Total(process) + 1
  PROVE  SupInv'
<1>1. Types /\ PlaceFits(c) /\ tree[c] = "none" /\ end[c] = "no" /\ c \notin Asking(workload)
  BY LaunchFacts DEF PlaceFits
<1>2. /\ stage'[c] = "left" /\ stage' = [stage EXCEPT ![c] = "left"]
      /\ end'[c] = "owner" /\ end' = [end EXCEPT ![c] = "owner"]
  BY <1>1 DEF Types, Sup!GiveUp, Sup!Go
<1>3. SemFits(workload)' /\ Asking(workload)' = Asking(workload) /\ Total(workload)' = Total(workload)
  BY Sems, SemPrimed
<1>4. (Sup!HasProcessSlot(c) <=> stage[c] = "spawning") /\ Sup!HasOwnerSlot(c)
  BY <1>1 DEF Sup!HasProcessSlot, Sup!HasOwnerSlot
<1>5. ~Sup!HasProcessSlot(c)' /\ Sup!HasOwnerSlot(c)'
  BY <1>1, <1>2 DEF Sup!HasProcessSlot, Sup!HasOwnerSlot
<1>6. ProcessMoves(c) /\ OwnerMoves(c)
  BY <1>3, <1>4, <1>5 DEF ProcessMoves, OwnerMoves
<1>7. Types'
  BY <1>1, <1>2 DEF Types, Sup!Places
<1>8. Alone(c)
  BY <1>1, <1>2 DEF Types, Alone, Sup!SupervisorAssumption
<1>9. PlaceFits(c)'
  BY <1>1, <1>2 DEF PlaceFits
<1>. QED
  BY <1>1, <1>2, <1>3, <1>6, <1>7, <1>8, <1>9, OneMoves

(* A granted call looks at the generation and goes on.                       *)
LEMMA ResumeProcessSup ==
  ASSUME Sup!SupervisorAssumption, SupInv, NEW c \in Launches, Sup!ResumeProcess(c)
  PROVE  SupInv'
<1>1. Types /\ PlaceFits(c) /\ stage[c] = "process" /\ tree[c] = "none" /\ end[c] = "no"
      /\ c \notin Asking(workload) /\ cancels \in 0 .. MaxCancels
  BY LaunchFacts DEF Sup!ResumeProcess, PlaceFits, Types
<1>2. /\ workload' = workload /\ refs' = refs
      /\ tree' = tree /\ down' = down /\ registered' = registered /\ reap' = reap
      /\ epoch' = epoch /\ born' = born /\ cancels' = cancels
  BY DEF Sup!ResumeProcess
<1>3. /\ SemFits(Sup!Resume(process, c)) /\ Total(Sup!Resume(process, c)) = Total(process) - 1
      /\ Asking(Sup!Resume(process, c)) = Asking(process) \ {c}
  BY Sems, ResumeSem DEF Sup!ResumeProcess
<1>4. /\ SemFits(Sup!Give(Sup!Resume(process, c)))
      /\ Total(Sup!Give(Sup!Resume(process, c))) = Total(process) - 1 + 1
      /\ Asking(Sup!Give(Sup!Resume(process, c))) = Asking(process) \ {c}
  BY <1>3, GiveSem
<1>5. CASE process' = Sup!Resume(process, c) /\ Sup!Go(c, "spawning") /\ UNCHANGED end
  <2>1. stage'[c] = "spawning" /\ stage' = [stage EXCEPT ![c] = "spawning"]
    BY <1>1, <1>5 DEF Types, Sup!Go
  <2>2. /\ SemFits(process)' /\ Asking(process)' = Asking(process) \ {c}
        /\ Total(process)' = Total(process) - 1
    BY <1>3, <1>5, SemPrimed
  <2>3. SemFits(workload)' /\ Asking(workload)' = Asking(workload) /\ Total(workload)' = Total(workload)
    BY <1>2, Sems, SemPrimed
  <2>4. ~Sup!HasProcessSlot(c) /\ Sup!HasOwnerSlot(c) /\ Sup!HasProcessSlot(c)' /\ Sup!HasOwnerSlot(c)'
    BY <1>1, <2>1 DEF Sup!HasProcessSlot, Sup!HasOwnerSlot
  <2>5. ProcessMoves(c) /\ OwnerMoves(c)
    BY <1>2, <2>2, <2>3, <2>4 DEF ProcessMoves, OwnerMoves
  <2>6. Types'
    BY <1>1, <1>2, <1>5, <2>1 DEF Types, Sup!Places
  <2>7. Alone(c)
    BY <1>1, <1>2, <1>5, <2>1 DEF Types, Alone, Sup!SupervisorAssumption
  <2>8. PlaceFits(c)'
    BY <1>1, <1>2, <1>5, <2>1 DEF PlaceFits
  <2>. QED
    BY <1>1, <2>1, <2>2, <2>3, <2>5, <2>6, <2>7, <2>8, OneMoves
<1>6. CASE process' = Sup!Give(Sup!Resume(process, c)) /\ Sup!GiveUp(c)
  <2>1. /\ SemFits(process)' /\ Asking(process)' = Asking(process) \ {c}
        /\ Total(process)' = Total(process)
    BY <1>4, <1>6, Sems, SemPrimed
  <2>2. cancels' \in 0 .. MaxCancels /\ cancels' >= cancels
    BY <1>1, <1>2 DEF Sup!SupervisorAssumption
  <2>. QED
    BY <1>1, <1>2, <1>6, <2>1, <2>2, GivesUp
<1>. QED
  BY <1>5, <1>6 DEF Sup!ResumeProcess

(* The process cannot be started.                                            *)
LEMMA SpawnFailsSup ==
  ASSUME Sup!SupervisorAssumption, SupInv, NEW c \in Launches, Sup!SpawnFails(c)
  PROVE  SupInv'
<1>1. stage[c] = "spawning" /\ cancels \in 0 .. MaxCancels /\ c \notin Asking(process)
  BY LaunchFacts DEF Sup!SpawnFails, Types
<1>2. /\ SemFits(process)' /\ Asking(process)' = Asking(process) \ {c}
      /\ Total(process)' = Total(process) + 1
  BY <1>1, Sems, GiveSem, SemPrimed DEF Sup!SpawnFails
<1>3. cancels' \in 0 .. MaxCancels /\ cancels' >= cancels /\ Sup!GiveUp(c)
      /\ UNCHANGED <<workload, refs, epoch, registered, born, tree, down, reap>>
  BY <1>1 DEF Sup!SpawnFails, Sup!SupervisorAssumption
<1>. QED
  BY <1>1, <1>2, <1>3, GivesUp

(* Both slots go back, or the owner's alone.                                 *)
LEMMA CloseSup ==
  ASSUME Sup!SupervisorAssumption, SupInv, NEW c \in Launches, Sup!Close(c)
  PROVE  SupInv'
<1> DEFINE o == OwnerOf[c]
<1>1. Types /\ PlaceFits(c) /\ end[c] \in {"closing", "owner"}
  BY LaunchFacts DEF Sup!Close
<1>2. /\ stage[c] \notin {"new", "called", "workload", "process", "spawning"}
      /\ end[c] = "closing" <=> tree[c] # "none"
      /\ c \notin Asking(workload) /\ c \notin Asking(process)
  BY <1>1, LaunchFacts DEF PlaceFits
<1>3. /\ stage' = stage /\ down' = down /\ registered' = registered /\ reap' = reap
      /\ epoch' = epoch /\ born' = born /\ cancels' = cancels
      /\ end' = [end EXCEPT ![c] = "done"]
  BY DEF Sup!Close
<1>4. o \in Owners /\ refs[o] \in Nat
  BY Sems DEF Sup!SupervisorAssumption
<1>5. /\ refs' = [refs EXCEPT ![o] = @ - 1]
      /\ workload' = IF refs[o] = 1 THEN Sup!Give(workload) ELSE workload
  BY DEF Sup!Close, Sup!ReleaseOwnerSlot
<1>6. /\ SemFits(workload)' /\ Asking(workload)' = Asking(workload)
      /\ Total(workload)' = IF refs[o] = 1 THEN Total(workload) + 1 ELSE Total(workload)
  BY <1>5, Sems, GiveSem, SemPrimed
<1>7. /\ SemFits(process)' /\ Asking(process)' = Asking(process)
      /\ Total(process)' = IF end[c] = "closing" THEN Total(process) + 1 ELSE Total(process)
  BY <1>1, Sems, GiveSem, SemPrimed DEF Sup!Close
<1>8. /\ tree' = IF end[c] = "closing" THEN [tree EXCEPT ![c] = "dead"] ELSE tree
      /\ end'[c] = "done"
  BY <1>1, <1>3 DEF Sup!Close, Types
<1>9. (Sup!HasProcessSlot(c) <=> end[c] = "closing") /\ Sup!HasOwnerSlot(c)
  BY <1>1, <1>2 DEF Sup!HasProcessSlot, Sup!HasOwnerSlot
<1>10. ~Sup!HasProcessSlot(c)' /\ ~Sup!HasOwnerSlot(c)'
  BY <1>2, <1>3, <1>8 DEF Sup!HasProcessSlot, Sup!HasOwnerSlot
<1>11. ProcessMoves(c) /\ OwnerMoves(c)
  BY <1>5, <1>6, <1>7, <1>9, <1>10 DEF ProcessMoves, OwnerMoves
<1>12. Types'
  BY <1>1, <1>3, <1>8 DEF Types
<1>13. Alone(c)
  BY <1>1, <1>3, <1>8 DEF Types, Alone, Sup!SupervisorAssumption
<1>14. PlaceFits(c)'
  BY <1>1, <1>2, <1>3, <1>8 DEF PlaceFits, Types
<1>. QED
  BY <1>2, <1>3, <1>6, <1>7, <1>11, <1>12, <1>13, <1>14, OneMoves

(* A call is cancelled where it waits.                                       *)
LEMMA CancelWaitingSup ==
  ASSUME Sup!SupervisorAssumption, SupInv, NEW c \in Launches, Sup!Cancel(c), Sup!CancelWaiting(c),
         UNCHANGED <<registered, tree, down>>
  PROVE  SupInv'
<1>1. Types /\ PlaceFits(c) /\ cancels \in Nat
  BY LaunchFacts DEF Types, Sup!SupervisorAssumption
<1>2. /\ registered' = registered /\ tree' = tree /\ down' = down
      /\ epoch' = epoch /\ born' = born /\ reap' = reap
      /\ cancels' \in 0 .. MaxCancels /\ cancels' >= cancels /\ cancels' = cancels + 1
  BY <1>1 DEF Sup!Cancel, Sup!SupervisorAssumption
<1>3. CASE stage[c] = "called" /\ Sup!Go(c, "left") /\ UNCHANGED <<Sup!slots, end>>
  <2>1. stage'[c] = "left" /\ stage' = [stage EXCEPT ![c] = "left"] /\ end' = end
    BY <1>1, <1>3 DEF Types, Sup!Go
  <2>2. Types' /\ Alone(c)
    BY <1>1, <1>2, <2>1 DEF Types, Alone, Sup!Places, Sup!SupervisorAssumption
  <2>3. PlaceFits(c)'
    BY <1>1, <1>2, <1>3, <2>1 DEF PlaceFits
  <2>. QED
    BY <1>1, <1>2, <1>3, <2>1, <2>2, <2>3, OneStays DEF Sup!HasProcessSlot, Sup!HasOwnerSlot,
       PlaceFits
<1>4. CASE stage[c] = "workload" /\ workload' = Sup!Quit(workload, c) /\ Sup!Go(c, "left")
           /\ UNCHANGED <<process, refs, end>>
  <2>1. stage'[c] = "left" /\ stage' = [stage EXCEPT ![c] = "left"] /\ end' = end
    BY <1>1, <1>4 DEF Types, Sup!Go
  <2>2. Types' /\ Alone(c)
    BY <1>1, <1>2, <2>1 DEF Types, Alone, Sup!Places, Sup!SupervisorAssumption
  <2>3. PlaceFits(c)' /\ tree[c] = "none" /\ end[c] = "no"
    BY <1>1, <1>2, <1>4, <2>1 DEF PlaceFits
  <2>4. c \in Asking(workload) /\ c \notin Asking(process)
    BY <1>4, LaunchFacts
  <2>5. /\ SemFits(workload)' /\ Asking(workload)' = Asking(workload) \ {c}
        /\ Total(workload)' = Total(workload)
    BY <1>4, <2>4, Sems, QuitSem, SemPrimed
  <2>6. SemFits(process)' /\ Asking(process)' = Asking(process) /\ Total(process)' = Total(process)
    BY <1>4, Sems, SemPrimed
  <2>7. ~Sup!HasProcessSlot(c) /\ ~Sup!HasOwnerSlot(c) /\ ~Sup!HasProcessSlot(c)' /\ ~Sup!HasOwnerSlot(c)'
    BY <1>2, <1>4, <2>1, <2>3 DEF Sup!HasProcessSlot, Sup!HasOwnerSlot
  <2>8. ProcessMoves(c) /\ OwnerMoves(c)
    BY <1>4, <2>5, <2>6, <2>7 DEF ProcessMoves, OwnerMoves
  <2>. QED
    BY <2>1, <2>2, <2>3, <2>4, <2>5, <2>6, <2>8, OneMoves
<1>5. CASE stage[c] = "process" /\ process' = Sup!Quit(process, c) /\ Sup!GiveUp(c)
           /\ UNCHANGED <<workload, refs>>
  <2>1. c \in Asking(process)
    BY <1>5, LaunchFacts
  <2>2. /\ SemFits(process)' /\ Asking(process)' = Asking(process) \ {c}
        /\ Total(process)' = Total(process)
    BY <1>5, <2>1, Sems, QuitSem, SemPrimed
  <2>. QED
    BY <1>2, <1>5, <2>2, GivesUp
<1>6. CASE stage[c] = "spawning" /\ process' = Sup!Give(process) /\ Sup!GiveUp(c)
           /\ UNCHANGED <<workload, refs>>
  <2>1. c \notin Asking(process)
    BY <1>6, LaunchFacts
  <2>2. /\ SemFits(process)' /\ Asking(process)' = Asking(process) \ {c}
        /\ Total(process)' = Total(process) + 1
    BY <1>6, <2>1, Sems, GiveSem, SemPrimed
  <2>. QED
    BY <1>2, <1>6, <2>2, GivesUp
<1>. QED
  BY <1>3, <1>4, <1>5, <1>6 DEF Sup!CancelWaiting

(* An owner is cancelled: many handles move, and no slot.                    *)
LEMMA CancelOwnerSup ==
  ASSUME Sup!SupervisorAssumption, SupInv, NEW o \in Owners, Sup!CancelOwner(o)
  PROVE  SupInv'
<1> DEFINE mine == {c \in registered : OwnerOf[c] = o}
<1>1. /\ workload' = workload /\ process' = process /\ refs' = refs
      /\ stage' = stage /\ tree' = tree /\ end' = end /\ registered' = registered
      /\ born' = born /\ cancels' = cancels
      /\ epoch' = [epoch EXCEPT ![o] = 1]
  BY DEF Sup!CancelOwner, Sup!slots
<1>2. reap' = reap \cup mine /\ Sup!StartCancel(mine)
  BY DEF Sup!CancelOwner
<1>3. mine \subseteq registered
  OBVIOUS
<1> HIDE DEF mine
<1>4. Types
  BY DEF SupInv
<1>5. Types'
  BY <1>1, <1>2, <1>3, <1>4 DEF Types, Sup!StartCancel
<1>6. /\ Total(workload)' = Total(workload) /\ Total(process)' = Total(process)
      /\ Asking(workload)' = Asking(workload) /\ Asking(process)' = Asking(process)
      /\ SemFits(workload)' /\ SemFits(process)'
  BY <1>1, Sems, SemPrimed
<1>7. ASSUME NEW c \in Launches
      PROVE  /\ c \in Asking(workload)' <=> stage'[c] = "workload"
             /\ c \in Asking(process)' <=> stage'[c] = "process"
             /\ PlaceFits(c)'
  <2>1. /\ PlaceFits(c)
        /\ c \in Asking(workload) <=> stage[c] = "workload"
        /\ c \in Asking(process) <=> stage[c] = "process"
    BY LaunchFacts
  <2>2. tree[c] = "none" => c \notin mine /\ down'[c] = down[c]
    BY <1>2, <1>3, <2>1 DEF PlaceFits, Sup!StartCancel
  <2>3. c \in reap => c \in reap'
    BY <1>2
  <2>4. PlaceFits(c)'
    BY <1>1, <1>2, <2>1, <2>2, <2>3 DEF PlaceFits
  <2>. QED
    BY <1>1, <1>6, <2>1, <2>4
<1>8. Using' = Using /\ Served' = Served
  BY <1>1 DEF Using, Served, Sup!HasProcessSlot
<1>9. \A p \in Owners : UsingOf(p)' = UsingOf(p)
  BY <1>1 DEF UsingOf, Sup!HasOwnerSlot, Sup!HasProcessSlot
<1>10. ProcessesCounted' /\ OwnersCounted'
  BY <1>1, <1>6, <1>8, <1>9 DEF SupInv, ProcessesCounted, OwnersCounted
<1>. QED
  BY <1>1, <1>5, <1>6, <1>7, <1>10, Sems DEF SupInv

-----------------------------------------------------------------------------
(* The invariant and the theorem. *)

(* It holds at the start, when no slot is used.                              *)
LEMMA SupStarts == ASSUME Sup!SupervisorAssumption, Sup!Init PROVE SupInv
<1>1. MaxProcesses \in Nat /\ 2 * MaxProcesses \in Nat /\ MaxCancels \in Nat
  BY DEF Sup!SupervisorAssumption
<1>2. ASSUME NEW n \in Nat, NEW s, s = [free |-> n, waiting |-> << >>, granted |-> {}]
      PROVE  SemFits(s) /\ Total(s) = n /\ Asking(s) = {}
  <2>1. s.free = n /\ s.waiting = << >> /\ s.granted = {} /\ Len(s.waiting) = 0
    BY <1>2
  <2>2. << >> \in Seq(Launches)
    OBVIOUS
  <2>3. s \in [free : Nat, waiting : Seq(Launches), granted : SUBSET Launches]
    BY <1>2, <2>2
  <2>4. 1 .. Len(s.waiting) = {}
    BY <2>1
  <2>5. SemFits(s) /\ Asking(s) = {}
    BY <2>1, <2>3, <2>4 DEF SemFits, Asking, Queued
  <2>6. Total(s) = n
    <3>1. Total(s) = n + Cardinality({})
      BY <2>1 DEF Total
    <3>2. Cardinality({}) = 0
      BY FS_EmptySet
    <3>. QED
      BY <3>1, <3>2
  <2>. QED
    BY <2>5, <2>6
<1>3. /\ SemFits(workload) /\ Total(workload) = MaxProcesses /\ Asking(workload) = {}
      /\ SemFits(process) /\ Total(process) = 2 * MaxProcesses /\ Asking(process) = {}
  BY <1>1, <1>2 DEF Sup!Init
<1>4. Types /\ refs \in [Owners -> Nat]
  BY <1>1 DEF Types, Sup!Init, Sup!Places
<1>5. \A c \in Launches : stage[c] = "new" /\ PlaceFits(c)
  BY DEF Sup!Init, PlaceFits
<1>6. Using = {} /\ Served = {} /\ \A o \in Owners : UsingOf(o) = {} /\ refs[o] = 0
  BY DEF Using, UsingOf, Served, Sup!HasProcessSlot, Sup!HasOwnerSlot, Sup!Init
<1>7. ProcessesCounted /\ OwnersCounted
  BY <1>1, <1>3, <1>6, FS_EmptySet DEF ProcessesCounted, OwnersCounted
<1>. QED
  BY <1>3, <1>4, <1>5, <1>7 DEF SupInv

(* Every step keeps it.                                                      *)
LEMMA SupGoesOn ==
  ASSUME Sup!SupervisorAssumption, SupInv, [Sup!Next]_(Sup!vars)
  PROVE  SupInv'
<1>1. ASSUME NEW c \in Launches, Sup!Starting(c) PROVE SupInv'
  BY <1>1, AcquireOwnerSlotSup, ResumeWorkloadSup, ResumeProcessSup, SpawnedSup, SpawnFailsSup
     DEF Sup!Starting
<1>2. ASSUME NEW c \in Launches, Sup!Ending(c) PROVE SupInv'
  BY <1>2, AbortedSup, CommunicatedSup, BodyEndsSup, CancelDoneSup, FlushedSup DEF Sup!Ending
<1>3. ASSUME NEW c \in Launches, Sup!Shielded(c) PROVE SupInv'
  BY <1>3, TearDownSup, CloseSup, ReapSup DEF Sup!Shielded
<1>4. ASSUME NEW c \in Launches, Sup!Cancel(c) PROVE SupInv'
  <2>1. CASE Sup!CancelWaiting(c) /\ UNCHANGED <<registered, tree, down>>
    BY <1>4, <2>1, CancelWaitingSup
  <2>2. CASE Sup!CancelTeardown(c) /\ UNCHANGED <<Sup!slots, tree>>
    BY <1>4, <2>2, CancelTeardownSup
  <2>. QED
    BY <1>4, <2>1, <2>2 DEF Sup!Cancel
<1>5. ASSUME UNCHANGED Sup!vars PROVE SupInv'
  <2>1. UNCHANGED Sup!slots /\ UNCHANGED <<epoch, registered, stage, born, tree, down, end, reap, cancels>>
    BY <1>5 DEF Sup!vars, Sup!slots
  <2>2. /\ SemFits(workload)' /\ SemFits(process)'
        /\ Total(workload)' = Total(workload) /\ Total(process)' = Total(process)
        /\ Asking(workload)' = Asking(workload) /\ Asking(process)' = Asking(process)
    BY <2>1, Sems, SemPrimed DEF Sup!slots
  <2>3. Types' /\ \A c \in Launches : PlaceFits(c)'
    <3>1. Types /\ \A c \in Launches : PlaceFits(c)
      BY DEF SupInv
    <3>. QED
      BY <2>1, <3>1 DEF Types, PlaceFits
  <2>4. Using' = Using /\ Served' = Served /\ \A p \in Owners : UsingOf(p)' = UsingOf(p)
    BY <2>1 DEF Sup!slots, Using, UsingOf, Served, Sup!HasOwnerSlot, Sup!HasProcessSlot
  <2>5. ProcessesCounted' /\ OwnersCounted'
    BY <2>1, <2>2, <2>4 DEF Sup!slots, SupInv, ProcessesCounted, OwnersCounted
  <2>. QED
    BY <2>1, <2>2, <2>3, <2>5, Sems DEF Sup!slots, SupInv
<1>. QED
  BY <1>1, <1>2, <1>3, <1>4, <1>5, CallSup, LeaderExitsSup, CancelOwnerSup DEF Sup!Next

(* What the invariant says of the slots.                                     *)
LEMMA SupMeans == ASSUME Sup!SupervisorAssumption, SupInv PROVE Sup!SlotsAreKept
<1>1. IsFiniteSet(Launches) /\ MaxProcesses \in Nat
  BY CallsAreFinite DEF Sup!SupervisorAssumption
<1>2. ASSUME NEW c \in Launches, tree[c] \in {"alive", "exited"}
      PROVE  Sup!HasProcessSlot(c) /\ Sup!HasOwnerSlot(c)
  BY <1>2, LaunchFacts DEF PlaceFits, Sup!HasProcessSlot, Sup!HasOwnerSlot
<1>3. /\ IsFiniteSet(Using) /\ Cardinality(Using) \in Nat
      /\ IsFiniteSet(Served) /\ Cardinality(Served) \in Nat
      /\ \A o \in Owners : /\ IsFiniteSet(UsingOf(o)) /\ Cardinality(UsingOf(o)) \in Nat
                           /\ Cardinality(UsingOf(o)) <= Cardinality(Launches)
  <2>1. Using \subseteq Launches /\ \A o \in Owners : UsingOf(o) \subseteq Launches
    BY DEF Using, UsingOf
  <2>2. IsFiniteSet(Served)
    BY DEF SupInv, OwnersCounted
  <2>. QED
    BY <1>1, <2>1, <2>2, FS_Subset, FS_CardinalityType
<1>4. /\ 2 * MaxProcesses = Total(process) + Cardinality(Using)
      /\ MaxProcesses = Total(workload) + Cardinality(Served)
      /\ \A o \in Owners : refs[o] = Cardinality(UsingOf(o))
  BY DEF SupInv, ProcessesCounted, OwnersCounted
<1>5. /\ Total(workload) = workload.free + Cardinality(workload.granted)
      /\ Total(process) = process.free + Cardinality(process.granted)
  BY DEF Total
<1>6. /\ workload.free \in Nat /\ Cardinality(workload.granted) \in Nat
      /\ process.free \in Nat /\ Cardinality(process.granted) \in Nat
  BY Sems, SemFacts
<1>7. Sup!TypeOK
  <2>1. workload \in Sup!Semaphore(MaxProcesses)
    <3>1. workload.free \in 0 .. MaxProcesses
      BY <1>1, <1>3, <1>4, <1>5, <1>6
    <3>2. workload = [free |-> workload.free, waiting |-> workload.waiting, granted |-> workload.granted]
          /\ workload.waiting \in Seq(Launches) /\ workload.granted \in SUBSET Launches
      BY Sems, SemFacts
    <3>. QED
      BY <3>1, <3>2 DEF Sup!Semaphore
  <2>2. process \in Sup!Semaphore(2 * MaxProcesses)
    <3>1. process.free \in 0 .. 2 * MaxProcesses
      BY <1>1, <1>3, <1>4, <1>5, <1>6
    <3>2. process = [free |-> process.free, waiting |-> process.waiting, granted |-> process.granted]
          /\ process.waiting \in Seq(Launches) /\ process.granted \in SUBSET Launches
      BY Sems, SemFacts
    <3>. QED
      BY <3>1, <3>2 DEF Sup!Semaphore
  <2>3. Cardinality(Launches) \in Nat
    BY <1>1, FS_CardinalityType
  <2>4. \A o \in Owners : refs[o] \in 0 .. Cardinality(Launches)
    BY <1>3, <1>4, <2>3
  <2>5. refs \in [Owners -> 0 .. Cardinality(Launches)]
    BY <2>4, Sems
  <2>6. Types
    BY DEF SupInv
  <2>. QED
    BY <2>1, <2>2, <2>5, <2>6, SupLibrary DEF Sup!TypeOK, Types
<1>8. Sup!SlotsAddUp
  BY <1>4, <1>5, SupLibrary DEF Sup!SlotsAddUp, Using, UsingOf, Served
<1>9. Sup!LimitsHold
  <2> DEFINE living == {c \in Launches : tree[c] \in {"alive", "exited"}}
             owners == {OwnerOf[c] : c \in living}
  <2>1. living \subseteq Using
    BY <1>2 DEF Using
  <2>2. owners \subseteq Served
    <3>1. ASSUME NEW c \in living PROVE OwnerOf[c] \in Served
      <4>1. OwnerOf[c] \in Owners /\ c \in UsingOf(OwnerOf[c])
        BY <1>2 DEF UsingOf, Sup!SupervisorAssumption
      <4>2. Cardinality(UsingOf(OwnerOf[c])) # 0
        BY <1>3, <4>1, FS_EmptySet
      <4>. QED
        BY <1>3, <1>4, <4>1, <4>2 DEF Served
    <3>. QED
      BY <3>1
  <2> HIDE DEF living, owners
  <2>3. Cardinality(living) \in Nat /\ Cardinality(living) <= Cardinality(Using)
    BY <1>3, <2>1, FS_Subset, FS_CardinalityType
  <2>4. Cardinality(owners) \in Nat /\ Cardinality(owners) <= Cardinality(Served)
    BY <1>3, <2>2, FS_Subset, FS_CardinalityType
  <2>5. /\ Cardinality(living) + process.free + Cardinality(process.granted) <= 2 * MaxProcesses
        /\ Cardinality(owners) + workload.free + Cardinality(workload.granted) <= MaxProcesses
    BY <1>1, <1>3, <1>4, <1>5, <1>6, <2>3, <2>4
  <2>. QED
    BY <2>5, SupLibrary DEF Sup!LimitsHold, living, owners
<1>10. Sup!OnlyOpenLeaks
  BY LaunchFacts DEF Sup!OnlyOpenLeaks, Sup!Leaked, PlaceFits
<1>. QED
  BY <1>7, <1>8, <1>9, <1>10 DEF Sup!SlotsAreKept

(* No order of launches, failures, cancellations and teardowns loses a slot  *)
(* or returns one twice, the slots bound the processes that run, and only an *)
(* open that is cancelled in its teardown leaves a handle behind.            *)
THEOREM SupervisorSafe ==
  ASSUME Sup!SupervisorAssumption
  PROVE  Sup!Spec => []Sup!SlotsAreKept
<1>1. Sup!Init => SupInv
  BY SupStarts
<1>2. SupInv /\ [Sup!Next]_(Sup!vars) => SupInv'
  BY SupGoesOn
<1>3. SupInv => Sup!SlotsAreKept
  BY SupMeans
<1>. QED
  BY <1>1, <1>2, <1>3, PTL DEF Sup!Spec

-----------------------------------------------------------------------------
(* cancel_owner reaches every process. *)

Live(c) == tree[c] \in {"alive", "exited"}

\* A live process is known to the supervisor, being closed or being killed; and
\* is one of the last two if its owner has been cancelled.
Reached(c) ==
  /\ down[c] = "interrupted" => end[c] # "no"
  /\ down[c] = "done" => tree[c] = "dead"
  /\ Live(c) => c \in registered \/ end[c] = "closing" \/ down[c] = "working"
  /\ Sup!Cancelled(c) /\ Live(c) => down[c] = "working" \/ end[c] = "closing"

AllReached == \A c \in Launches : Reached(c)

(* A step of one call concerns no other.                                     *)
LEMMA OneReached ==
  ASSUME AllReached, NEW c \in Launches, Alone(c), Reached(c)', epoch' = epoch,
         \A d \in Launches : d # c => born'[d] = born[d]
  PROVE  AllReached'
<1>1. ASSUME NEW d \in Launches, d # c PROVE Reached(d)'
  <2>1. Reached(d)
    BY DEF AllReached
  <2>. QED
    BY <1>1, <2>1 DEF Alone, Reached, Live, Sup!Cancelled
<1>. QED
  BY <1>1 DEF AllReached

(* Launches.                                                                 *)
LEMMA StartingReached ==
  ASSUME Sup!SupervisorAssumption, SupInv, AllReached, NEW c \in Launches, Sup!Call(c) \/ Sup!Starting(c)
  PROVE  AllReached'
<1>1. Types /\ PlaceFits(c) /\ Reached(c)
  BY LaunchFacts DEF AllReached
<1>2. tree[c] = "none"
  BY <1>1 DEF PlaceFits, Sup!Call, Sup!Starting, Sup!AcquireOwnerSlot, Sup!ResumeWorkload,
     Sup!ResumeProcess, Sup!Spawned,
     Sup!SpawnFails
<1>3. CASE Sup!Spawned(c)
  <2>1. Alone(c)
    BY <1>1, <1>3 DEF Types, Alone, Sup!Spawned, Sup!Go, Sup!SupervisorAssumption
  <2>2. down[c] = "no" /\ epoch' = epoch /\ born' = born /\ end' = end
    BY <1>1, <1>2, <1>3 DEF PlaceFits, Sup!Spawned
  <2>3. \/ ~Sup!Cancelled(c) /\ c \in registered' /\ down' = down
        \/ down'[c] = "working"
    BY <1>1, <1>3 DEF Sup!Spawned, Types
  <2>4. Sup!Cancelled(c)' <=> Sup!Cancelled(c)
    BY <2>2 DEF Sup!Cancelled
  <2>5. Reached(c)'
    BY <2>2, <2>3, <2>4 DEF Reached
  <2>. QED
    BY <2>1, <2>2, <2>5, OneReached
<1>4. CASE Sup!Call(c) \/ Sup!AcquireOwnerSlot(c) \/ Sup!ResumeWorkload(c) \/ Sup!ResumeProcess(c) \/ Sup!SpawnFails(c)
  <2>1. tree' = tree /\ down' = down /\ registered' = registered /\ epoch' = epoch
        /\ reap' = reap /\ cancels' = cancels
    BY <1>4 DEF Sup!Call, Sup!AcquireOwnerSlot, Sup!ResumeWorkload, Sup!ResumeProcess,
       Sup!SpawnFails
  <2>2. \A d \in Launches : d # c => stage'[d] = stage[d] /\ end'[d] = end[d] /\ born'[d] = born[d]
    <3>1. ASSUME Sup!Call(c) PROVE \A d \in Launches : d # c => stage'[d] = stage[d] /\ end'[d] = end[d] /\ born'[d] = born[d]
      BY <1>1, <3>1 DEF Types, Sup!Call, Sup!Go
    <3>2. ASSUME Sup!Admit(c), born' = born
          PROVE \A d \in Launches : d # c => stage'[d] = stage[d] /\ end'[d] = end[d] /\ born'[d] = born[d]
      BY <1>1, <3>2 DEF Types, Sup!Admit, Sup!GiveUp, Sup!Go
    <3>3. CASE Sup!AcquireOwnerSlot(c)
      BY <1>1, <3>2, <3>3 DEF Types, Sup!AcquireOwnerSlot, Sup!Go
    <3>4. CASE Sup!ResumeWorkload(c)
      BY <3>2, <3>4 DEF Sup!ResumeWorkload
    <3>5. CASE Sup!ResumeProcess(c) \/ Sup!SpawnFails(c)
      BY <1>1, <3>5 DEF Types, Sup!ResumeProcess, Sup!SpawnFails, Sup!GiveUp, Sup!Go
    <3>. QED
      BY <1>4, <3>1, <3>3, <3>4, <3>5
  <2>3. Alone(c)
    BY <1>1, <2>1, <2>2 DEF Types, Alone, Sup!SupervisorAssumption
  <2>4. Reached(c)'
    BY <1>1, <1>2, <2>1 DEF Reached, Live, PlaceFits
  <2>. QED
    BY <2>1, <2>2, <2>3, <2>4, OneReached
<1>. QED
  BY <1>3, <1>4 DEF Sup!Starting

(* The ways out of a call, the shielded work, and cancellations of a call.   *)
LEMMA EndingReached ==
  ASSUME Sup!SupervisorAssumption, SupInv, AllReached, NEW c \in Launches,
         Sup!Ending(c) \/ Sup!Reap(c) \/ (Sup!Cancel(c) /\ Sup!CancelTeardown(c) /\ UNCHANGED tree)
  PROVE  AllReached'
<1>1. Types /\ PlaceFits(c) /\ Reached(c) /\ cancels \in Nat
  BY LaunchFacts DEF AllReached, Types, Sup!SupervisorAssumption
<1>2. epoch' = epoch /\ born' = born /\ tree' = tree
  BY DEF Sup!Ending, Sup!Aborted, Sup!Communicated, Sup!BodyEnds, Sup!CancelDone, Sup!Flushed,
     Sup!Reap, Sup!Cancel
<1>3. Alone(c)
  BY <1>1 DEF Types, Alone, Sup!Ending, Sup!Aborted, Sup!Communicated, Sup!BodyEnds,
     Sup!CancelDone, Sup!Flushed, Sup!Reap,
     Sup!Cancel, Sup!CancelTeardown, Sup!StartCancel, Sup!Finish, Sup!Go
<1>4. \/ Sup!Finish(c) /\ down' = down
      \/ Sup!Finish(c) /\ down'[c] = "interrupted"
      \/ UNCHANGED <<end, registered>>
           /\ (down'[c] = down[c] \/ (down[c] = "no" /\ down'[c] = "working"))
  BY <1>1 DEF Sup!Ending, Sup!Aborted, Sup!Communicated, Sup!BodyEnds, Sup!CancelDone,
     Sup!Flushed, Sup!Reap, Sup!Cancel,
     Sup!CancelTeardown, Sup!StartCancel, Types
<1>5. Sup!Cancelled(c)' <=> Sup!Cancelled(c)
  BY <1>2 DEF Sup!Cancelled
<1>6. Live(c) => tree[c] # "none" /\ end[c] \in {"no", "closing"}
  BY <1>1, LaunchFacts DEF Live, PlaceFits
<1>7. Reached(c)'
  <2>1. CASE Sup!Finish(c) /\ (down' = down \/ down'[c] = "interrupted")
    <3>1. end'[c] = IF end[c] = "no" THEN "closing" ELSE end[c]
      BY <1>1, <2>1 DEF Sup!Finish, Types
    <3>. QED
      BY <1>1, <1>2, <1>4, <1>5, <1>6, <2>1, <3>1 DEF Reached, Live
  <2>2. CASE UNCHANGED <<end, registered>>
               /\ (down'[c] = down[c] \/ (down[c] = "no" /\ down'[c] = "working"))
    BY <1>1, <1>2, <1>5, <2>2 DEF Reached, Live
  <2>. QED
    BY <1>4, <2>1, <2>2
<1>. QED
  BY <1>2, <1>3, <1>7, OneReached

(* A process ends, is killed, or is closed.                                  *)
LEMMA KilledReached ==
  ASSUME Sup!SupervisorAssumption, SupInv, AllReached, NEW c \in Launches,
         Sup!LeaderExits(c) \/ Sup!TearDown(c) \/ Sup!Close(c)
  PROVE  AllReached'
<1>1. Types /\ PlaceFits(c) /\ Reached(c) /\ cancels \in Nat
  BY LaunchFacts DEF AllReached, Types, Sup!SupervisorAssumption
<1>2. epoch' = epoch /\ born' = born /\ registered' = registered
  BY DEF Sup!LeaderExits, Sup!TearDown, Sup!Close
<1>3. Alone(c)
  BY <1>1 DEF Types, Alone, Sup!LeaderExits, Sup!TearDown, Sup!Close
<1>4. CASE Sup!LeaderExits(c)
  <2>1. tree[c] = "alive" /\ down' = down /\ end' = end
    BY <1>4 DEF Sup!LeaderExits
  <2>2. Reached(c)'
    BY <1>1, <1>2, <2>1 DEF Reached, Live, Sup!Cancelled
  <2>. QED
    BY <1>2, <1>3, <2>2, OneReached
<1>5. CASE Sup!TearDown(c)
  <2>1. tree'[c] = "dead" /\ down'[c] = "done"
    BY <1>1, <1>5 DEF Sup!TearDown, Types
  <2>2. Reached(c)'
    BY <2>1 DEF Reached, Live
  <2>. QED
    BY <1>2, <1>3, <2>2, OneReached
<1>6. CASE Sup!Close(c)
  <2>1. /\ end'[c] = "done" /\ down' = down
        /\ tree'[c] \in {"none", "dead"} /\ (tree[c] = "dead" => tree'[c] = "dead")
    BY <1>1, <1>6 DEF Sup!Close, Types, PlaceFits
  <2>2. Reached(c)'
    BY <1>1, <2>1 DEF Reached, Live
  <2>. QED
    BY <1>2, <1>3, <2>2, OneReached
<1>. QED
  BY <1>4, <1>5, <1>6

(* A call is cancelled where it waits: it has no process.                    *)
LEMMA WaitingReached ==
  ASSUME Sup!SupervisorAssumption, SupInv, AllReached, NEW c \in Launches, Sup!Cancel(c), Sup!CancelWaiting(c),
         UNCHANGED <<registered, tree, down>>
  PROVE  AllReached'
<1>1. Types /\ PlaceFits(c) /\ Reached(c) /\ cancels \in Nat
  BY LaunchFacts DEF AllReached, Types, Sup!SupervisorAssumption
<1>2. tree[c] = "none" /\ down[c] = "no"
  BY <1>1 DEF PlaceFits, Sup!CancelWaiting
<1>3. epoch' = epoch /\ born' = born
  BY DEF Sup!Cancel
<1>4. Alone(c)
  BY <1>1 DEF Types, Alone, Sup!Cancel, Sup!CancelWaiting, Sup!GiveUp, Sup!Go
<1>5. Reached(c)'
  BY <1>2 DEF Reached, Live
<1>. QED
  BY <1>3, <1>4, <1>5, OneReached

(* Its owner is cancelled: every handle that is there is taken down.         *)
LEMMA OwnerReached ==
  ASSUME Sup!SupervisorAssumption, SupInv, AllReached, NEW o \in Owners, Sup!CancelOwner(o)
  PROVE  AllReached'
<1> DEFINE mine == {c \in registered : OwnerOf[c] = o}
<1>1. /\ tree' = tree /\ end' = end /\ registered' = registered /\ born' = born
      /\ epoch' = [epoch EXCEPT ![o] = 1] /\ Sup!StartCancel(mine) /\ Types
  BY DEF Sup!CancelOwner, SupInv
<1>2. ASSUME NEW c \in Launches PROVE Reached(c)'
  <2>1. Reached(c) /\ PlaceFits(c)
        /\ down[c] \in {"no", "working", "done", "interrupted"}
        /\ end[c] \in {"no", "owner", "closing", "done"}
    BY LaunchFacts DEF AllReached
  <2>2. /\ down'[c] = IF c \in registered /\ OwnerOf[c] = o /\ down[c] = "no" THEN "working" ELSE down[c]
        /\ OwnerOf[c] # o => (Sup!Cancelled(c)' <=> Sup!Cancelled(c))
    BY <1>1 DEF Sup!StartCancel, Sup!Cancelled, Sup!SupervisorAssumption, Types
  <2>3. Live(c) => end[c] \in {"no", "closing"}
    BY <2>1 DEF Live, PlaceFits
  <2>. QED
    BY <1>1, <2>1, <2>2, <2>3 DEF Reached, Live
<1>. QED
  BY <1>2 DEF AllReached

(* A cancelled owner's processes are being killed as soon as they exist,     *)
(* whatever the call that runs them is at.                                   *)
THEOREM OwnersReached ==
  ASSUME Sup!SupervisorAssumption
  PROVE  Sup!Spec => []Sup!CancelReachesAll
<1>1. Sup!Init => SupInv /\ AllReached
  BY SupStarts DEF Sup!Init, AllReached, Reached, Live
<1>2. SupInv /\ AllReached /\ [Sup!Next]_(Sup!vars) => SupInv' /\ AllReached'
  <2> SUFFICES ASSUME SupInv, AllReached, [Sup!Next]_(Sup!vars) PROVE SupInv' /\ AllReached'
    OBVIOUS
  <2>1. SupInv'
    BY SupGoesOn
  <2>2. ASSUME UNCHANGED Sup!vars PROVE AllReached'
    BY <2>2 DEF Sup!vars, AllReached, Reached, Live, Sup!Cancelled
  <2>3. ASSUME NEW c \in Launches, Sup!Cancel(c) PROVE AllReached'
    <3>1. CASE Sup!CancelWaiting(c) /\ UNCHANGED <<registered, tree, down>>
      BY <2>3, <3>1, WaitingReached
    <3>2. CASE Sup!CancelTeardown(c) /\ UNCHANGED <<Sup!slots, tree>>
      BY <2>3, <3>2, EndingReached
    <3>. QED
      BY <2>3, <3>1, <3>2 DEF Sup!Cancel
  <2>4. ASSUME NEW c \in Launches, Sup!Shielded(c) PROVE AllReached'
    BY <2>4, KilledReached, EndingReached DEF Sup!Shielded
  <2>. QED
    BY <2>1, <2>2, <2>3, <2>4, StartingReached, EndingReached, KilledReached, OwnerReached
       DEF Sup!Next
<1>3. AllReached => Sup!CancelReachesAll
  BY DEF AllReached, Sup!CancelReachesAll, Reached, Live
<1>. QED
  BY <1>1, <1>2, <1>3, PTL DEF Sup!Spec

=============================================================================
