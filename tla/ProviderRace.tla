---------------------------- MODULE ProviderRace -----------------------------
(***************************************************************************)
(* race_candidates of app/services/media/race.py and the CircuitBreaker of *)
(* registry.py that concurrent races share, for one platform.  A race      *)
(* takes the providers that are available, two workers try the cheap ones  *)
(* and repeat transient failures, one delayed worker tries the heavy ones, *)
(* and the first validated candidate, the last worker or the deadline ends *)
(* it; every worker is then cancelled and joined.  A provider that keeps   *)
(* failing is shut out for a while and then admitted by one probe.         *)
(*                                                                         *)
(* Time: a race's deadline passes at any moment (late), a failure leaves   *)
(* the breaker's 60 s window at any moment, and an open circuit cools down *)
(* once the attempts admitted before it opened are over: they last at most *)
(* the race's total_timeout, and the circuit stays open for 300 s.         *)
(***************************************************************************)
EXTENDS Integers, FiniteSets

CONSTANTS
    Races,      \* concurrent requests
    Cheap,      \* providers with is_heavy = False
    Heavy,      \* and the others
    None,       \* no provider
    Requests,   \* which providers support each race's request, in each case
    Retries,    \* len(_RETRY_DELAYS): transient retries of a cheap provider
    Threshold   \* transient failures in the window that open a circuit

\* What the constants must satisfy.
RaceAssumption ==
    /\ Cheap \cap Heavy = {} /\ None \notin Cheap \cup Heavy
    /\ IsFiniteSet(Cheap) /\ IsFiniteSet(Heavy)
    /\ Requests \subseteq [Races -> SUBSET (Cheap \cup Heavy)]
    /\ Retries \in Nat /\ Threshold \in Nat \ {0}

Providers == Cheap \cup Heavy

\* The two cheap workers and the heavy one.
CheapWorkers == {1, 2}
Workers == CheapWorkers \cup {3}

VARIABLES
    supports,  \* provider.supports(request), fixed
    circuit,   \* CircuitBreaker._circuits
    phase,     \* where each race is
    done,      \* its future finished
    late,      \* its deadline has passed
    cheap,     \* its heap of cheap routes with their attempt numbers
    heavy,     \* heavy routes its heavy worker has not reached
    work       \* where each worker is, and its attempt

raceVars == <<supports, phase, done, late, cheap, heavy, work>>
vars == <<circuit, raceVars>>

Attempts == [p : Providers \cup {None}, n : 0 .. Retries, probe : BOOLEAN]
Idle == [p |-> None, n |-> 0, probe |-> FALSE]

(* Every variable keeps its type.                                             *)
TypeOK ==
    /\ circuit \in [Providers -> [open : {"closed", "open", "half"},
                                  failures : 0 .. Threshold - 1,
                                  probe : BOOLEAN, disabled : BOOLEAN]]
    /\ supports \in Requests
    /\ phase \in [Races -> {"idle", "running", "stopping"}]
    /\ done \in [Races -> {"open", "none", "won"}]
    /\ late \in [Races -> BOOLEAN]
    /\ cheap \in [Races -> SUBSET (Cheap \X (0 .. Retries))]
    /\ heavy \in [Races -> SUBSET Heavy]
    /\ work \in [Races \X Workers ->
          [at : {"absent", "delay", "loop", "sleep", "resolve"}, job : Attempts]]

Init ==
    /\ circuit = [p \in Providers |->
          [open |-> "closed", failures |-> 0, probe |-> FALSE, disabled |-> FALSE]]
    /\ supports \in Requests
    /\ phase = [r \in Races |-> "idle"] /\ done = [r \in Races |-> "none"]
    /\ late = [r \in Races |-> FALSE]
    /\ cheap = [r \in Races |-> {}] /\ heavy = [r \in Races |-> {}]
    /\ work = [k \in Races \X Workers |-> [at |-> "absent", job |-> Idle]]

-----------------------------------------------------------------------------
(* The circuit breaker. *)

IsAvailable(p) ==
    ~circuit[p].disabled /\ ~circuit[p].probe /\ circuit[p].open # "open"

\* try_acquire of an available circuit; a half-open one admits a probe.
Acquired(p) == [circuit EXCEPT ![p].probe = circuit[p].open = "half"]

\* Fault: a cancelled probe is not given back.
NotReleased(p) == circuit

\* release
Released(p) == [circuit EXCEPT ![p].probe = FALSE]

\* record_success: only a probe closes the circuit.
Succeeded(p) ==
    [circuit EXCEPT ![p] =
        IF @.probe THEN [@ EXCEPT !.open = "closed", !.probe = FALSE, !.failures = 0]
        ELSE @]

\* record_failure.  The failures of an open circuit have left the window by
\* the time it is half open.
Failed(p, kind) ==
    LET c == circuit[p]
        opens == c.probe \/ c.open = "open" \/ c.failures + 1 >= Threshold IN
    [circuit EXCEPT ![p] =
        CASE kind = "auth" -> [c EXCEPT !.probe = FALSE, !.disabled = TRUE]
          [] kind = "transient" ->
                [c EXCEPT !.probe = FALSE,
                          !.open = IF opens THEN "open" ELSE @,
                          !.failures = IF opens THEN 0 ELSE @ + 1]
          [] OTHER -> [c EXCEPT !.probe = FALSE]]

InFlight(p) == {k \in Races \X Workers : work[k].at = "resolve" /\ work[k].job.p = p}

\* open_until passes; a failure is 60 s old.
CoolDown(p) ==
    /\ circuit[p].open = "open" /\ InFlight(p) = {}
    /\ circuit' = [circuit EXCEPT ![p].open = "half"]
    /\ UNCHANGED raceVars

FailureAges(p) ==
    /\ circuit[p].failures > 0
    /\ circuit' = [circuit EXCEPT ![p].failures = @ - 1]
    /\ UNCHANGED raceVars

\* ProviderRegistry.set_revision with a new revision: reset_configuration.
SetRevision ==
    /\ circuit' = [p \in Providers |-> [circuit[p] EXCEPT !.disabled = FALSE]]
    /\ UNCHANGED raceVars

-----------------------------------------------------------------------------
(* The race. *)

Running(r) == phase[r] = "running"
Finished(r) == done[r] # "open"

\* A race over the routes that routes_for and is_available let through; with
\* none it returns at once and nothing changes.
Start(r) ==
    LET eligible == {p \in supports[r] : IsAvailable(p)}
        workers == {w \in CheapWorkers : w <= Cardinality(eligible \cap Cheap)} IN
    /\ phase[r] = "idle" /\ eligible # {}
    /\ phase' = [phase EXCEPT ![r] = "running"]
    /\ done' = [done EXCEPT ![r] = "open"]
    /\ late' = [late EXCEPT ![r] = FALSE]
    /\ cheap' = [cheap EXCEPT ![r] = (eligible \cap Cheap) \X {0}]
    /\ heavy' = [heavy EXCEPT ![r] = eligible \cap Heavy]
    /\ work' = [k \in Races \X Workers |->
          CASE k[1] = r /\ k[2] \in workers -> [at |-> "loop", job |-> Idle]
            [] k[1] = r /\ k[2] = 3 /\ eligible \cap Heavy # {} -> [at |-> "delay", job |-> Idle]
            [] OTHER -> work[k]]
    /\ UNCHANGED <<circuit, supports>>

Turn(r, w, at, job) == work' = [work EXCEPT ![<<r, w>>] = [at |-> at, job |-> job]]

\* attempt_route up to the provider's resolve: nothing is tried after the
\* end or the deadline, nor a route that is shut by now.
Attempt(r, w, p, n) ==
    \/ /\ ~Finished(r) /\ ~late[r] /\ IsAvailable(p)
       /\ circuit' = Acquired(p)
       /\ Turn(r, w, "resolve", [p |-> p, n |-> n, probe |-> circuit'[p].probe])
    \/ /\ Finished(r) \/ late[r] \/ ~IsAvailable(p)
       /\ Turn(r, w, "loop", Idle)
       /\ UNCHANGED circuit

\* A cheap worker takes the earliest route: a fresh one, which it tries at
\* once, or a retry that may not be due yet.
Take(r, w) ==
    /\ Running(r) /\ w \in CheapWorkers /\ work[<<r, w>>].at = "loop"
    /\ ~Finished(r) /\ ~late[r]
    /\ \E e \in cheap[r] :
          /\ e[2] = 0 \/ \A d \in cheap[r] : d[2] > 0
          /\ cheap' = [cheap EXCEPT ![r] = @ \ {e}]
          /\ \/ e[2] = 0 /\ Attempt(r, w, e[1], 0)
             \/ /\ e[2] > 0
                /\ Turn(r, w, "sleep", [p |-> e[1], n |-> e[2], probe |-> FALSE])
                /\ UNCHANGED circuit
    /\ UNCHANGED <<supports, phase, done, late, heavy>>

WakeRetry(r, w) ==
    /\ Running(r) /\ work[<<r, w>>].at = "sleep"
    /\ Attempt(r, w, work[<<r, w>>].job.p, work[<<r, w>>].job.n)
    /\ UNCHANGED <<supports, phase, done, late, cheap, heavy>>

\* The heavy worker waits for heavy_delay and takes its routes in turn.
HeavyWakes(r) ==
    /\ Running(r) /\ work[<<r, 3>>].at = "delay"
    /\ Turn(r, 3, "loop", Idle)
    /\ UNCHANGED <<circuit, supports, phase, done, late, cheap, heavy>>

TakeHeavy(r) ==
    /\ Running(r) /\ work[<<r, 3>>].at = "loop" /\ ~Finished(r)
    /\ \E p \in heavy[r] :
          /\ heavy' = [heavy EXCEPT ![r] = @ \ {p}]
          /\ Attempt(r, 3, p, 0)
    /\ UNCHANGED <<supports, phase, done, late, cheap>>

\* The provider answers.  Candidates that are all rejected lead nowhere; a
\* validated one wins if it is the first and in time, and is an alternative
\* otherwise.
Resolved(r, w) ==
    /\ Running(r) /\ work[<<r, w>>].at = "resolve"
    /\ circuit' = Succeeded(work[<<r, w>>].job.p)
    /\ Turn(r, w, "loop", Idle)
    /\ \/ UNCHANGED done
       \/ /\ ~Finished(r) /\ ~late[r]
          /\ done' = [done EXCEPT ![r] = "won"]
    /\ UNCHANGED <<supports, phase, late, cheap, heavy>>

\* It fails or runs out of its timeout.  A transient failure of a cheap
\* route that is still available is put back while retries and time are left.
Fails(r, w) ==
    LET job == work[<<r, w>>].job IN
    /\ Running(r) /\ work[<<r, w>>].at = "resolve"
    /\ \E kind \in {"transient", "auth", "other"} :
          /\ circuit' = Failed(job.p, kind)
          /\ \/ UNCHANGED cheap
             \/ /\ kind = "transient" /\ job.p \in Cheap /\ job.n < Retries
                /\ ~Finished(r) /\ ~late[r] /\ circuit'[job.p].open # "open"
                /\ cheap' = [cheap EXCEPT ![r] = @ \cup {<<job.p, job.n + 1>>}]
    /\ Turn(r, w, "loop", Idle)
    /\ UNCHANGED <<supports, phase, done, late, heavy>>

\* Workers of r that have not ended.
Pending(r) == {w \in Workers : work[<<r, w>>].at # "absent"}

\* A worker with nothing left ends; the last one ends the race.
WorkerEnds(r, w) ==
    /\ Running(r) /\ work[<<r, w>>].at = "loop"
    /\ \/ Finished(r) \/ (w \in CheapWorkers /\ (late[r] \/ cheap[r] = {}))
       \/ (w = 3 /\ heavy[r] = {})
    /\ Turn(r, w, "absent", Idle)
    /\ done' = [done EXCEPT ![r] = IF @ = "open" /\ Pending(r) = {w} THEN "none" ELSE @]
    /\ UNCHANGED <<circuit, supports, phase, late, cheap, heavy>>

DeadlinePasses(r) ==
    /\ Running(r) /\ ~Finished(r) /\ ~late[r]
    /\ late' = [late EXCEPT ![r] = TRUE]
    /\ UNCHANGED <<circuit, supports, phase, done, cheap, heavy, work>>

\* The expire task.
Expire(r) ==
    /\ Running(r) /\ late[r] /\ ~Finished(r)
    /\ done' = [done EXCEPT ![r] = "none"]
    /\ UNCHANGED <<circuit, supports, phase, late, cheap, heavy, work>>

\* All tasks are cancelled, and their routes are dropped.
Stopping(r) ==
    /\ phase' = [phase EXCEPT ![r] = "stopping"]
    /\ cheap' = [cheap EXCEPT ![r] = {}] /\ heavy' = [heavy EXCEPT ![r] = {}]
    /\ UNCHANGED <<circuit, supports, late, work>>

\* The race sees its future, or is itself cancelled.
Collect(r) ==
    /\ Running(r) /\ Finished(r)
    /\ Stopping(r)
    /\ UNCHANGED done

CancelRace(r) ==
    /\ Running(r)
    /\ Stopping(r)
    /\ done' = [done EXCEPT ![r] = "none"]

\* Fault: the cancellation does not reach a worker that waits for its provider.
StopUnlessResolving(r, w) ==
    /\ phase[r] = "stopping" /\ work[<<r, w>>].at \notin {"absent", "resolve"}
    /\ Turn(r, w, "absent", Idle)
    /\ UNCHANGED <<circuit, supports, phase, done, late, cheap, heavy>>

\* A cancelled worker unwinds and gives back the route it was resolving.
Stop(r, w) ==
    /\ phase[r] = "stopping" /\ work[<<r, w>>].at # "absent"
    /\ circuit' = IF work[<<r, w>>].at = "resolve" THEN Released(work[<<r, w>>].job.p)
                  ELSE circuit
    /\ Turn(r, w, "absent", Idle)
    /\ UNCHANGED <<supports, phase, done, late, cheap, heavy>>

\* The TaskGroup has joined them all, and the race returns its result.
Return(r) ==
    /\ phase[r] = "stopping" /\ Pending(r) = {}
    /\ phase' = [phase EXCEPT ![r] = "idle"]
    /\ done' = [done EXCEPT ![r] = "none"]
    /\ late' = [late EXCEPT ![r] = FALSE]
    /\ UNCHANGED <<circuit, supports, cheap, heavy, work>>

RaceStep(r) ==
    \/ \E w \in Workers :
          \/ Take(r, w) \/ WakeRetry(r, w) \/ Resolved(r, w) \/ Fails(r, w)
          \/ WorkerEnds(r, w) \/ Stop(r, w)
    \/ HeavyWakes(r) \/ TakeHeavy(r) \/ DeadlinePasses(r) \/ Expire(r)
    \/ Collect(r) \/ Return(r)

Next ==
    \/ \E p \in Providers : CoolDown(p) \/ FailureAges(p)
    \/ SetRevision
    \/ \E r \in Races : Start(r) \/ CancelRace(r) \/ RaceStep(r)

\* What happens to a race sooner or later: clocks advance, and asyncio runs what
\* is ready.  Its providers need not answer, but a cancelled one unwinds.
MustGoOn(r) ==
    \/ Expire(r) \/ DeadlinePasses(r) \/ Collect(r) \/ Return(r)
    \/ \E w \in Workers : Stop(r, w)

Spec == Init /\ [][Next]_vars /\ \A r \in Races : WF_vars(MustGoOn(r))

-----------------------------------------------------------------------------
(* Properties. *)

(* probe_inflight is set exactly while one attempt holds the probe: whatever  *)
(* ends the attempt (an answer, a failure, the deadline, another route's      *)
(* victory, a cancelled request), the route is not shut out for good.         *)
ProbesAreOwned ==
    \A p \in Providers :
        Cardinality({k \in InFlight(p) : work[k].job.probe})
            = IF circuit[p].probe THEN 1 ELSE 0

(* A half-open route serves no request but the probe, across all races.       *)
HalfOpenServesOne ==
    \A p \in Providers :
        circuit[p].open = "half" => \A k \in InFlight(p) : work[k].job.probe

(* A race gives up before its deadline only with every route behind it: no    *)
(* route is waiting, asleep before a retry, or being resolved.                *)
GivesUpExhausted ==
    \A r \in Races :
        phase[r] = "running" /\ done[r] = "none" /\ ~late[r] =>
            /\ cheap[r] = {} /\ heavy[r] = {}
            /\ \A w \in Workers : work[<<r, w>>].at \notin {"sleep", "resolve"}

(* A race leaves no attempt behind: when it has returned, none of its workers *)
(* holds a route.                                                             *)
RacesJoinWorkers == \A r \in Races : phase[r] = "idle" => Pending(r) = {}

(* The routes' circuits and the races over them agree at every moment.        *)
RacesAreFair ==
    TypeOK /\ ProbesAreOwned /\ HalfOpenServesOne /\ GivesUpExhausted /\ RacesJoinWorkers

(* Every race that runs returns: at the latest its deadline decides it, its   *)
(* workers are cancelled and joined, whatever its providers do; with          *)
(* ProbesAreOwned, every probe ends too.                                      *)
RacesEnd == \A r \in Races : phase[r] = "running" ~> phase[r] = "idle"

=============================================================================
