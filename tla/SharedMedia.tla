----------------------------- MODULE SharedMedia -----------------------------
(***************************************************************************)
(* MediaPipeline.open_materialized of app/services/media/pipeline.py for   *)
(* one cache key: callers share one downloaded file.  A caller registers   *)
(* as a pending user, joins the single flight that makes the file, uses it *)
(* and is counted off; the last user deletes the file and its lease.  The  *)
(* flight is a chain of provider attempts, or for YouTube the two-route    *)
(* race of materialization_race.py.  The single flight is the component    *)
(* SingleFlight, instantiated; the locks guard no await, so every locked   *)
(* section is one step.  What transport.materialize does is in MediaLeases *)
(* and here one step that makes a file or raises.                          *)
(***************************************************************************)
EXTENDS Integers, FiniteSets

CONSTANTS
    Callers,   \* each opens the media once
    Flights,   \* identities of flights: the caller that started it
    None,      \* no flight, no file
    Platforms, \* the platforms a key may belong to
    MaxRoutes  \* bound: providers left to try after the first resolution

ASSUME SharedAssumption ==
    /\ None \notin Flights /\ IsFiniteSet(Callers) /\ Flights = Callers
    /\ None \notin [item : Flights \X {1, 2}, users : Nat]
    /\ Platforms \subseteq {"youtube", "tiktok", "other"} /\ MaxRoutes \in Nat

VARIABLES
    current, task, subs, at, mine,   \* the single flight
    platform,  \* of the key
    pending,   \* self._materialized_pending_users[key]
    ready,     \* self._materialized_ready[key]: the file and its users
    user,      \* where each open_materialized is
    cancelled, \* callers whose task was cancelled inside do
    has,       \* the file each user was handed
    stage,     \* where each factory is
    left,      \* providers a factory has not tried
    prefetch,  \* its cheap_prefetch task
    lanes,     \* its two route attempts (one for the sequential chain)
    won,       \* the lane whose file it completes, 0 for none
    live,      \* files whose lease is held
    refused    \* history: files publication did not take

flightVars == <<current, task, subs, at, mine>>
workVars == <<stage, left, prefetch, lanes, won>>
userVars == <<pending, ready, user, cancelled, has>>
vars == <<flightVars, workVars, userVars, platform, live, refused>>

Flight == INSTANCE SingleFlight WITH
    Callers <- Callers, Flights <- Flights, None <- None,
    current <- current, task <- task, subs <- subs, at <- at, mine <- mine

Lanes == {1, 2}

\* The file a lane of a flight makes; lanes make one at a time.
Files == Flights \X Lanes

Stages == {"unused", "resolve", "fetch", "check", "failed", "join", "store",
           "publish", "published", "race", "settle", "over"}

(* Every variable keeps its type.                                             *)
TypeOK ==
    /\ Flight!TypeOK
    /\ platform \in Platforms
    /\ pending \in 0 .. Cardinality(Callers)
    /\ ready \in {None} \cup [item : Files, users : 1 .. Cardinality(Callers)]
    /\ user \in [Callers -> {"out", "sharing", "using", "releasing", "done"}]
    /\ cancelled \subseteq Callers
    /\ has \in [Callers -> Files \cup {None}]
    /\ stage \in [Flights -> Stages]
    /\ left \in [Flights -> 0 .. MaxRoutes]
    /\ prefetch \in [Flights -> {"none", "running", "used"}]
    /\ lanes \in [Files -> {"idle", "working", "checking", "ok", "failed", "stopping"}]
    /\ won \in [Flights -> Lanes \cup {0}]
    /\ live \subseteq Files /\ refused \subseteq Files

Init ==
    /\ Flight!Init
    /\ platform \in Platforms
    /\ pending = 0 /\ ready = None
    /\ user = [c \in Callers |-> "out"] /\ cancelled = {}
    /\ has = [c \in Callers |-> None]
    /\ stage = [f \in Flights |-> "unused"] /\ left = [f \in Flights |-> 0]
    /\ prefetch = [f \in Flights |-> "none"]
    /\ lanes = [i \in Files |-> "idle"] /\ won = [f \in Flights |-> 0]
    /\ live = {} /\ refused = {}

-----------------------------------------------------------------------------
(* Callers. *)

\* _register_materialization_user finds the file, and it is handed over.
OpenReady(c) ==
    /\ user[c] = "out" /\ ready # None
    /\ ready' = [ready EXCEPT !.users = @ + 1]
    /\ has' = [has EXCEPT ![c] = ready.item]
    /\ user' = [user EXCEPT ![c] = "using"]
    /\ UNCHANGED <<flightVars, workVars, platform, pending, cancelled, live, refused>>

\* It does not: the caller is a pending user and joins or starts the flight,
\* whose factory first races YouTube's routes or resolves the media.
OpenPending(c, f) ==
    /\ user[c] = "out" /\ ready = None
    /\ Flight!Subscribe(c, f)
    /\ pending' = pending + 1
    /\ user' = [user EXCEPT ![c] = "sharing"]
    /\ \/ /\ task[f] # "unused"
          /\ UNCHANGED <<stage, left, lanes>>
       \/ /\ task[f] = "unused" /\ f = c
          /\ stage' = [stage EXCEPT ![f] = IF platform = "youtube" THEN "race" ELSE "resolve"]
          /\ left' = [left EXCEPT ![f] = MaxRoutes]
          /\ lanes' = [i \in Files |->
                IF i[1] = f /\ platform = "youtube" THEN "working" ELSE lanes[i]]
    /\ UNCHANGED <<platform, ready, cancelled, has, prefetch, won, live, refused>>

\* Fault: without the shield the cancellation reaches the shared factory.
CancelShared(c) ==
    /\ user[c] = "sharing" /\ c \notin cancelled /\ at[c] = "waiting"
    /\ cancelled' = cancelled \cup {c}
    /\ at' = [at EXCEPT ![c] = "leaving"]
    /\ task' = [task EXCEPT ![mine[c]] = IF @ = "running" THEN "cancelling" ELSE @]
    /\ UNCHANGED <<workVars, platform, pending, ready, user, has, live, refused, current, subs, mine>>

\* The caller's task is cancelled inside do: it leaves the shielded wait, and
\* a cancellation while it unsubscribes is raised once it has.
Cancel(c) ==
    /\ user[c] = "sharing" /\ c \notin cancelled
    /\ cancelled' = cancelled \cup {c}
    /\ \/ Flight!CancelCaller(c)
       \/ at[c] \in {"leaving", "joining"} /\ UNCHANGED flightVars
    /\ UNCHANGED <<workVars, platform, pending, ready, user, has, live, refused>>

Share(c) ==
    /\ Flight!Wake(c) \/ Flight!Unsubscribe(c) \/ Flight!Joined(c)
    /\ UNCHANGED <<workVars, userVars, platform, live, refused>>

\* do returns the shared file, whose lease is renewed, or raises.
Return(c) ==
    LET f == mine[c]
        ok == stage[f] = "over" /\ task[f] = "done" /\ won[f] # 0 /\ c \notin cancelled IN
    /\ user[c] = "sharing" /\ at[c] = "left"
    /\ \/ /\ ok
          /\ user' = [user EXCEPT ![c] = "using"]
          /\ has' = [has EXCEPT ![c] = <<f, won[f]>>]
       \/ /\ ~ok
          /\ user' = [user EXCEPT ![c] = "releasing"]
          /\ UNCHANGED has
    /\ UNCHANGED <<flightVars, workVars, platform, pending, ready, cancelled, live, refused>>

\* The body ends, raises, is cancelled, or the renewal failed.
Close(c) ==
    /\ user[c] = "using"
    /\ user' = [user EXCEPT ![c] = "releasing"]
    /\ has' = [has EXCEPT ![c] = None]
    /\ UNCHANGED <<flightVars, workVars, platform, pending, ready, cancelled, live, refused>>

\* _release_materialization_user: counted off; the last user deletes the file.
ReleaseUser(c) ==
    /\ user[c] = "releasing"
    /\ user' = [user EXCEPT ![c] = "done"]
    /\ \/ /\ ready = None
          /\ pending' = pending - 1
          /\ UNCHANGED <<ready, live>>
       \/ /\ ready # None /\ ready.users > 1
          /\ ready' = [ready EXCEPT !.users = @ - 1]
          /\ UNCHANGED <<pending, live>>
       \/ /\ ready # None /\ ready.users = 1
          /\ ready' = None
          /\ live' = live \ {ready.item}
          /\ UNCHANGED pending
    /\ UNCHANGED <<flightVars, workVars, platform, cancelled, has, refused>>

-----------------------------------------------------------------------------
(* The factory. *)

Works(f) == task[f] \in {"running", "cancelling"}

\* The factory goes on to stage s and its flight is not touched.
Go(f, s) ==
    /\ stage' = [stage EXCEPT ![f] = s]
    /\ UNCHANGED flightVars

\* The factory ends; the flight's task ends in the matching way.
Over(f) ==
    /\ stage' = [stage EXCEPT ![f] = "over"]
    /\ Flight!FactoryEnds(f)
    /\ (task'[f] = "cancelled") = (task[f] = "cancelling")

\* It raises: it has no file, and joins its prefetch first.
Raise(f) ==
    /\ Over(f)
    /\ won' = [won EXCEPT ![f] = 0]
    /\ left' = [left EXCEPT ![f] = 0]
    /\ prefetch' = [prefetch EXCEPT ![f] = "none"]

\* self.resolve: candidates, or no provider has any.
Resolve(f) ==
    /\ stage[f] = "resolve" /\ task[f] = "running"
    /\ \/ Go(f, "fetch") /\ UNCHANGED <<won, left, prefetch>>
       \/ Raise(f)
    /\ UNCHANGED <<userVars, platform, lanes, live, refused>>

\* A prefetch of TikTok's cheap providers may run beside the attempt with
\* yt-dlp's candidates; it is started once.
Prefetch(f) ==
    \/ UNCHANGED prefetch
    \/ /\ platform = "tiktok" /\ prefetch[f] = "none"
       /\ prefetch' = [prefetch EXCEPT ![f] = "running"]

\* transport.materialize
Fetch(f) ==
    /\ stage[f] = "fetch" /\ task[f] = "running"
    /\ Prefetch(f)
    /\ \/ /\ Go(f, "check")
          /\ live' = live \cup {<<f, 1>>}
          /\ won' = [won EXCEPT ![f] = 1]
       \/ /\ Go(f, "failed")
          /\ UNCHANGED <<live, won>>
    /\ UNCHANGED <<userVars, platform, left, lanes, refused>>

\* artifact_validator: a file it rejects is deleted before anything else.
Check(f) ==
    /\ stage[f] = "check" /\ task[f] = "running"
    /\ \/ /\ Go(f, IF prefetch[f] = "running" THEN "join" ELSE "store")
          /\ UNCHANGED <<won, live>>
       \/ /\ Go(f, "failed")
          /\ won' = [won EXCEPT ![f] = 0]
          /\ live' = live \ {<<f, 1>>}
    /\ UNCHANGED <<userVars, platform, left, prefetch, lanes, refused>>

\* _resolve_reserve: a race of the providers not tried yet, which uses them up.
Reserve(f) == left[f] > 0 /\ left' = [left EXCEPT ![f] = @ - 1]

\* Fault: the provider that failed stays among those not tried.
RetrySame(f) ==
    /\ stage[f] = "failed" /\ task[f] = "running"
    /\ \/ left[f] > 0 /\ Go(f, "fetch") /\ UNCHANGED <<left, prefetch, won>>
       \/ Raise(f)
    /\ UNCHANGED <<userVars, platform, lanes, live, refused>>

\* After a failure: the next candidate of the resolution or a reserve, the
\* prefetched resolution, or the error.  Each way uses up a candidate, a
\* provider or the prefetch.
Retry(f) ==
    /\ stage[f] = "failed" /\ task[f] = "running"
    /\ \/ /\ Reserve(f) /\ Go(f, "fetch")
          /\ UNCHANGED <<prefetch, won>>
       \/ /\ prefetch[f] = "running" /\ Go(f, "fetch")
          /\ prefetch' = [prefetch EXCEPT ![f] = "used"]
          /\ UNCHANGED <<left, won>>
       \/ Raise(f)
    /\ UNCHANGED <<userVars, platform, lanes, live, refused>>

\* The prefetch is cancelled and joined before the file is completed.
JoinPrefetch(f) ==
    /\ stage[f] = "join" /\ task[f] = "running"
    /\ Go(f, "store")
    /\ prefetch' = [prefetch EXCEPT ![f] = "used"]
    /\ UNCHANGED <<userVars, platform, left, lanes, won, live, refused>>

\* A lane of race_materializations: one route's resolution, download and
\* validation, with fewer candidates after an invalid Short.  A lane the
\* race stops deletes its file.
LaneStep(i) ==
    /\ \/ /\ lanes[i] = "working"
          /\ \/ /\ lanes' = [lanes EXCEPT ![i] = "checking"]
                /\ live' = live \cup {i}
             \/ /\ lanes' = [lanes EXCEPT ![i] = "failed"]
                /\ UNCHANGED live
          /\ UNCHANGED left
       \/ /\ lanes[i] = "checking"
          /\ \/ /\ lanes' = [lanes EXCEPT ![i] = "ok"]
                /\ UNCHANGED <<live, left>>
             \/ /\ lanes' = [lanes EXCEPT ![i] = "failed"]
                /\ live' = live \ {i}
                /\ UNCHANGED left
             \/ /\ left[i[1]] > 0
                /\ lanes' = [lanes EXCEPT ![i] = "working"]
                /\ live' = live \ {i}
                /\ left' = [left EXCEPT ![i[1]] = @ - 1]
       \/ /\ lanes[i] = "stopping"
          /\ lanes' = [lanes EXCEPT ![i] = "failed"]
          /\ live' = live \ {i}
          /\ UNCHANGED left
    /\ UNCHANGED <<flightVars, userVars, platform, stage, prefetch, won, refused>>

LanesOf(f, states) == {k \in Lanes : lanes[<<f, k>>] \in states}

\* The first good route wins; it, the failure of all, or a cancellation stops
\* the others.
Decide(f) ==
    /\ stage[f] = "race"
    /\ \/ /\ task[f] = "running"
          /\ \E k \in LanesOf(f, {"ok"}) : won' = [won EXCEPT ![f] = k]
       \/ /\ task[f] = "cancelling" \/ LanesOf(f, {"failed"}) = Lanes
          /\ won' = [won EXCEPT ![f] = 0]
    /\ lanes' = [i \in Files |->
          IF i[1] = f /\ lanes[i] \in {"working", "checking"} THEN "stopping" ELSE lanes[i]]
    /\ Go(f, "settle")
    /\ UNCHANGED <<userVars, platform, left, prefetch, live, refused>>

IdleLanes(f) == [i \in Files |-> IF i[1] = f THEN "idle" ELSE lanes[i]]

\* Fault: a loser that finished before it was stopped keeps its file.
SettleForgetsLoser(f) ==
    /\ stage[f] = "settle" /\ LanesOf(f, {"ok", "failed"}) = Lanes
    /\ \/ /\ task[f] = "running" /\ won[f] # 0
          /\ Go(f, "store") /\ UNCHANGED <<live, won, left, prefetch>>
       \/ /\ task[f] = "cancelling" \/ won[f] = 0
          /\ Raise(f) /\ live' = live \ {<<f, k>> : k \in Lanes}
    /\ lanes' = IdleLanes(f)
    /\ UNCHANGED <<userVars, platform, refused>>

\* discard_losers: every lane has ended and every file but the winner's is
\* deleted; the winner's too if the race was cancelled meanwhile.
Settle(f) ==
    /\ stage[f] = "settle" /\ LanesOf(f, {"ok", "failed"}) = Lanes
    /\ \/ /\ task[f] = "running" /\ won[f] # 0
          /\ Go(f, "store")
          /\ live' = live \ {<<f, k>> : k \in Lanes \ {won[f]}}
          /\ UNCHANGED <<won, left, prefetch>>
       \/ /\ task[f] = "cancelling" \/ won[f] = 0
          /\ Raise(f)
          /\ live' = live \ {<<f, k>> : k \in Lanes}
    /\ lanes' = IdleLanes(f)
    /\ UNCHANGED <<userVars, platform, refused>>

\* _complete_materialization: _store_metadata, whose errors are dropped.
Store(f) ==
    /\ stage[f] = "store" /\ task[f] = "running"
    /\ Go(f, "publish")
    /\ UNCHANGED <<userVars, platform, left, prefetch, lanes, won, live, refused>>

\* A cancellation reaches the factory at an await: the file it holds is
\* deleted and the prefetch joined.  Not once publication has begun.
Unwind(f) ==
    /\ task[f] = "cancelling"
    /\ stage[f] \in {"resolve", "fetch", "check", "failed", "join", "store"}
    /\ Raise(f)
    /\ live' = live \ {<<f, k>> : k \in Lanes}
    /\ UNCHANGED <<userVars, platform, lanes, refused>>

\* _publish_materialization: the pending users become the file's users; a
\* file that is published already stays, and the new one is not taken.
Publish(f) ==
    /\ stage[f] = "publish"
    /\ Go(f, "published")
    /\ \/ /\ ready = None
          /\ ready' = [item |-> <<f, won[f]>>, users |-> pending]
          /\ pending' = 0
          /\ UNCHANGED refused
       \/ /\ ready # None
          /\ refused' = refused \cup {<<f, won[f]>>}
          /\ UNCHANGED <<ready, pending>>
    /\ UNCHANGED <<platform, user, cancelled, has, left, prefetch, lanes, won, live>>

\* The factory returns the file, or raises the cancellation it has outlasted.
Finish(f) ==
    /\ stage[f] = "published"
    /\ Over(f)
    /\ left' = [left EXCEPT ![f] = 0]
    /\ prefetch' = [prefetch EXCEPT ![f] = IF @ = "used" THEN "none" ELSE @]
    /\ UNCHANGED <<userVars, platform, lanes, won, live, refused>>

FactoryStep(f) ==
    \/ Resolve(f) \/ Fetch(f) \/ Check(f) \/ Retry(f) \/ JoinPrefetch(f)
    \/ Decide(f) \/ Settle(f) \/ Store(f) \/ Unwind(f) \/ Publish(f) \/ Finish(f)

CallerStep(c) == Share(c) \/ Return(c) \/ Close(c) \/ ReleaseUser(c)

Next ==
    \/ \E c \in Callers :
          \/ OpenReady(c) \/ (\E f \in Flights : OpenPending(c, f))
          \/ Cancel(c) \/ CallerStep(c)
    \/ \E f \in Flights : FactoryStep(f)
    \/ \E i \in Files : LaneStep(i)

\* Every await of a factory has a deadline, users close what they opened, and
\* asyncio runs whatever is ready.
Spec ==
    /\ Init /\ [][Next]_vars
    /\ \A c \in Callers : WF_vars(CallerStep(c))
    /\ \A f \in Flights : WF_vars(FactoryStep(f))
    /\ \A i \in Files : WF_vars(LaneStep(i))

-----------------------------------------------------------------------------
(* Properties. *)

Registered == {c \in Callers : user[c] \in {"sharing", "using", "releasing"}}

(* Nobody's file is deleted while it is used: the published file and every    *)
(* file a caller was handed are held, whoever else was cancelled, failed or   *)
(* left meanwhile.                                                            *)
UsersHoldLiveFiles ==
    /\ ready # None => ready.item \in live
    /\ \A c \in Callers : user[c] = "using" => has[c] \in live

(* Every open is counted exactly once, as pending or as a user of the ready   *)
(* file, through publication and every cancellation.                          *)
UsersAreCounted ==
    IF ready = None THEN pending = Cardinality(Registered)
    ELSE pending = 0 /\ ready.users = Cardinality(Registered)

(* A file outlives its factory only as the published file of the key, or when *)
(* publication refused it because a flight that had been cancelled while it   *)
(* published overtook it.  No failed, rejected, cancelled or lost attempt     *)
(* leaves a file behind.                                                      *)
OnlyOvertakenFilesLeak ==
    /\ \A i \in live :
          \/ Works(i[1])
          \/ ready # None /\ ready.item = i
          \/ i \in refused
    /\ refused # {} => \E f \in Flights : task[f] \in {"cancelling", "cancelled"}

(* Two factories work for the key at a time only while one of them unwinds    *)
(* from a cancellation, and no prefetch outlives its factory.                 *)
NoStrayWork ==
    /\ \A f, g \in Flights : f # g /\ task[f] = "running" => task[g] # "running"
    /\ \A f \in Flights : stage[f] = "over" =>
          prefetch[f] # "running" /\ LanesOf(f, {"working", "checking", "stopping"}) = {}

(* The shared file: held, counted, deleted once, made by one factory.         *)
MediaIsShared ==
    TypeOK /\ UsersHoldLiveFiles /\ UsersAreCounted /\ OnlyOvertakenFilesLeak /\ NoStrayWork

(* Every caller that opens the media is let go, whatever the providers do:    *)
(* the chain of attempts ends.                                                *)
OpensEnd == \A c \in Callers : user[c] = "sharing" ~> user[c] = "done"

(* The flight under the open is the SingleFlight component, its fairness      *)
(* included: every factory ends.                                              *)
SharesOneFlight == Flight!FairSpec

=============================================================================
