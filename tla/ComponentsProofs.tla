--------------------------- MODULE ComponentsProofs ---------------------------
(***************************************************************************)
(* What SingleFlightProofs and PartsProofs prove of single components, for *)
(* all values of their constants, holds of the components that MCComponents*)
(* and MCResources put together.  A behaviour of theirs runs one part from *)
(* start to end, so it is a behaviour of that component; fairness is not   *)
(* needed.                                                                 *)
(***************************************************************************)
EXTENDS MCResources, FiniteSetTheorems, TLAPS

FlightProofs ==
  INSTANCE SingleFlightProofs WITH
    Callers <- {1, 2, 3}, Flights <- {1, 2, 3}, None <- NoFlight, current <- x1,
    task <- x2, subs <- x3, at <- x4, mine <- x5

Parts ==
  INSTANCE PartsProofs WITH
    None <- Null, Handlers <- {1, 2},
    Tasks <- {1, 2, 3, 4}, Slots <- 1, MaxQueue <- 2, Free <- Unheld, sem <- x1, waiters <- x2,
    waiter <- x3, at <- x4, lock <- x5, lockq <- x6,
    Lives <- {"a", "b"}, Asks <- {1, 2}, LifeFaults <- 2, MaxAsks <- 2,
    owner <- x1, life <- x2, bound <- x3, handler <- x4, closed <- x5,
    probe <- x6, flying <- x7, ask <- x8, lifeFaults <- x9, asks <- x10,
    Reqs <- {1, 2}, Chunks <- 2, HttpFaults <- 3, download <- x1, users <- x2,
    file <- x3, httpFaults <- x4,
    Requests <- {1, 2}, Items <- {1, 2}, Album <- {1, 2}, MaxIds <- 2,
    MaxAges <- 1, IdFaults <- 1, req <- x1, cache <- x2, metadata <- x3,
    ids <- x4, dead <- x5, idFaults <- x6, ages <- x7,
    redis <- x1, now <- x2,
    Capacity <- 2, Cost <- 1, Early <- 1, Late <- 1, IdleFloor <- 0,
    PruneEvery <- 2, MaxOwed <- 1, LimitTicks <- 5, bucket <- x3, lastPrune <- x4,
    credit <- x5, owed <- x6, unfair <- x7, check <- x8,
    Processes <- {1, 2, 3}, Supports <- <<3, 4, 4>>, MaxProbes <- 2,
    MaxCrashes <- 3, version <- x1, parts <- x2, generation <- x3, writer <- x4,
    proc <- x5, probes <- x6, broken <- x7, crashes <- x8,
    HoldTtl <- 2, HoldTicks <- 4, MaxTokens <- 3, lease <- x3, tokens <- x4,
    holder <- x5,
    Calls <- {1, 2},
    Ttl <- [k \in {"metadata", "signed-url", "file-id"} |-> IF k = "metadata" THEN 2 ELSE 1],
    MaxEntries <- 1, CacheTicks <- 2, MaxPuts <- 2, rec <- x3, puts <- x4,
    gone <- x5, call <- x6,
    Launches <- {"c1", "c2", "c3"}, Owners <- {"o1", "o2"},
    OwnerOf <- [c \in {"c1", "c2", "c3"} |-> IF c = "c3" THEN "o2" ELSE "o1"],
    Opens <- {"c1", "c2"},
    Inner <- [c \in {"c1", "c2", "c3"} |-> IF c = "c1" THEN "c2" ELSE Null],
    MaxProcesses <- 1, MaxCancels <- 2, workload <- x1, process <- x2,
    refs <- x3, epoch <- x4, registered <- x5, stage <- x6, born <- x7,
    tree <- x8, down <- x9, end <- x10, reap <- x11, cancels <- x12

-----------------------------------------------------------------------------
(* The two instances of a module are one specification: once all their     *)
(* definitions are expanded, what they say is the same formula.            *)

(* SingleFlight.                                                           *)
LEMMA SameFlight ==
  /\ Flight!FlightAssumption <=> FlightProofs!FlightAssumption
  /\ Flight!Init <=> FlightProofs!Init
  /\ Flight!Next <=> FlightProofs!Next
  /\ Flight!FlightIsShared <=> FlightProofs!FlightIsShared
<1>1. Flight!FlightAssumption <=> FlightProofs!FlightAssumption
  BY DEF Flight!FlightAssumption, FlightProofs!FlightAssumption, Flight!IsFiniteSet,
      FlightProofs!IsFiniteSet
<1>2. Flight!Init <=> FlightProofs!Init
  BY DEF Flight!Init, FlightProofs!Init
<1>3. Flight!Next <=> FlightProofs!Next
  BY DEF Flight!Next, FlightProofs!Next, Flight!Subscribe, FlightProofs!Subscribe,
      Flight!Wake, FlightProofs!Wake, Flight!CancelCaller, FlightProofs!CancelCaller,
      Flight!Unsubscribe, FlightProofs!Unsubscribe, Flight!Joined, FlightProofs!Joined,
      Flight!FactoryEnds, FlightProofs!FactoryEnds, Flight!Ended, FlightProofs!Ended
<1>4. Flight!FlightIsShared <=> FlightProofs!FlightIsShared
  BY DEF Flight!FlightIsShared, FlightProofs!FlightIsShared, Flight!TypeOK,
      FlightProofs!TypeOK, Flight!CountIsExact, FlightProofs!CountIsExact,
      Flight!HoldersHoldCurrent, FlightProofs!HoldersHoldCurrent,
      Flight!CancellationIsPrivate, FlightProofs!CancellationIsPrivate,
      Flight!NoDetachedWork, FlightProofs!NoDetachedWork, Flight!Subscribed,
      FlightProofs!Subscribed, Flight!Cardinality, FlightProofs!Cardinality,
      Flight!IsFiniteSet, FlightProofs!IsFiniteSet
<1>. QED
  BY <1>1, <1>2, <1>3, <1>4

(* DownloadQueue.                                                          *)
LEMMA SameQueue ==
  /\ Queue!QueueAssumption <=> Parts!Queue!QueueAssumption
  /\ Queue!Init <=> Parts!Queue!Init
  /\ Queue!Next <=> Parts!Queue!Next
  /\ Queue!SlotsAreKept <=> Parts!Queue!SlotsAreKept
<1>1. Queue!QueueAssumption <=> Parts!Queue!QueueAssumption
  BY DEF Queue!QueueAssumption, Parts!Queue!QueueAssumption, Queue!IsFiniteSet,
      Parts!Queue!IsFiniteSet
<1>2. Queue!Init <=> Parts!Queue!Init
  BY DEF Queue!Init, Parts!Queue!Init
<1>3. Queue!Next <=> Parts!Queue!Next
  BY DEF Queue!Next, Parts!Queue!Next, Queue!Acquire, Parts!Queue!Acquire,
      Queue!Maintenance, Parts!Queue!Maintenance, Queue!LockGranted,
      Parts!Queue!LockGranted, Queue!Refused, Parts!Queue!Refused, Queue!Granted,
      Parts!Queue!Granted, Queue!Timeout, Parts!Queue!Timeout, Queue!Release,
      Parts!Queue!Release, Queue!CancelQueued, Parts!Queue!CancelQueued, Queue!CancelAtLock,
      Parts!Queue!CancelAtLock, Queue!Arrive, Parts!Queue!Arrive, Queue!Locked,
      Parts!Queue!Locked, Queue!Handoff, Parts!Queue!Handoff, Queue!Enter,
      Parts!Queue!Enter, Queue!Withdraw, Parts!Queue!Withdraw, Queue!RemoveAt,
      Parts!Queue!RemoveAt
<1>4. Queue!SlotsAreKept <=> Parts!Queue!SlotsAreKept
  BY DEF Queue!SlotsAreKept, Parts!Queue!SlotsAreKept, Queue!TypeOK, Parts!Queue!TypeOK,
      Queue!LostOnlyByTimeout, Parts!Queue!LostOnlyByTimeout, Queue!AtMostSlots,
      Parts!Queue!AtMostSlots, Queue!NoIdleSlot, Parts!Queue!NoIdleSlot, Queue!Places,
      Parts!Queue!Places, Queue!Ops, Parts!Queue!Ops, Queue!Owning, Parts!Queue!Owning,
      Queue!Lost, Parts!Queue!Lost, Queue!Cardinality, Parts!Queue!Cardinality,
      Queue!IsFiniteSet, Parts!Queue!IsFiniteSet
<1>. QED
  BY <1>1, <1>2, <1>3, <1>4

(* Lifespan.                                                               *)
LEMMA SameLife ==
  /\ Life!LifeAssumption <=> Parts!Life!LifeAssumption
  /\ Life!Init <=> Parts!Life!Init
  /\ Life!Next <=> Parts!Life!Next
  /\ Life!LifespanIsSafe <=> Parts!Life!LifespanIsSafe
<1>1. Life!LifeAssumption <=> Parts!Life!LifeAssumption
  BY DEF Life!LifeAssumption, Parts!Life!LifeAssumption
<1>2. Life!Init <=> Parts!Life!Init
  BY DEF Life!Init, Parts!Life!Init, Life!None, Parts!Life!None, Life!Globals,
      Parts!Life!Globals, Life!Resources, Parts!Life!Resources
<1>3. Life!Next <=> Parts!Life!Next
  BY DEF Life!Next, Parts!Life!Next, Life!Enter, Parts!Life!Enter, Life!StartFails,
      Parts!Life!StartFails, Life!Handle, Parts!Life!Handle, Life!Shutdown,
      Parts!Life!Shutdown, Life!Cancelled, Parts!Life!Cancelled, Life!Ask, Parts!Life!Ask,
      Life!GrowsOld, Parts!Life!GrowsOld, Life!LifeStep, Parts!Life!LifeStep,
      Life!ProbeStep, Parts!Life!ProbeStep, Life!probing, Parts!Life!probing, Life!None,
      Parts!Life!None, Life!At, Parts!Life!At, Life!Go, Parts!Life!Go, Life!Startup,
      Parts!Life!Startup, Life!Fault, Parts!Life!Fault, Life!Released, Parts!Life!Released,
      Life!Fresh, Parts!Life!Fresh, Life!StartPhase, Parts!Life!StartPhase,
      Life!HandlerEnds, Parts!Life!HandlerEnds, Life!Drain, Parts!Life!Drain,
      Life!Background, Parts!Life!Background, Life!Leave, Parts!Life!Leave, Life!Waited,
      Parts!Life!Waited, Life!Close, Parts!Life!Close, Life!Clear, Parts!Life!Clear,
      Life!Probed, Parts!Life!Probed, Life!Answered, Parts!Life!Answered,
      Life!ShutdownComplete, Parts!Life!ShutdownComplete, Life!Globals, Parts!Life!Globals,
      Life!Order, Parts!Life!Order, Life!Closing, Parts!Life!Closing, Life!Adopted,
      Parts!Life!Adopted
<1>4. Life!LifespanIsSafe <=> Parts!Life!LifespanIsSafe
  BY DEF Life!LifespanIsSafe, Parts!Life!LifespanIsSafe, Life!TypeOK, Parts!Life!TypeOK,
      Life!DependenciesOutliveHandlers, Parts!Life!DependenciesOutliveHandlers,
      Life!OneRuntime, Parts!Life!OneRuntime, Life!ClosedOnce, Parts!Life!ClosedOnce,
      Life!ProbesAreOwn, Parts!Life!ProbesAreOwn, Life!None, Parts!Life!None, Life!Globals,
      Parts!Life!Globals, Life!Resources, Parts!Life!Resources, Life!Phases,
      Parts!Life!Phases, Life!At, Parts!Life!At, Life!Startup, Parts!Life!Startup,
      Life!Closing, Parts!Life!Closing
<1>. QED
  BY <1>1, <1>2, <1>3, <1>4

(* HttpDownload.                                                           *)
LEMMA SameHttp ==
  /\ Http!HttpAssumption <=> Parts!Http!HttpAssumption
  /\ Http!Init <=> Parts!Http!Init
  /\ Http!Next <=> Parts!Http!Next
  /\ Http!DownloadsAreSafe <=> Parts!Http!DownloadsAreSafe
<1>1. Http!HttpAssumption <=> Parts!Http!HttpAssumption
  BY DEF Http!HttpAssumption, Parts!Http!HttpAssumption
<1>2. Http!Init <=> Parts!Http!Init
  BY DEF Http!Init, Parts!Http!Init
<1>3. Http!Next <=> Parts!Http!Next
  BY DEF Http!Next, Parts!Http!Next, Http!Enter, Parts!Http!Enter, Http!Open,
      Parts!Http!Open, Http!Check, Parts!Http!Check, Http!StartStream,
      Parts!Http!StartStream, Http!RenewalFails, Parts!Http!RenewalFails, Http!ReadEnds,
      Parts!Http!ReadEnds, Http!Yield, Parts!Http!Yield, Http!Sent, Parts!Http!Sent,
      Http!ReadFails, Parts!Http!ReadFails, Http!Cut, Parts!Http!Cut, Http!Aclose,
      Parts!Http!Aclose, Http!Unwind, Parts!Http!Unwind, Http!Exit, Parts!Http!Exit,
      Http!LeaseExpires, Parts!Http!LeaseExpires, Http!Goes, Parts!Http!Goes, Http!Fault,
      Parts!Http!Fault, Http!Claimed, Parts!Http!Claimed
<1>4. Http!DownloadsAreSafe <=> Parts!Http!DownloadsAreSafe
  BY DEF Http!DownloadsAreSafe, Parts!Http!DownloadsAreSafe, Http!TypeOK, Parts!Http!TypeOK,
      Http!ReleasedOnce, Parts!Http!ReleasedOnce, Http!ReadsAreOwned,
      Parts!Http!ReadsAreOwned, Http!Places, Parts!Http!Places, Http!Renewals,
      Parts!Http!Renewals
<1>. QED
  BY <1>1, <1>2, <1>3, <1>4

(* FileIds.                                                                *)
LEMMA SameIds ==
  /\ Ids!IdsAssumption <=> Parts!Ids!IdsAssumption
  /\ Ids!Init <=> Parts!Ids!Init
  /\ Ids!Next <=> Parts!Ids!Next
  /\ Ids!FileIdsAreSafe <=> Parts!Ids!FileIdsAreSafe
<1>1. Ids!IdsAssumption <=> Parts!Ids!IdsAssumption
  BY DEF Ids!IdsAssumption, Parts!Ids!IdsAssumption
<1>2. Ids!Init <=> Parts!Ids!Init
  BY DEF Ids!Init, Parts!Ids!Init, Ids!None, Parts!Ids!None, Ids!Junk, Parts!Ids!Junk
<1>3. Ids!Next <=> Parts!Ids!Next
  BY DEF Ids!Next, Parts!Ids!Next, Ids!Start, Parts!Ids!Start, Ids!Look, Parts!Ids!Look,
      Ids!Open, Parts!Ids!Open, Ids!Prepare, Parts!Ids!Prepare, Ids!Accepted,
      Parts!Ids!Accepted, Ids!RefusesId, Parts!Ids!RefusesId, Ids!SendFails,
      Parts!Ids!SendFails, Ids!Evict, Parts!Ids!Evict, Ids!Store, Parts!Ids!Store,
      Ids!Expires, Parts!Ids!Expires, Ids!IdDies, Parts!Ids!IdDies, Ids!None,
      Parts!Ids!None, Ids!First, Parts!Ids!First, Ids!Begin, Parts!Ids!Begin, Ids!Lookup,
      Parts!Ids!Lookup, Ids!Fault, Parts!Ids!Fault, Ids!Failed, Parts!Ids!Failed, Ids!Over,
      Parts!Ids!Over, Ids!Metadata, Parts!Ids!Metadata, Ids!Verdict, Parts!Ids!Verdict,
      Ids!UnitEnds, Parts!Ids!UnitEnds, Ids!SentById, Parts!Ids!SentById, Ids!Shown,
      Parts!Ids!Shown, Ids!Ages, Parts!Ids!Ages, Ids!NextUnit, Parts!Ids!NextUnit, Ids!Junk,
      Parts!Ids!Junk, Ids!PassEnds, Parts!Ids!PassEnds, Ids!Min, Parts!Ids!Min,
      Ids!Cardinality, Parts!Ids!Cardinality, Ids!IsFiniteSet, Parts!Ids!IsFiniteSet
<1>4. Ids!FileIdsAreSafe <=> Parts!Ids!FileIdsAreSafe
  BY DEF Ids!FileIdsAreSafe, Parts!Ids!FileIdsAreSafe, Ids!TypeOK, Parts!Ids!TypeOK,
      Ids!NoItemTwice, Parts!Ids!NoItemTwice, Ids!HonestReceipts, Parts!Ids!HonestReceipts,
      Ids!CacheCostsNothing, Parts!Ids!CacheCostsNothing, Ids!Junk, Parts!Ids!Junk,
      Ids!Passes, Parts!Ids!Passes, Ids!Places, Parts!Ids!Places, Ids!Failed,
      Parts!Ids!Failed
<1>. QED
  BY <1>1, <1>2, <1>3, <1>4

(* RateLimits.                                                             *)
LEMMA SameLimits ==
  /\ Limits!LimitsAssumption <=> Parts!Limits!LimitsAssumption
  /\ Limits!Init <=> Parts!Limits!Init
  /\ Limits!Next <=> Parts!Limits!Next
  /\ Limits!LimitsHold <=> Parts!Limits!LimitsHold
<1>1. Limits!LimitsAssumption <=> Parts!Limits!LimitsAssumption
  BY DEF Limits!LimitsAssumption, Parts!Limits!LimitsAssumption
<1>2. Limits!Init <=> Parts!Limits!Init
  BY DEF Limits!Init, Parts!Limits!Init, Limits!User, Parts!Limits!User, Limits!Keys,
      Parts!Limits!Keys, Limits!Slack, Parts!Limits!Slack, Limits!Chat, Parts!Limits!Chat
<1>3. Limits!Next <=> Parts!Limits!Next
  BY DEF Limits!Next, Parts!Limits!Next, Limits!Keys, Parts!Limits!Keys, Limits!CheckMemory,
      Parts!Limits!CheckMemory, Limits!Times, Parts!Limits!Times, Limits!Script,
      Parts!Limits!Script, Limits!FailOpen, Parts!Limits!FailOpen, Limits!Tick,
      Parts!Limits!Tick, Limits!User, Parts!Limits!User, Limits!Chat, Parts!Limits!Chat,
      Limits!Grants, Parts!Limits!Grants, Limits!Charged, Parts!Limits!Charged,
      Limits!Check, Parts!Limits!Check, Limits!Idle, Parts!Limits!Idle, Limits!Most,
      Parts!Limits!Most, Limits!Least, Parts!Limits!Least, Limits!Slack, Parts!Limits!Slack,
      Limits!Refilled, Parts!Limits!Refilled, Limits!Life, Parts!Limits!Life,
      Limits!MaxIdle, Parts!Limits!MaxIdle
<1>4. Limits!LimitsHold <=> Parts!Limits!LimitsHold
  BY DEF Limits!LimitsHold, Parts!Limits!LimitsHold, Limits!Keys, Parts!Limits!Keys,
      Limits!TypeOK, Parts!Limits!TypeOK, Limits!User, Parts!Limits!User, Limits!Chat,
      Parts!Limits!Chat, Limits!Life, Parts!Limits!Life
<1>. QED
  BY <1>1, <1>2, <1>3, <1>4

(* StoreSchema.                                                            *)
LEMMA SameSchema ==
  /\ Schema!SchemaAssumption <=> Parts!Schema!SchemaAssumption
  /\ Schema!Init <=> Parts!Schema!Init
  /\ Schema!Next <=> Parts!Schema!Next
  /\ Schema!MigrationsAreSafe <=> Parts!Schema!MigrationsAreSafe
<1>1. Schema!SchemaAssumption <=> Parts!Schema!SchemaAssumption
  BY DEF Schema!SchemaAssumption, Parts!Schema!SchemaAssumption, Schema!Versions,
      Parts!Schema!Versions
<1>2. Schema!Init <=> Parts!Schema!Init
  BY DEF Schema!Init, Parts!Schema!Init, Schema!Versions, Parts!Schema!Versions
<1>3. Schema!Next <=> Parts!Schema!Next
  BY DEF Schema!Next, Parts!Schema!Next, Schema!Fails, Parts!Schema!Fails,
      Schema!WriteProbe, Parts!Schema!WriteProbe, Schema!Operate, Parts!Schema!Operate,
      Schema!Step, Parts!Schema!Step, Schema!At, Parts!Schema!At, Schema!Probe,
      Parts!Schema!Probe, Schema!ReadVersion, Parts!Schema!ReadVersion, Schema!Begin,
      Parts!Schema!Begin, Schema!Commit, Parts!Schema!Commit, Schema!Goes,
      Parts!Schema!Goes, Schema!Todo, Parts!Schema!Todo, Schema!Row, Parts!Schema!Row
<1>4. Schema!MigrationsAreSafe <=> Parts!Schema!MigrationsAreSafe
  BY DEF Schema!MigrationsAreSafe, Parts!Schema!MigrationsAreSafe, Schema!TypeOK,
      Parts!Schema!TypeOK, Schema!At, Parts!Schema!At, Schema!Versions,
      Parts!Schema!Versions
<1>. QED
  BY <1>1, <1>2, <1>3, <1>4

(* CacheLeases.                                                            *)
LEMMA SameHolds ==
  /\ Holds!HoldsAssumption <=> Parts!Holds!HoldsAssumption
  /\ Holds!Init <=> Parts!Holds!Init
  /\ Holds!Next <=> Parts!Holds!Next
  /\ Holds!LeasesAreExclusive <=> Parts!Holds!LeasesAreExclusive
<1>1. Holds!HoldsAssumption <=> Parts!Holds!HoldsAssumption
  BY DEF Holds!HoldsAssumption, Parts!Holds!HoldsAssumption
<1>2. Holds!Init <=> Parts!Holds!Init
  BY DEF Holds!Init, Parts!Holds!Init, Holds!Free, Parts!Holds!Free
<1>3. Holds!Next <=> Parts!Holds!Next
  BY DEF Holds!Next, Parts!Holds!Next, Holds!Ask, Parts!Holds!Ask, Holds!Fails,
      Parts!Holds!Fails, Holds!Tick, Parts!Holds!Tick, Holds!Step, Parts!Holds!Step,
      Holds!Free, Parts!Holds!Free, Holds!Alive, Parts!Holds!Alive, Holds!Owned,
      Parts!Holds!Owned, Holds!Told, Parts!Holds!Told, Holds!Acquire, Parts!Holds!Acquire,
      Holds!Renew, Parts!Holds!Renew, Holds!Release, Parts!Holds!Release, Holds!AskedAt,
      Parts!Holds!AskedAt, Holds!Turn, Parts!Holds!Turn
<1>4. Holds!LeasesAreExclusive <=> Parts!Holds!LeasesAreExclusive
  BY DEF Holds!LeasesAreExclusive, Parts!Holds!LeasesAreExclusive, Holds!TypeOK,
      Parts!Holds!TypeOK, Holds!Owned, Parts!Holds!Owned, Holds!Counts, Parts!Holds!Counts,
      Holds!Alive, Parts!Holds!Alive
<1>. QED
  BY <1>1, <1>2, <1>3, <1>4

(* MediaCache.                                                             *)
LEMMA SameCache ==
  /\ Cache!CacheAssumption <=> Parts!Cache!CacheAssumption
  /\ Cache!Init <=> Parts!Cache!Init
  /\ Cache!Next <=> Parts!Cache!Next
  /\ Cache!CacheIsSafe <=> Parts!Cache!CacheIsSafe
<1>1. Cache!CacheAssumption <=> Parts!Cache!CacheAssumption
  BY DEF Cache!CacheAssumption, Parts!Cache!CacheAssumption, Cache!Keys, Parts!Cache!Keys
<1>2. Cache!Init <=> Parts!Cache!Init
  BY DEF Cache!Init, Parts!Cache!Init, Cache!Keys, Parts!Cache!Keys, Cache!Idle,
      Parts!Cache!Idle
<1>3. Cache!Next <=> Parts!Cache!Next
  BY DEF Cache!Next, Parts!Cache!Next, Cache!Keys, Parts!Cache!Keys, Cache!GetMemory,
      Parts!Cache!GetMemory, Cache!Get, Parts!Cache!Get, Cache!Evict, Parts!Cache!Evict,
      Cache!PutMemory, Parts!Cache!PutMemory, Cache!Put, Parts!Cache!Put, Cache!Junk,
      Parts!Cache!Junk, Cache!Fails, Parts!Cache!Fails, Cache!Tick, Parts!Cache!Tick,
      Cache!Step, Parts!Cache!Step, Cache!Idle, Parts!Cache!Idle, Cache!At, Parts!Cache!At,
      Cache!Present, Parts!Cache!Present, Cache!Bad, Parts!Cache!Bad, Cache!Touched,
      Parts!Cache!Touched, Cache!Begin, Parts!Cache!Begin, Cache!Second, Parts!Cache!Second,
      Cache!Life, Parts!Cache!Life, Cache!Room, Parts!Cache!Room, Cache!Answered,
      Parts!Cache!Answered, Cache!Touch, Parts!Cache!Touch, Cache!Decode,
      Parts!Cache!Decode, Cache!Delete, Parts!Cache!Delete, Cache!Set, Parts!Cache!Set,
      Cache!Ceil, Parts!Cache!Ceil, Cache!Least, Parts!Cache!Least, Cache!Most,
      Parts!Cache!Most, Cache!Key, Parts!Cache!Key, Cache!Cardinality,
      Parts!Cache!Cardinality, Cache!IsFiniteSet, Parts!Cache!IsFiniteSet
<1>4. Cache!CacheIsSafe <=> Parts!Cache!CacheIsSafe
  BY DEF Cache!CacheIsSafe, Parts!Cache!CacheIsSafe, Cache!TypeOK, Parts!Cache!TypeOK,
      Cache!EvictedStaysGone, Parts!Cache!EvictedStaysGone, Cache!UrlsAreAlive,
      Parts!Cache!UrlsAreAlive, Cache!Keys, Parts!Cache!Keys, Cache!Records,
      Parts!Cache!Records, Cache!Second, Parts!Cache!Second, Cache!Key, Parts!Cache!Key,
      Cache!Cardinality, Parts!Cache!Cardinality, Cache!IsFiniteSet, Parts!Cache!IsFiniteSet
<1>. QED
  BY <1>1, <1>2, <1>3, <1>4

(* ProcessSupervisor.                                                      *)
LEMMA SameSup ==
  /\ Supervisor!SupervisorAssumption <=> Parts!Sup!SupervisorAssumption
  /\ Supervisor!Init <=> Parts!Sup!Init
  /\ Supervisor!Next <=> Parts!Sup!Next
  /\ Supervisor!SlotsAreKept <=> Parts!Sup!SlotsAreKept
  /\ Supervisor!CancelReachesAll <=> Parts!Sup!CancelReachesAll
<1>1. Supervisor!SupervisorAssumption <=> Parts!Sup!SupervisorAssumption
  BY DEF Supervisor!SupervisorAssumption, Parts!Sup!SupervisorAssumption,
      Supervisor!IsFiniteSet, Parts!Sup!IsFiniteSet
<1>2. Supervisor!Init <=> Parts!Sup!Init
  BY DEF Supervisor!Init, Parts!Sup!Init
<1>3. Supervisor!Next <=> Parts!Sup!Next
  BY DEF Supervisor!Next, Parts!Sup!Next, Supervisor!Call, Parts!Sup!Call,
      Supervisor!LeaderExits, Parts!Sup!LeaderExits, Supervisor!Cancel, Parts!Sup!Cancel,
      Supervisor!CancelOwner, Parts!Sup!CancelOwner, Supervisor!Starting,
      Parts!Sup!Starting, Supervisor!Ending, Parts!Sup!Ending, Supervisor!Shielded,
      Parts!Sup!Shielded, Supervisor!slots, Parts!Sup!slots, Supervisor!Go, Parts!Sup!Go,
      Supervisor!CancelWaiting, Parts!Sup!CancelWaiting, Supervisor!CancelTeardown,
      Parts!Sup!CancelTeardown, Supervisor!StartCancel, Parts!Sup!StartCancel,
      Supervisor!AcquireOwnerSlot, Parts!Sup!AcquireOwnerSlot, Supervisor!ResumeWorkload,
      Parts!Sup!ResumeWorkload, Supervisor!ResumeProcess, Parts!Sup!ResumeProcess,
      Supervisor!SpawnFails, Parts!Sup!SpawnFails, Supervisor!Spawned, Parts!Sup!Spawned,
      Supervisor!Aborted, Parts!Sup!Aborted, Supervisor!Communicated,
      Parts!Sup!Communicated, Supervisor!BodyEnds, Parts!Sup!BodyEnds,
      Supervisor!CancelDone, Parts!Sup!CancelDone, Supervisor!Flushed, Parts!Sup!Flushed,
      Supervisor!TearDown, Parts!Sup!TearDown, Supervisor!Close, Parts!Sup!Close,
      Supervisor!Reap, Parts!Sup!Reap, Supervisor!Give, Parts!Sup!Give, Supervisor!Quit,
      Parts!Sup!Quit, Supervisor!GiveUp, Parts!Sup!GiveUp, Supervisor!TornDown,
      Parts!Sup!TornDown, Supervisor!Finish, Parts!Sup!Finish, Supervisor!CanTake,
      Parts!Sup!CanTake, Supervisor!Take, Parts!Sup!Take, Supervisor!Await, Parts!Sup!Await,
      Supervisor!Admit, Parts!Sup!Admit, Supervisor!Resume, Parts!Sup!Resume,
      Supervisor!Cancelled, Parts!Sup!Cancelled, Supervisor!InBody, Parts!Sup!InBody,
      Supervisor!ReleaseOwnerSlot, Parts!Sup!ReleaseOwnerSlot, Supervisor!Without,
      Parts!Sup!Without
<1>4. Supervisor!SlotsAreKept <=> Parts!Sup!SlotsAreKept
  BY DEF Supervisor!SlotsAreKept, Parts!Sup!SlotsAreKept, Supervisor!TypeOK,
      Parts!Sup!TypeOK, Supervisor!SlotsAddUp, Parts!Sup!SlotsAddUp, Supervisor!LimitsHold,
      Parts!Sup!LimitsHold, Supervisor!OnlyOpenLeaks, Parts!Sup!OnlyOpenLeaks,
      Supervisor!Places, Parts!Sup!Places, Supervisor!Semaphore, Parts!Sup!Semaphore,
      Supervisor!HasProcessSlot, Parts!Sup!HasProcessSlot, Supervisor!HasOwnerSlot,
      Parts!Sup!HasOwnerSlot, Supervisor!Leaked, Parts!Sup!Leaked, Supervisor!Cardinality,
      Parts!Sup!Cardinality, Supervisor!IsFiniteSet, Parts!Sup!IsFiniteSet
<1>5. Supervisor!CancelReachesAll <=> Parts!Sup!CancelReachesAll
  BY DEF Supervisor!CancelReachesAll, Parts!Sup!CancelReachesAll, Supervisor!Cancelled,
      Parts!Sup!Cancelled
<1>. QED
  BY <1>1, <1>2, <1>3, <1>4, <1>5

(* The parts' values satisfy what the components assume.                  *)
LEMMA Assumptions ==
  /\ FlightProofs!FlightAssumption /\ Parts!Queue!QueueAssumption
  /\ Parts!Life!LifeAssumption /\ Parts!Http!HttpAssumption /\ Parts!Ids!IdsAssumption
  /\ Parts!Limits!LimitsAssumption /\ Parts!Schema!SchemaAssumption
  /\ Parts!Holds!HoldsAssumption /\ Parts!Cache!CacheAssumption
  /\ Parts!Sup!SupervisorAssumption
  BY ComponentsAssumption, ResourcesAssumption, SameFlight, SameQueue, SameLife, SameHttp,
     SameIds, SameLimits, SameSchema, SameHolds, SameCache, SameSup

-----------------------------------------------------------------------------
(* A behaviour runs one part. *)

IsFlight == part = "flight"
IsQueue == part = "queue"
IsLife == part = "lifespan"
IsHttp == part = "http"
IsIds == part = "ids"
IsLimits == part = "limits"
IsSchema == part = "schema"
IsHolds == part = "holds"
IsCache == part = "cache"
IsSupervisor == part = "supervisor"

(* No step changes the part.                                                 *)
LEMMA PartStays == ASSUME [Next]_vars PROVE part' = part
  BY DEF Next, vars, Kept5, Kept6, Kept7, Kept8, Kept11, Kept12, Kept14, Kept16

(* Nor in MCResources.                                                       *)
LEMMA ResourcePartStays == ASSUME [ResourcesNext]_vars PROVE part' = part
  BY DEF ResourcesNext, vars, Kept6, Kept7, Kept9, Kept13

(* A run of the part "flight" is one of SingleFlight.                      *)
LEMMA FlightRuns ==
  Init /\ [][Next]_vars
    => \/ FlightProofs!Init /\ [][FlightProofs!Next]_(FlightProofs!vars) /\ []IsFlight
       \/ []~IsFlight
<1>1. Init => (IsFlight => FlightProofs!Init)
  BY SameFlight DEF Init, IsFlight
<1>2. IsFlight /\ [Next]_vars => IsFlight' /\ [FlightProofs!Next]_(FlightProofs!vars)
  BY SameFlight DEF Next, vars, Kept6, FlightProofs!vars, IsFlight
<1>3. ~IsFlight /\ [Next]_vars => ~IsFlight'
  BY PartStays DEF IsFlight
<1>. QED
  BY <1>1, <1>2, <1>3, PTL

(* A run of the part "queue" is one of DownloadQueue.                      *)
LEMMA QueueRuns ==
  Init /\ [][Next]_vars
    => \/ Parts!Queue!Init /\ [][Parts!Queue!Next]_(Parts!Queue!vars) /\ []IsQueue
       \/ []~IsQueue
<1>1. Init => (IsQueue => Parts!Queue!Init)
  BY SameQueue DEF Init, IsQueue
<1>2. IsQueue /\ [Next]_vars => IsQueue' /\ [Parts!Queue!Next]_(Parts!Queue!vars)
  BY SameQueue DEF Next, vars, Kept7, Parts!Queue!vars, IsQueue
<1>3. ~IsQueue /\ [Next]_vars => ~IsQueue'
  BY PartStays DEF IsQueue
<1>. QED
  BY <1>1, <1>2, <1>3, PTL

(* A run of the part "lifespan" is one of Lifespan.                        *)
LEMMA LifeRuns ==
  Init /\ [][Next]_vars
    => \/ Parts!Life!Init /\ [][Parts!Life!Next]_(Parts!Life!vars) /\ []IsLife
       \/ []~IsLife
<1>1. Init => (IsLife => Parts!Life!Init)
  BY SameLife DEF Init, IsLife
<1>2. IsLife /\ [Next]_vars => IsLife' /\ [Parts!Life!Next]_(Parts!Life!vars)
  BY SameLife DEF Next, vars, Kept11, Parts!Life!vars, IsLife
<1>3. ~IsLife /\ [Next]_vars => ~IsLife'
  BY PartStays DEF IsLife
<1>. QED
  BY <1>1, <1>2, <1>3, PTL

(* A run of the part "http" is one of HttpDownload.                        *)
LEMMA HttpRuns ==
  Init /\ [][Next]_vars
    => \/ Parts!Http!Init /\ [][Parts!Http!Next]_(Parts!Http!vars) /\ []IsHttp
       \/ []~IsHttp
<1>1. Init => (IsHttp => Parts!Http!Init)
  BY SameHttp DEF Init, IsHttp
<1>2. IsHttp /\ [Next]_vars => IsHttp' /\ [Parts!Http!Next]_(Parts!Http!vars)
  BY SameHttp DEF Next, vars, Kept5, Parts!Http!vars, IsHttp
<1>3. ~IsHttp /\ [Next]_vars => ~IsHttp'
  BY PartStays DEF IsHttp
<1>. QED
  BY <1>1, <1>2, <1>3, PTL

(* A run of the part "ids" is one of FileIds.                              *)
LEMMA IdsRuns ==
  Init /\ [][Next]_vars
    => \/ Parts!Ids!Init /\ [][Parts!Ids!Next]_(Parts!Ids!vars) /\ []IsIds
       \/ []~IsIds
<1>1. Init => (IsIds => Parts!Ids!Init)
  BY SameIds DEF Init, IsIds
<1>2. IsIds /\ [Next]_vars => IsIds' /\ [Parts!Ids!Next]_(Parts!Ids!vars)
  BY SameIds DEF Next, vars, Kept8, Parts!Ids!vars, IsIds
<1>3. ~IsIds /\ [Next]_vars => ~IsIds'
  BY PartStays DEF IsIds
<1>. QED
  BY <1>1, <1>2, <1>3, PTL

(* A run of the part "limits" is one of RateLimits.                        *)
LEMMA LimitsRuns ==
  ResourcesInit /\ [][ResourcesNext]_vars
    => \/ Parts!Limits!Init /\ [][Parts!Limits!Next]_(Parts!Limits!vars) /\ []IsLimits
       \/ []~IsLimits
<1>1. ResourcesInit => (IsLimits => Parts!Limits!Init)
  BY SameLimits DEF ResourcesInit, IsLimits
<1>2. IsLimits /\ [ResourcesNext]_vars => IsLimits' /\ [Parts!Limits!Next]_(Parts!Limits!vars)
  BY SameLimits DEF ResourcesNext, vars, Kept9, Parts!Limits!vars, IsLimits
<1>3. ~IsLimits /\ [ResourcesNext]_vars => ~IsLimits'
  BY ResourcePartStays DEF IsLimits
<1>. QED
  BY <1>1, <1>2, <1>3, PTL

(* A run of the part "schema" is one of StoreSchema.                       *)
LEMMA SchemaRuns ==
  ResourcesInit /\ [][ResourcesNext]_vars
    => \/ Parts!Schema!Init /\ [][Parts!Schema!Next]_(Parts!Schema!vars) /\ []IsSchema
       \/ []~IsSchema
<1>1. ResourcesInit => (IsSchema => Parts!Schema!Init)
  BY SameSchema DEF ResourcesInit, IsSchema
<1>2. IsSchema /\ [ResourcesNext]_vars => IsSchema' /\ [Parts!Schema!Next]_(Parts!Schema!vars)
  BY SameSchema DEF ResourcesNext, vars, Kept9, Parts!Schema!vars, IsSchema
<1>3. ~IsSchema /\ [ResourcesNext]_vars => ~IsSchema'
  BY ResourcePartStays DEF IsSchema
<1>. QED
  BY <1>1, <1>2, <1>3, PTL

(* A run of the part "holds" is one of CacheLeases.                        *)
LEMMA HoldsRuns ==
  ResourcesInit /\ [][ResourcesNext]_vars
    => \/ Parts!Holds!Init /\ [][Parts!Holds!Next]_(Parts!Holds!vars) /\ []IsHolds
       \/ []~IsHolds
<1>1. ResourcesInit => (IsHolds => Parts!Holds!Init)
  BY SameHolds DEF ResourcesInit, IsHolds
<1>2. IsHolds /\ [ResourcesNext]_vars => IsHolds' /\ [Parts!Holds!Next]_(Parts!Holds!vars)
  BY SameHolds DEF ResourcesNext, vars, Kept6, Parts!Holds!vars, IsHolds
<1>3. ~IsHolds /\ [ResourcesNext]_vars => ~IsHolds'
  BY ResourcePartStays DEF IsHolds
<1>. QED
  BY <1>1, <1>2, <1>3, PTL

(* A run of the part "cache" is one of MediaCache.                         *)
LEMMA CacheRuns ==
  ResourcesInit /\ [][ResourcesNext]_vars
    => \/ Parts!Cache!Init /\ [][Parts!Cache!Next]_(Parts!Cache!vars) /\ []IsCache
       \/ []~IsCache
<1>1. ResourcesInit => (IsCache => Parts!Cache!Init)
  BY SameCache DEF ResourcesInit, IsCache
<1>2. IsCache /\ [ResourcesNext]_vars => IsCache' /\ [Parts!Cache!Next]_(Parts!Cache!vars)
  BY SameCache DEF ResourcesNext, vars, Kept7, Parts!Cache!vars, IsCache
<1>3. ~IsCache /\ [ResourcesNext]_vars => ~IsCache'
  BY ResourcePartStays DEF IsCache
<1>. QED
  BY <1>1, <1>2, <1>3, PTL

(* A run of the part "supervisor" is one of ProcessSupervisor.             *)
LEMMA SupervisorRuns ==
  ResourcesInit /\ [][ResourcesNext]_vars
    => \/ Parts!Sup!Init /\ [][Parts!Sup!Next]_(Parts!Sup!vars) /\ []IsSupervisor
       \/ []~IsSupervisor
<1>1. ResourcesInit => (IsSupervisor => Parts!Sup!Init)
  BY SameSup DEF ResourcesInit, IsSupervisor
<1>2. IsSupervisor /\ [ResourcesNext]_vars => IsSupervisor' /\ [Parts!Sup!Next]_(Parts!Sup!vars)
  BY SameSup DEF ResourcesNext, vars, Kept13, Parts!Sup!vars, IsSupervisor
<1>3. ~IsSupervisor /\ [ResourcesNext]_vars => ~IsSupervisor'
  BY ResourcePartStays DEF IsSupervisor
<1>. QED
  BY <1>1, <1>2, <1>3, PTL

-----------------------------------------------------------------------------
(* The theorems. *)

(* Concurrent requests for one key share one task and no fate, and download *)
(* slots are lost in one way only, never too many in use, never idle while *)
(* someone queues: in every interleaving of callers, factories, releases,  *)
(* timeouts and cancellations (singleflight.py, download_queue.py).        *)
THEOREM WaitersServed == Spec => []WaitersAreServed
<1>1. FlightProofs!Init /\ [][FlightProofs!Next]_(FlightProofs!vars)
       => []FlightProofs!FlightIsShared
  BY Assumptions, FlightProofs!FlightsAreShared, PTL DEF FlightProofs!Spec
<1>2. Parts!Queue!Init /\ [][Parts!Queue!Next]_(Parts!Queue!vars)
       => []Parts!Queue!SlotsAreKept
  BY Assumptions, Parts!SlotsKept, PTL DEF Parts!Queue!Spec
<1>3. (IsFlight => FlightProofs!FlightIsShared) /\ (IsQueue => Parts!Queue!SlotsAreKept)
       => WaitersAreServed
  BY SameFlight, SameQueue DEF WaitersAreServed, IsFlight, IsQueue
<1>. QED
  BY <1>1, <1>2, <1>3, FlightRuns, QueueRuns, PTL DEF Spec

(* Runtimes of the process never overlap, nothing closes under a running   *)
(* handler or twice, readiness answers are of the bot they name, and a     *)
(* download by link exits its lease once and reads only while it holds it, *)
(* wherever phases fail, clients leave and the server cancels (main.py,    *)
(* routes.py).                                                             *)
THEOREM ServiceSafe == Spec => []ServiceIsSafe
<1>1. Parts!Life!Init /\ [][Parts!Life!Next]_(Parts!Life!vars)
       => []Parts!Life!LifespanIsSafe
  BY Assumptions, Parts!LifespanAlways
<1>2. Parts!Http!Init /\ [][Parts!Http!Next]_(Parts!Http!vars)
       => []Parts!Http!DownloadsAreSafe
  BY Assumptions, Parts!DownloadsAlways
<1>3. (IsLife => Parts!Life!LifespanIsSafe) /\ (IsHttp => Parts!Http!DownloadsAreSafe)
       => ServiceIsSafe
  BY SameLife, SameHttp DEF ServiceIsSafe, IsLife, IsHttp
<1>. QED
  BY <1>1, <1>2, <1>3, LifeRuns, HttpRuns, PTL DEF Spec

(* A cached, stale or lost Telegram file id never makes an item appear     *)
(* twice, and every receipt says what was shown (delivery.py,              *)
(* media_cache.py).                                                        *)
THEOREM FileIdsKept == Spec => []FileIdsAreSafe
<1>1. Parts!Ids!Init /\ [][Parts!Ids!Next]_(Parts!Ids!vars)
       => []Parts!Ids!FileIdsAreSafe
  BY Assumptions, Parts!FileIdsAlways
<1>2. (IsIds => Parts!Ids!FileIdsAreSafe) => FileIdsAreSafe
  BY SameIds DEF FileIdsAreSafe, IsIds
<1>. QED
  BY <1>1, <1>2, IdsRuns, PTL DEF Spec

(* No key passes more than its bucket gives, but for checks that Redis     *)
(* does not answer, which pass with no token; memory refuses none that has *)
(* credit (limiter.py).                                                    *)
THEOREM LimitsKept == ResourcesSpec => []LimitsHold
<1>1. Parts!Limits!Init /\ [][Parts!Limits!Next]_(Parts!Limits!vars)
       => []Parts!Limits!LimitsHold
  BY Assumptions, Parts!LimitsSafe, PTL DEF Parts!Limits!Spec
<1>2. (IsLimits => Parts!Limits!LimitsHold) => LimitsHold
  BY SameLimits DEF LimitsHold, IsLimits
<1>. QED
  BY <1>1, <1>2, LimitsRuns, PTL DEF ResourcesSpec

(* The media cache never returns what was evicted before, nor a dead URL,  *)
(* keeps its bound, and its leases exclude each other (media_cache.py).    *)
THEOREM CacheKept == ResourcesSpec => []CacheIsSafe
<1>1. Parts!Cache!Init /\ [][Parts!Cache!Next]_(Parts!Cache!vars)
       => []Parts!Cache!CacheIsSafe
  BY Assumptions, Parts!CacheAlways
<1>2. Parts!Holds!Init /\ [][Parts!Holds!Next]_(Parts!Holds!vars)
       => []Parts!Holds!LeasesAreExclusive
  BY Assumptions, Parts!HoldsSafe, PTL DEF Parts!Holds!Spec
<1>3. (IsCache => Parts!Cache!CacheIsSafe) /\ (IsHolds => Parts!Holds!LeasesAreExclusive)
       => CacheIsSafe
  BY SameCache, SameHolds DEF CacheIsSafe, IsCache, IsHolds
<1>. QED
  BY <1>1, <1>2, <1>3, CacheRuns, HoldsRuns, PTL DEF ResourcesSpec

(* The job store's schema is whole for whoever has opened it, through      *)
(* concurrent starts, failures and restarts (job_store.py).                *)
THEOREM SchemaKept == ResourcesSpec => []MigrationsAreSafe
<1>1. Parts!Schema!Init /\ [][Parts!Schema!Next]_(Parts!Schema!vars)
       => []Parts!Schema!MigrationsAreSafe
  BY Assumptions, Parts!SchemaAlways
<1>2. (IsSchema => Parts!Schema!MigrationsAreSafe) => MigrationsAreSafe
  BY SameSchema DEF MigrationsAreSafe, IsSchema
<1>. QED
  BY <1>1, <1>2, SchemaRuns, PTL DEF ResourcesSpec

(* The slots of the process supervisor bound the processes that run, none  *)
(* is lost or returned twice, but for one case, and a cancelled owner's    *)
(* processes are killed, whatever they are at (process.py).                *)
THEOREM SupervisorKept == ResourcesSpec => []SupervisorIsSafe
<1>1. Parts!Sup!Init /\ [][Parts!Sup!Next]_(Parts!Sup!vars)
       => []Parts!Sup!SlotsAreKept
  BY Assumptions, Parts!SupervisorSafe, PTL DEF Parts!Sup!Spec
<1>2. Parts!Sup!Init /\ [][Parts!Sup!Next]_(Parts!Sup!vars)
       => []Parts!Sup!CancelReachesAll
  BY Assumptions, Parts!OwnersReached, PTL DEF Parts!Sup!Spec
<1>3. (IsSupervisor => Parts!Sup!SlotsAreKept) /\ (IsSupervisor => Parts!Sup!CancelReachesAll)
       => SupervisorIsSafe
  BY SameSup DEF SupervisorIsSafe, IsSupervisor
<1>. QED
  BY <1>1, <1>2, <1>3, SupervisorRuns, PTL DEF ResourcesSpec

=============================================================================
