---------------------------- MODULE MCResources ----------------------------
(***************************************************************************)
(* The components that keep the limits, the files and the records, model-  *)
(* checked by a run of their own in the way of MCComponents: `part` names  *)
(* the one that runs and x1, x2, ... are its variables.                    *)
(***************************************************************************)
EXTENDS MCComponents, TLC

CONSTANTS Null

\* Two processes of one owner, c2 in the body of c1 (a pipe), and a call of run
\* by another owner.
Supervisor ==
  INSTANCE ProcessSupervisor WITH
    None <- Null, Calls <- {"c1", "c2", "c3"}, Owners <- {"o1", "o2"},
    OwnerOf <- [c \in {"c1", "c2", "c3"} |-> IF c = "c3" THEN "o2" ELSE "o1"],
    Opens <- {"c1", "c2"},
    Inner <- [c \in {"c1", "c2", "c3"} |-> IF c = "c1" THEN "c2" ELSE Null],
    MaxProcesses <- 1, MaxCancels <- 2, workload <- x1, process <- x2,
    refs <- x3, generation <- x4, registered <- x5, at <- x6, born <- x7,
    tree <- x8, down <- x9, end <- x10, reap <- x11, cancels <- x12

\* One race over every provider, or two races that share a cheap one.
Race ==
  INSTANCE ProviderRace WITH
    None <- Null, Races <- {"r1", "r2"}, Cheap <- {"cheapA", "cheapB"}, Heavy <- {"heavyA"},
    Requests <- {("r1" :> {"cheapA", "cheapB", "heavyA"} @@ "r2" :> {}),
                 ("r1" :> {"cheapA", "heavyA"} @@ "r2" :> {"cheapA"})},
    Retries <- 1, Threshold <- 2, supports <- x1, circuit <- x2, phase <- x3,
    done <- x4, late <- x5, cheap <- x6, heavy <- x7, work <- x8

\* Three calls of a provider that spaces its requests, and one call of each.
Pacing ==
  INSTANCE HttpProviders WITH
    None <- Null, Calls <- {1, 2, 3}, Served <- {"fxtwitter"}, Interval <- 2,
    Delays <- {Null}, MaxRedirects <- 0, MaxLinks <- 1, MaxNow <- 4,
    provider <- x1, now <- x2, pace <- x3, begun <- x4, call <- x5

Web ==
  INSTANCE HttpProviders WITH
    None <- Null, Calls <- {1},
    Served <- {"tikwm", "fxtwitter", "ssstik", "snapsave", "cobalt", "pinterest"},
    Interval <- 2, Delays <- {Null, 1, 2}, MaxRedirects <- 3, MaxLinks <- 3,
    MaxNow <- 0, provider <- x1, now <- x2, pace <- x3, begun <- x4, call <- x5

Files ==
  INSTANCE Artifacts WITH
    None <- Null, Durations <- {60, 200}, Starts <- {Null, 20, 80}, Ends <- {Null, 50, 300},
    Edges <- {480, 720}, pc <- x1, request <- x2, media <- x3, plan <- x4,
    made <- x5, damage <- x6

Cache ==
  INSTANCE MediaCache WITH
    None <- Null, Calls <- {1, 2},
    Ttl <- [k \in {"metadata", "signed-url", "file-id"} |-> IF k = "metadata" THEN 2 ELSE 1],
    MaxEntries <- 1, MaxNow <- 2, MaxPuts <- 2, redis <- x1, now <- x2,
    rec <- x3, puts <- x4, gone <- x5, call <- x6

Holds ==
  INSTANCE CacheLeases WITH
    None <- Null, Tasks <- {1, 2}, Ttl <- 2, MaxNow <- 4, MaxTokens <- 3, redis <- x1,
    now <- x2, lease <- x3, tokens <- x4, task <- x5

Limits ==
  INSTANCE RateLimits WITH
    None <- Null, Tasks <- {1, 2}, Capacity <- 2, Cost <- 1, Early <- 1, Late <- 1,
    IdleFloor <- 0, PruneEvery <- 2, MaxOwed <- 1, MaxNow <- 5, redis <- x1, now <- x2,
    bucket <- x3, lastPrune <- x4, credit <- x5, owed <- x6, unfair <- x7, task <- x8

Schema ==
  INSTANCE StoreSchema WITH
    None <- Null, Processes <- {1, 2, 3}, Supports <- <<3, 4, 4>>, MaxProbes <- 2,
    MaxCrashes <- 3, version <- x1, parts <- x2, generation <- x3, lock <- x4,
    proc <- x5, probes <- x6, broken <- x7, crashes <- x8

ASSUME ResourcesAssumption ==
  /\ Supervisor!SupervisorAssumption /\ Race!RaceAssumption
  /\ Pacing!ProvidersAssumption /\ Web!ProvidersAssumption
  /\ Cache!CacheAssumption /\ Holds!HoldsAssumption
  /\ Limits!LimitsAssumption /\ Schema!SchemaAssumption

-----------------------------------------------------------------------------

\* The variables a part does not have.
Unused13 == x13 = "unused" /\ Unused14
Unused9 == x9 = "unused" /\ x10 = "unused" /\ Unused11

Kept13 == UNCHANGED <<part, x13, x14, x15>>
Kept9 == UNCHANGED <<part, x9, x10, x11, x12, x13, x14, x15>>

ResourcesInit ==
  \/ part = "supervisor" /\ Supervisor!Init /\ Unused13
  \/ part = "race" /\ Race!Init /\ Unused9
  \/ part = "pacing" /\ Pacing!Init /\ Unused6
  \/ part = "web" /\ Web!Init /\ Unused6
  \/ part = "artifacts" /\ Files!Init /\ Unused7
  \/ part = "cache" /\ Cache!Init /\ Unused7
  \/ part = "holds" /\ Holds!Init /\ Unused6
  \/ part = "limits" /\ Limits!Init /\ Unused9
  \/ part = "schema" /\ Schema!Init /\ Unused9

ResourcesNext ==
  \/ part = "supervisor" /\ Supervisor!Next /\ Kept13
  \/ part = "race" /\ Race!Next /\ Kept9
  \/ part = "pacing" /\ Pacing!Next /\ Kept6
  \/ part = "web" /\ Web!Next /\ Kept6
  \/ part = "artifacts" /\ Files!Next /\ Kept7
  \/ part = "cache" /\ Cache!Next /\ Kept7
  \/ part = "holds" /\ Holds!Next /\ Kept6
  \/ part = "limits" /\ Limits!Next /\ Kept9
  \/ part = "schema" /\ Schema!Next /\ Kept9

\* Deadlines pass, and asyncio runs what is ready of one race; no more is assumed.
ResourcesSpec ==
  /\ ResourcesInit
  /\ [][ResourcesNext]_vars
  /\ WF_vars(part = "race" /\ Race!MustGoOn("r1") /\ Kept9)

-----------------------------------------------------------------------------
(* Properties. *)

(* The slots of the process supervisor bound the processes that run, none is   *)
(* lost or returned twice, but for one case, and a cancelled owner's processes *)
(* are killed, whatever they are at (process.py).                              *)
SupervisorIsSafe ==
  part = "supervisor" => Supervisor!SlotsAreKept /\ Supervisor!CancelReachesAll

(* Nobody who holds a slot and waits for another is stuck (process.py).        *)
LaunchesGoOn == part = "supervisor" => Supervisor!NobodyIsStuck

(* The routes' circuits and the races over them agree, no race gives up before *)
(* all its routes have, and no probe is forgotten (race.py, registry.py).  The *)
(* providers they ask keep an interval between requests and secrets at their   *)
(* origin, return probed media or a failure that says whether and when to      *)
(* retry, and are switched off only by services they trust (providers/).       *)
RacesAreFair ==
  /\ part = "race" => Race!RacesAreFair
  /\ part = "pacing" => Pacing!ProvidersAreSafe
  /\ part = "web" => Web!ProvidersAreSafe

(* A race that runs returns: at the latest its deadline decides it, and its    *)
(* workers are cancelled and joined, whatever its providers and whatever       *)
(* another race over the same providers does (race.py).                        *)
RaceEnds == (part = "race" /\ x3["r1"] = "running") ~> (part = "race" /\ x3["r1"] = "idle")

(* The plan of a provider, the ffmpeg command and the validation agree: honest *)
(* work passes, and what passes is what was asked for (ytdlp.py, transport.py, *)
(* pipeline.py).                                                               *)
ArtifactsAreRight == part = "artifacts" => Files!ArtifactsAreRight

(* The media cache never returns what was evicted before or has expired, keeps *)
(* its bound, and its leases exclude each other, in memory and in a Redis      *)
(* whose answers are late or lost (media_cache.py).                            *)
CacheIsSafe ==
  /\ part = "cache" => Cache!CacheIsSafe
  /\ part = "holds" => Holds!LeasesAreExclusive

(* No key passes more than its bucket gives, but for checks that Redis does    *)
(* not answer, which pass with no token; memory refuses none that has credit   *)
(* (limiter.py).                                                               *)
LimitsHold == part = "limits" => Limits!LimitsHold

(* The job store's schema is whole for whoever has opened it (job_store.py).   *)
MigrationsAreSafe == part = "schema" => Schema!MigrationsAreSafe

=============================================================================
