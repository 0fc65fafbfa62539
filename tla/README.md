# Verification of the media bot

TLA+ models of the Telegram media bot in `app/`, the TLC runs that check them on
small instances, and theorems that TLAPS proves for every instance.
`PROJECT.json` maps each definition to the lines it models, each property to a
mutation of the code that breaks it, and lists the hazards the properties are for.

## 1. The system

A FastAPI process receives Telegram updates over a webhook (or by polling), and
answers links with media. Everything runs on one asyncio loop; SQLite, file and
subprocess work runs in threads or child processes. During a deployment an old
and a new process overlap and share the SQLite file and the media directory.

| Component | Source | State it keeps | Operations | Works with |
|---|---|---|---|---|
| Durable job store | `core/job_store.py` | tables `jobs`, `deliveries`, `worker_lease`, schema version | open and migrate, accept, acquire/renew/release lease, claim, renew claim, checkpoint/complete/fail, begin/finalize delivery, supersede, requeue, purge | webhook, worker, delivery, retry button |
| HTTP endpoints | `api/routes.py` | readiness probe, links | store the update, then answer 200; download by link; readiness | job store, pipeline |
| Update worker, drain | `core/drain.py` | loop task, heartbeat task, active jobs, drain state | start, poll, process, heartbeat, supervise, drain, stop | job store, handlers |
| Telegram delivery | `services/media/delivery.py` | results of the current call | read outcomes, reserve, send, record, fall back, `retry_failed` | job store, Telegram, media cache |
| Download queue | `core/download_queue.py` | semaphore, waiters, lock | acquire, time out, cancel, release | every heavy handler |
| Single flight | `services/media/singleflight.py` | flights by key | do, unsubscribe | pipeline |
| Process supervisor | `core/process.py` | workload and process slots, handles and generation by owner | run, open, cancel owner | yt-dlp, gallery-dl, ffmpeg |
| Disk budget, file leases, janitor | `core/resource_budget.py`, `tasks/janitor.py` | reserved bytes, `.lease` sidecars and their locks | reserve, grow, bind, promote, release; clean, purge | transport, pipeline |
| Pipeline and races | `services/media/pipeline.py`, `race.py`, `materialization_race.py` | ready files with their users, pending users, flights | resolve, materialize, publish, release, deliver, fall back, validate | providers, transport, cache, delivery |
| Transport | `services/media/transport.py` | attempts of the current call | race small candidates, reserve, probe, stream ranges, follow redirects, transform, refresh | disk budget, leases |
| Web providers | `services/media/providers/*.py`, `services/pinterest.py` | when each origin may be asked again | wait, request, follow redirects, read, probe links | races, services |
| Registry and proxies | `services/media/registry.py`, `proxies.py` | circuit breakers, cooldowns | admit, succeed, fail, probe | races, providers |
| Media cache | `core/media_cache.py` | typed records in memory or Redis | get, put, evict, leases | delivery, pipeline |
| Retry control | `bot/retry.py` | active and finished tokens, saved requests | save, retry, finish | job store, pipeline |
| Bot handlers | `bot/*.py` | pending links, menus, GIF claims | message, callback, group and Instagram flows | everything above |
| Instagram service | `services/instagram.py` | session pool, index, dead sessions | claim a session, profiles, stories | limiter, handlers |
| Converter | `services/converter.py` | conversion permits, temporary files | GIF, slideshow | supervisor, handlers |
| Rate limiter | `core/limiter.py` | buckets of users and chats | allow, prune | handlers |
| Lifespan | `main.py` | the application's parts, their one owner | start up, shut down in order, deferred close | worker, drain, janitor |

What is hard in it, and hard to reach in a test:

- two processes on one database, where the older does not know it was replaced;
- a `now` that is read before a call waits for its thread and the database lock;
- cancelled callers whose threads commit afterwards;
- sends whose outcome is unknown, and crashes between reserve, send and record;
- cancellation and timeout at each await of the queue, racing a grant;
- owners cancelled around a launch, and calls cancelled inside their own teardown;
- the last subscriber of a shared download leaving while another joins, and the file
  of a flight that was overtaken;
- janitors of two processes that delete by age while leases are taken and renewed;
- a race that is decided, times out or is cancelled while a probe or a retry sleeps;
- buttons pressed again before, while and after the first press works, and after a
  restart that forgot the first half of what was known;
- records of a shared cache that expire or are evicted between two commands.

What makes each part correct is stated as its properties in section 3.

## 2. Modules

| Module | Models | Uses |
|---|---|---|
| `JobStore` | the store under its most general client | – |
| `StoreSchema` | opening, migrating and probing the store's database by several processes | – |
| `DurableInbox` | webhook, workers, drain and delivery of several processes around one store | `JobStore` (by `INSTANCE`, as component and as abstract specification) |
| `DownloadQueue` | slot queue of one process | – |
| `SingleFlight` | shared work for one key | – |
| `SharedMedia` | `open_materialized`: one file shared by its callers, provider chain and route race | `SingleFlight` (by `INSTANCE`, as component and as abstract specification) |
| `ProviderRace` | `race_candidates` and the circuit breakers races share | – |
| `HttpProviders` | the providers that ask web services for links | – |
| `MediaRoutes` | proxy routes of yt-dlp and gallery-dl, refresh and choice of formats | – |
| `Transport` | `materialize`: candidates, redirects, ranges, refresh, deadline | – |
| `Artifacts` | the plan, the ffmpeg command and the validation of a file | – |
| `FileIds` | deliveries by cached file ids and their fallbacks | – |
| `RetryControl` | the retry button, durable and polling | – |
| `GifExport`, `Slideshow` | the GIF and slideshow buttons with converter and sender | – |
| `InstagramStories` | session pool, profile menus, stories and highlights | – |
| `HttpDownload` | download by link | – |
| `MediaCache`, `CacheLeases` | records and leases of the cache, in memory and Redis | – |
| `RateLimits` | both token-bucket limiters | – |
| `ProcessSupervisor` | slots, launches and teardown of child processes | – |
| `MediaLeases` | disk budget and file leases as the transport uses them, and the janitors | – |
| `Lifespan` | start-up, shutdown and readiness of one process | – |
| `JobStoreProofs`, `DurableInboxProofs`, `SingleFlightProofs`, `SharedMediaProofs`, `RetryControlProofs`, `MediaLeasesProofs` | theorems about the module of the same name (section 5) | that module; `DurableInboxProofs` also `JobStoreProofs`, `SharedMediaProofs` also `SingleFlightProofs` |
| `PartsProofs` | theorems about nine components that share nothing: `Lifespan`, `HttpDownload`, `FileIds`, `RateLimits`, `StoreSchema`, `CacheLeases`, `MediaCache`, `DownloadQueue`, `ProcessSupervisor` | those modules, by `INSTANCE` |
| `ComponentsProofs` | theorems of single components, for the sum runs | `MCResources`, `SingleFlightProofs` and `PartsProofs` by `INSTANCE` |
| `MC*` | constants and symmetry for TLC | the module of the same name |
| `MCComponents`, `MCResources` | ten and eight of the components above in one run each | those modules, by `INSTANCE` |

**How to read the two sum runs.** Components that share no state gain nothing from
being interleaved with each other. `MCComponents` and `MCResources` put them side
by side: `part`, chosen initially and never changed, names the component that runs,
and `x1`, `x2`, … are its variables in the order its module declares them. Init,
steps and invariants are the modules' own operators. `MCResources` extends
`MCComponents` for these variables and has an Init and a Next of its own. A property `Routes…` reads
"if `part` is routes then `MediaRoutes!RoutesAreSafe`".

**JobStore.** One variable for each table, one action for each transaction: every
method is one `BEGIN IMMEDIATE`. A statement that matches no row changes nothing;
clients test the negated guard. Expiry times are kept as time left to live, and a
call's `now` may be up to `MaxLag` ticks old (`lag`), as `self._clock()` is read
before the call is handed to a thread. `inbox` is the order `(accepted_at,
update_id)`; an insert may land before earlier ones because its time may be old.
Keys, ids and payloads are model values; a payload is kept, due or purged.

**StoreSchema.** The version is read before `BEGIN IMMEDIATE`; migrations and the new
`user_version` are one transaction and one step (`Commit`): that SQLite rolls back a
transaction whose process dies in it is assumed. A start may fail before and after
each step. Processes of an older and a newer release open the same file. A
process of the older release that read the version early may write its own, lower
version over a newer schema; the newer release then migrates again, and as every
statement is idempotent nothing is lost. The model shows both.

**DurableInbox.** `proc[w]` is the volatile state of a process: the phase of the
worker's loop, the drain, the heartbeat, and the handler's position in `deliver`.
The handler reads the earlier outcome of every item, then reserves, sends and
records unit by unit; `Verdicts` gives the outcomes that each exception or answer
leads to; `retry_failed` repeats the items known to have failed. `accepted` counts
what Telegram really took, which no part of the program can see. `late` holds
store calls whose caller was cancelled; they commit at any later moment, or are
lost with the process. `post` is Telegram's side of the webhook.

**DownloadQueue.** A step is what a task does between two awaits. `lockq` is the
FIFO of `asyncio.Lock`; the lock is held over an await only while "queue full" is
shown.

**SingleFlight.** One key, any number of callers. `joining` is the wait of the last
caller for the task it cancelled.

**SharedMedia.** Callers register as pending users, join the flight, use the file and
are counted off; the last one deletes it. The factory of a flight is the chain of
provider attempts, or for YouTube the race of two routes whose loser is cancelled,
joined and its file released, with the cheap prefetch beside it. A cancelled flight
may still publish while a new one runs; what publication does not take is `refused`.

**ProviderRace.** Two cheap workers with retries, one delayed heavy one, the deadline
and cancellations, over `CircuitBreaker` with its failure window, its single half-open
probe and revisions. `late` says the deadline has passed. A race that is decided, late
or cancelled is `stopping` until it has joined its workers, and `idle` when it has
returned.

**HttpProviders.** Calls of one provider queue for its pacer's lock and sleep under it;
`call[c]` is the request in flight (`origin`, and whether credentials and a payload go
with it), then the links still to probe, of which all, any, or the first or else the
second must be sound (`how`), and the failures so far. A race may cancel a call where
it waits. What a page says is a choice among the outcomes the adapter distinguishes.

**MediaRoutes.** `cooling` is the pool's failed routes in the order in which they
recover. A call reads its routes once and asks them in turn; answers may be late, so
calls overlap over a changing pool. A public YouTube request is raced over two lanes,
each confined to its own routes of the one pool, also when it refreshes. After the
answer comes the transfer by its route, which tells the pool how it went, the one
refresh, and the rest of the candidates. `ill` is kept beside the pool: the routes
whose last report told of a failure of their own, judged by the cause and not by what
the code makes of it. `Candidates` and `Best` choose the format.

**Transport.** `at[c]` is the step of the attempt at candidate `c` and `held[c]` what it
owns; `hop` is the current request of the redirect chain with the headers it still
carries, `body` the ranges it has joined and from which version of the source. The
media on the server may change at any moment. The close of a response and the end of
an ffmpeg get `cleanup_timeout`; what resists goes on in a task of its own
(`detached`), while the attempt gives back its files and its reservation and ends. What
reservation, lease and promotion do on disk is `MediaLeases`.

**Artifacts.** For one video, sound or animation: what the provider declares, the plan
(streams, mux mode, clip, target), what ffmpeg makes of it, and what
`validate_materialized_artifact` says. `damage` is what went wrong on the way.

**FileIds, RetryControl.** In both a send is accepted, refused, or its answer is lost.
`FileIds` has the items of an album, cached ids that die, evictions and re-uploads.
`RetryControl` has one failed request and the presses of its buttons: with jobs one
handler runs at a time and runs again after a crash, in polling mode they interleave
at every await and a crash forgets them.

**GifExport, Slideshow, InstagramStories.** A press is a handler that stops at every
await. Under the durable worker handlers run one at a time (`drain.py:169`), in
polling mode they overlap; these models always let them overlap, which includes both.
`stray` in `Slideshow` says that a video was left without an owner, by a process that
died or a converter that ended with an error status; the janitor takes no file of its
name.
The sessions' buckets of `InstagramStories` refill at any time, and a limiter that
fails lets a call pass without a token.

**HttpDownload.** The generator of the response, its renewal task, the thread that
reads the next chunk, and the server's `aclose` after a client left.

**MediaCache, CacheLeases, RateLimits.** In memory an operation is one step; with Redis
each command is, answers may be lost after they took effect, and time passes between.
The rate limiter's script counts with the time its caller sent, so clocks may differ
by `Early` and commands be delayed by `Late`. `credit` is a key's ideal bucket, charged
for every check that passes; `owed` are those passes of checks that Redis did not
answer (the code lets them through) for which no token was taken, bounded by `MaxOwed`.
Nothing in `app/` acquires a lease of
the cache yet; `CacheLeases` models the managers as they are offered.

**Lifespan.** Lives of the application follow each other in one process. `handler` is a
handler that may outlive the drain; the deferred task waits for it and then closes.

**ProcessSupervisor.** `at[c]` is the await a call of `run` or `open` is at;
`tree[c]` its process group, where the leader may have exited and its children not.
What runs under `asyncio.shield` is kept apart from the caller, who may leave before
it ends: `down` is a handle's teardown under its lock, `end` the closing part of
`_finish` or the return of an owner's slot. The second process of a pipe is started
in the body of the first and must end before that body does. Cancelling an owner
raises its generation and takes its handles down; that it also cancels the owner's
tasks is covered by the cancellations any call may get. The supervisor's own lock is
never held over an await. A generation is raised once.

**MediaLeases.** A download streams a source to a partial file and promotes it, then
does the same for a transform; a path has a file, a lease (`marker`), a lock file and
a temporary of the lease. Locks belong to the file system, and janitors of several
processes run in threads: a download takes its locks in one step and uses and returns
them in the next, a janitor looks for a name, tries the lock, may break a stale one,
inspects and deletes in separate steps. `others` is what the process's other downloads
have reserved. A crash leaves files, leases, locks and half-written leases. Time moves
in ticks; locked code and one visit of a janitor take less than a tick, and a renewal
is never late (`InTime`). `LeaseAssumption` asks that a materialization ends within a
lease and within the age at which files and locks count as old; the defaults are one
hour for all three. It also asks that a lease is renewed before it, and its lock's
file, can count as old (every 300 s, `pipeline.py:176`), and that no two holders of a
lock share a token (a new UUID each, `resource_budget.py:351`).

## 3. Runs

| Run | Bounds | Shows |
|---|---|---|
| `job_store` | 2 jobs, 2 owners, 1 item that is the whole-job key, lease 2, lag 1 | receipts, claims and the lease are fenced against replaced owners with an old clock; retention strips nothing that can run again; finished jobs stay finished; a superseded job was never sent and the links have no cycle |
| `inbox_items` | 1 update, 2 items, 2 processes, lease 1, 1 fault, 1 late call, 2 deliver calls | no item is accepted twice; receipts are true; a completed job tried every item |
| `inbox_live` | 1 update, 1 item, 2 processes, lease 2, 1 fault, no late call | `UsesStore`: every step is a step of `JobStore`; a known failure is never completed; an acknowledged update is finished |
| `inbox_late_receipt` | 1 process, 1 item, 1 late call | finding 1 |
| `queue_lost_slot` | 3 callers, 1 slot, 1 place | finding 2 |
| `media_leases` | 1 download with a transform, 2 processes, 3 bytes of disk, 1 byte a file, lease 2, 1 crash | no janitor removes a file in use or works under a download's lock; the budget of the one process that downloads is the sum of its live reservations, and what it reserves fits. The other process has a janitor only: overlapping processes do not share a budget, so together they may reserve more than fits |
| `shared_media` | 2 callers, any of three kinds of platform, 1 further provider | files are held while used and deleted once; every open ends; `SharesOneFlight`: the flight is `SingleFlight` with its fairness |
| `retry_control` | 2 presses, 2 units, 2 buttons, 1 crash, 1 fault, both modes | no unit is sent twice; a button works and has something to repeat; no press keeps its claim |
| `stories_paused` | 2 handlers, 2 sessions | finding 3 |
| `artifacts_animation` | 2 lengths, 3 starts, 3 ends, 2 sizes | finding 4 |
| `components` | the ten parts below | their safety, and that nobody waits for ever |
| `resources` | the eight parts below | their safety, and that a race ends |

The parts of `components`:

| Part | Bounds | Property | Shows |
|---|---|---|---|
| `SingleFlight` | 3 callers, 3 flights | `WaitersAreServed` | exact count, private cancellation, no detached or doubled work |
| `DownloadQueue` | 4 callers, 1 slot, 2 places | `WaitersAreServed` | bound, no idle slot, one way only to lose a slot |
| `Transport` | 3 candidates, 1 redirect, 2 ranges | `TransportIsSafe` | nothing remains but the returned item and what a detached clean-up still closes; no item of a try that left one; one refresh; only small candidates race; headers stay at their origin; no file of two versions |
| `MediaRoutes` | 2 calls, 1 proxy and the direct route | `RoutesAreSafe` | the pool always has a route to ask; a route cools exactly for the last failure of its own; lanes are kept; giving up means all were asked; formats as promised |
| `FileIds` | 2 requests, an album of 2, 2 ids, 1 ageing, 1 fault | `FileIdsAreSafe` | no item twice; honest receipts; the cache never makes a delivery fail |
| `GifExport` | 2 presses, 1 permit, 1 crash, 1 fault | `ButtonsAreSafe` | one export per source and button, one owner per file, one copy per press |
| `Slideshow` | 2 presses, 2 places, 1 permit, 1 fault | `ButtonsAreSafe` | places add up, sources are held, nothing is left but by a failed conversion or a crash, a deleted status means sent |
| `InstagramStories` | 2 handlers, 2 sessions of 1 token that comes back, 1 reel, 3 starts | `StoriesAreSafe` | menus can be answered; a scan without Redis finds a token that is there; the session that is evicted is the one that was answered with the death signal; everyone is told how it ended |
| `Lifespan` | 2 lives, 2 readiness requests, 2 faults | `ServiceIsSafe` | runtimes never overlap; nothing closes under a handler or twice; answers are of the bot they name |
| `HttpDownload` | 2 requests, 2 chunks, 3 faults | `ServiceIsSafe` | a lease is left exactly once; threads read only what is held |
| all | | `EveryWaitEnds` | no flight, queue place, transfer, extraction, delivery, claim, story, shutdown or abandoned download is for ever |

The parts of `resources`:

| Part | Bounds | Property | Shows |
|---|---|---|---|
| `ProcessSupervisor` | 3 calls, one of them in the body of another, 2 owners, 1 process slot, 2 cancellations | `SupervisorIsSafe`, `LaunchesGoOn` | slots are exact and bound living processes, a leak has one cause; a cancelled owner's processes are all killed, nobody is stuck |
| `ProviderRace` | one race of 3 providers, or two races that share one | `RacesAreFair`, `RaceEnds` | probes are owned, a half-open route serves one, giving up means exhausted, workers are joined; a race that has to stop does so, joins its workers and returns |
| `HttpProviders` | 3 calls of a paced provider, interval 2, 4 ticks; and one call of each provider, 3 redirects, 3 links | `RacesAreFair` | requests keep their distance through cancellations; credentials and payloads stay at their origin; media is probed and albums whole; a failure that can be retried stays one, with the longest delay asked for; only services that are sent a secret or a payload can be switched off |
| `Artifacts` | 2 lengths, 3 starts, 3 ends, 2 sizes | `ArtifactsAreRight` | honest work passes, commands can be obeyed, what passes is what was asked for |
| `MediaCache` | 2 tasks, 3 kinds of records, 1 entry in memory, 2 ticks, 2 puts | `CacheIsSafe` | evicted ids do not come back, returned URLs are alive, memory is bounded |
| `CacheLeases` | 2 tasks, lease 2, 4 ticks, 3 tokens | `CacheIsSafe` | no two callers count on one lease |
| `RateLimits` | 2 handlers, capacity 2, clocks 1 apart, scripts 1 late, 5 ticks, 1 unit owed | `LimitsHold` | no key gets more than its bucket but by checks that Redis does not answer; in memory none less |
| `StoreSchema` | 3 processes of 2 releases, 3 crashes, 2 probes | `MigrationsAreSafe` | whoever has opened the store finds its schema whole |

Why the bounds are enough to show the interesting cases:

- two owners give a replaced worker and its successor, and the properties speak of
  at most two owners at a time. Chains of more than two jobs, and more callers,
  items, presses, downloads and janitors than a run has, are covered by the theorems,
  which hold for any number of them;
- two items give an album and two single sends, and a partly recorded unit;
- a lag of one tick with a lease of two gives a call that was live when it read the
  clock and is not when it commits;
- one fault is a stall past the lease or a failing store call; crashes and drains
  are not counted as faults, only a process that can be replaced is taken down;
- four callers with one slot give a holder, two waiters and a refused one at once;
- two callers of a shared file give every order of joining, publishing and leaving,
  as each may come back as the first user or as the last; two flights are the
  cancelled one and the one that overtakes it;
- two presses give the press that works and the one that comes while it does, after
  it, or after the restart;
- three candidates give two small ones that race and one that follows; two ranges are
  the first and one whose version may differ; one redirect is the step away, and as
  dropped headers are kept nowhere, a step back has none to bring along;
- one process slot with three calls makes the inner call of a pipe wait for the one
  its outer call holds. That the second of two waiting calls of one owner gives its
  slot back (`ResumeWorkload`) needs an instance too large for a run;
- three bytes hold a source, its transform and one byte of another download, so that
  every reservation and growth may fail; with two janitors and one crash a stale lock
  is found twice and broken while somebody else takes the path;
- the times of a clip lie before, around and after the end of a short and a long
  medium, and on both sides of the minute an animation may last.

`CHECK_DEADLOCK FALSE` is used where the callers end: presses, requests, calls and
races are bounded.

**Fairness.** The event loop resumes every ready task; threads, children and network
calls end because they run under deadlines; nothing is assumed of clients, failures,
crashes, timeouts or cancellations.

- `DurableInbox!FairSpec`: weak fairness of a process's supervisor, handler, shutdown
  and the two renewals, of the webhook (Telegram repeats an unanswered post) and of
  time. Drains, crashes and faults are bounded, not fair.
- `SharedMedia!Spec`: weak fairness of each caller's, factory's and lane's steps;
  `RetryControl!Spec`: of each handler's steps, the publication of the first button
  and its presses.
- `components`: one weak fairness of *all* components' own steps together (`Serve`).
  That is weaker than fairness of each task: a fair loop may serve one task for ever
  while it has steps. `EveryWaitEnds` holds all the same because no task of these
  components can go round for ever.
- `resources`: only that the race `r1` goes on when it must (`MustGoOn`), as
  everything else in the run is about safety: that its deadline stops it, that its
  cancelled workers unwind (`Stop`) and that it returns when all are joined. The
  deadline is a step of its own, so `RaceEnds` does not depend on what providers answer
  or on `r2`; it does on providers that let their cancellation through.

## 4. Refinements

- `UsesStore` (`inbox_live`): with `jobs`, `inbox`, `rows` and `lease` of `DurableInbox` mapped to
  the variables of `JobStore`, every step of workers, handlers, drains and webhook is a
  step of the store's specification, or leaves the store alone. This is also proved
  (`StoreRefinement`), and so the theorems about `JobStore` hold of the composed
  system (`StoreGuarantees` states four of them there).
- `SharesOneFlight` (`shared_media`): the flight under `open_materialized` is
  `SingleFlight!FairSpec`: what the pipeline does between subscribe and result is
  nothing a caller of the flight may not do, and every factory ends, which is what
  `SingleFlight` assumes of them. The proof about `SharedMedia` takes the step part
  of this (each step is one of `SingleFlight` or leaves the flight alone) to carry
  the flight's own invariant over; the fairness is checked by TLC.

## 5. Proofs

The theorems hold for every value of the constants the named assumption admits: any
finite or infinite sets where it does not ask for finite ones. The assumptions say
that null values are no members, that lengths and bounds are natural numbers, that
sets which are counted are finite, and how the model names things (`RetryControl`
numbers its presses; a caller of `SharedMedia` starts one flight at most, so flights
are named after callers). What `MediaLeases` asks of its times is in section 2. How
many jobs, processes, callers, presses, items, crashes and faults there are is open.

| Module | Theorem | States |
|---|---|---|
| `JobStoreProofs` | ten theorems | every property of the run `job_store` |
| `DurableInboxProofs` | `ItemsSentOnce` | `AtMostOnce` |
| | `ReceiptsTrue` | `ReceiptsAreTrue` |
| | `NothingSkipped` | `CompletedMeansTried` |
| | `FailuresKept` | `KnownFailuresAreKept`, when no call is late |
| | `StoreRefinement`, `StoreGuarantees` | `UsesStore`, and what follows from it |
| `MediaLeasesProofs` | `LeasesHold` | `FilesStay` |
| `SingleFlightProofs` | `FlightsAreShared` | `FlightIsShared` |
| `PartsProofs` | `SlotsKept` | `DownloadQueue!SlotsAreKept` |
| | `LifespanSafe`, `DownloadsSafe` | `Lifespan!LifespanIsSafe`, `HttpDownload!DownloadsAreSafe` |
| | `FileIdsSafe` | `FileIds!FileIdsAreSafe` |
| | `LimitsSafe` | `RateLimits!LimitsHold` |
| | `SchemaSafe` | `StoreSchema!MigrationsAreSafe` |
| | `CacheSafe`, `HoldsSafe` | `MediaCache!CacheIsSafe`, `CacheLeases!LeasesAreExclusive` |
| | `SupervisorSafe`, `OwnersReached` | `ProcessSupervisor!SlotsAreKept`, `ProcessSupervisor!CancelReachesAll` |
| `ComponentsProofs` | `WaitersServed`, `ServiceSafe`, `FileIdsKept` | `WaitersAreServed`, `ServiceIsSafe`, `FileIdsAreSafe` of the run `components` |
| | `LimitsKept`, `CacheKept`, `SchemaKept` | `LimitsHold`, `CacheIsSafe`, `MigrationsAreSafe` of the run `resources` |
| | `SupervisorKept` | `SupervisorIsSafe` of the run `resources` |
| `SharedMediaProofs` | `MediaShared` | `MediaIsShared` |
| `RetryControlProofs` | `RetriesSafe`, `ButtonsTrue` | `RetriesAreSafe`, `ButtonsAreTrue` |

But for type correctness none of these invariants is inductive alone. The
strengthenings below were checked by TLC on the runs' instances before they were
proved.

**JobStore.** Two lemmas carry most of the argument: they say what a step must satisfy
to change one receipt (`WrittenRow`: its job runs under an owner that holds lease and
claim, and the receipt was not settled) and which of eight changes a step can make to
one job (`WrittenJob`). The action properties follow from these by cases, from the type
invariant alone. The state invariants need each other. `StoreInv` is the conjunction of
`TypeOK`, `PayloadOutlivesWork`, `SupersededNeverSent` and `SupersedeAcyclic`, and it is
inductive as a whole only:

- retention depends on which jobs can be requeued, and so on receipts; a job that
  does not run gets no new receipts (`IdleRows`), so a stripped one stays stripped
  and harmless;
- a superseded job keeps its receipts unsent because it is completed, and it stays
  completed because no transition, claim or requeue starts from there;
- that links form no cycle uses the previous point: a step adds at most one link,
  from some job to a running one (`NewLink`), and a running job has no link, as
  superseded jobs are completed. A set closed under the new links would contain a
  job without one.

**DurableInbox.** `StoreStep` says that every step is a transaction of the store or
leaves it alone; the store's lemmas then bound what happens to rows and claims.

- *At most once* rests on attempts. An item has at most one open attempt: a handler
  between its reservation and its receipt, or a late call that will write the receipt.
  While there is one the item's row stays reserved, whatever lease and claim do; and an
  owner that may still reserve the item knows that there is none and that Telegram has
  accepted nothing (`OneAttempt`). A new owner takes a job only from `pending` or an
  expired claim, reads all rows again, and never puts a reserved item on its list. That
  a replaced handler still sends what it reserved is therefore harmless.
- *Receipts are true* because the attempt carries what Telegram did to its receipt
  (`TrueReceipt`), also when the receipt is late.
- *Completed means tried*: what is on neither list of a handler has a row, and rows do
  not go away (`TriedInv`).
- *Known failures are kept* needs more than the rows: between `has_failed_deliveries`
  and `complete` no row of the job fails (`FailInv`), as only its owner writes them.
  That is false as soon as a call may be late, so `FailuresKept` has the hypothesis
  `MaxLate = 0`, and finding 1 is what happens without it.

**MediaLeases.** For each download: a path is *ahead* of it while it may still work
there under a lock. A lock on such a path is not older than the download's timer, so by
`LeaseAssumption` no janitor finds it stale (`LocksAreYoung`, `LocksAreHeld`), and a
janitor in its locked code there holds the lock (`JanitorsBehave`). It can then delete
only what it saw without an active lease, while a file that is counted on has a lease
whose time left and the time since its renewal add up to the full time
(`NeededAreLeased`).

**SingleFlight.** The registered flight is neither unused nor cancelled and somebody
holds it; every other one is held by nobody and does not run; who waits or leaves holds
the registered one. Hence only the last holder sees the count at one.

**DownloadQueue.** Slots that are free, owned, granted or lost add up to `Slots`. The
list of waiters holds the callers in state `waiting`, each once, and an entry of the
lock's queue says where its caller is; so a grant reaches a caller without a slot, and
one operation under the lock moves one slot. The theorem has the exception of finding 2:
a slot may be lost to a caller cancelled while it waits for the lock to withdraw after
its timeout.

**Lifespan.** The phase of a life says what it owns (`LifeInv`): from its first phase
to its last it is the one owner of the runtime; a handler runs only between `serve` and
the deferred close, when all globals are its own; what has been closed depends on the
phase alone. So the two orders, of starting and of closing, are all that has to be
right, and a second life finds nothing of the first.

**HttpDownload.** A file's users are the requests at the places that hold its lease.
The release is claimed on the way out of the generator and never before it, so there is
one exit for each request, and only the exit of the last user deletes the file
(`HttpInv`).

**FileIds.** An item that is left to send has not appeared; one of the unit under way
appears in the step in which Telegram takes it and in no other, so at most once, and
the verdict about the unit can only say what it saw. The second pass sends again what
the first is known not to have shown, and nothing when it showed anything (`IdsInv`).

**RateLimits.** `credit` is what an ideal bucket would hold that every pass is charged
to, and `Ideal`, `credit` and `owed` together, one that lets unanswered checks pass for
nothing when no token was taken for them. `Ideal` is at least what the real bucket may
give, `Potential`, within its own bound, and in memory it is equal to it (`LimitInv`):
so passes beyond bucket, refill and skew are those unanswered checks and no others. The
theorem does not bound them, as the code does not. A bucket that expires or is pruned
had been idle for so long that it was full, which is where `IdleFloor` and the expiry of the Redis key come in.

**StoreSchema.** Parts are only added, so a version that a process has read stays true
of the parts there are; the process that migrates holds the write lock, so what it
found missing is missing until it commits (`SchemaInv`).

**CacheLeases.** A caller counts on a lease no longer than the record of its own token
lives, and a token is given to one caller (`HoldInv`); two callers that count would be
two owners of one record.

**MediaCache.** Records are numbered by their writes. A number is held by the record of
one key or by the write under way, and an eviction takes it away for good, so what a
call has in hand was not evicted before the call began (`CacheInv`).

**ProcessSupervisor.** Where a call is (`PlaceFits`) says whether its process exists, how
far its closing work is and hence which slots it uses. A semaphore's list holds each
waiting call once, and no granted one (`SemFits`); its operations move one slot between
free, granted and given away (`TakeSem`, `GiveSem`, `QuitSem` and the like). So a step
that moves one call keeps the sums if it takes or returns just what the call's old and
new place say (`OneMoves`), and an owner is counted among the users of a slot as long as
one of its calls is. For `CancelReachesAll`, a process that lives is registered, or is
being closed or killed (`Reached`): what a cancellation of the owner does not find
registered needs no finding.

**ComponentsProofs.** `part` never changes, so a behaviour of `MCComponents` or
`MCResources` is one of a single component or leaves that one's variables alone (the
lemmas `…Runs`); the theorems of `SingleFlightProofs` and `PartsProofs` are carried
over through their instances. The assumptions they have hold of the values in the sum
modules (`ComponentsAssumption`, `ResourcesAssumption`).

**SharedMedia.** `SharedInv` adds to the flight's own invariant which files the stage
of each factory holds (`WorkFits`), that publication gives a file to the key or, when
overtaken, to nobody (`FilesKept`), and that everybody in the flight is counted as
pending or as a user (`SharersFit`, `UsersAreCounted`). So the last user to leave is the
last who could be handed the file. `OvertakenByCancelled` is what allows one file to be
refused: only a cancelled flight is overtaken.

**RetryControl.** The two modes have their own halves of `RetryInv`. With jobs, one
handler runs at a time and the jobs of the request form a chain with one end; a press
delivers only at the end, and a job with anything sent or uncertain stays the end
(`ChainFits`, `SendsFit`). In polling mode the first request publishes one token, the
claim lets one press through at a time, and the row of the token is open or closed once
anything was sent (`PollFits`, `PollSends`, `PollCounts`). The chain that
`_supersede_failed_job_sync` walks is `Walk`, the smallest set its loop visits. The
exception that `RetriesAreSafe` names is in the theorem too.

**Model-checked only.**

- Liveness is beyond the provers: `AckedIsFinished`, `OpensEnd`, `ClaimsEnd`,
  `EveryWaitEnds`, `RaceEnds`, and the fairness in `SharesOneFlight`.
- `BudgetHolds` of `MediaLeases` compares a counter with a sum over a set of
  downloads; facts about such sums go by induction over the set, which the installed
  provers cannot do. Its part `ReservedBytesFit` is besides a matter of the bounds.
- `LaunchesGoOn` of `resources` is about `ENABLED` steps.
- `TransportIsSafe`, `RoutesAreSafe`, `ButtonsAreSafe`, `StoriesAreSafe` of
  `components`, and `RacesAreFair`, `ArtifactsAreRight` of `resources` have no proofs.
  `ArtifactsAreRight` is mostly about the data of finitely many cases, which a run
  covers; of the others `Race!ProbesAreOwned` would be the next.

## 6. Findings

1. `inbox_late_receipt`: a heartbeat renewal fails, and the handler is cancelled while
   `finalize` of a `failed` outcome runs in its thread; the thread goes on. The worker
   checkpoints the job, releases its lease, takes it again and runs the job a second
   time. That run finds the item's row `uncertain`, does not send it again and returns;
   `has_failed_deliveries` is false. Before `complete`, the first run's thread commits
   `failed`, under the same owner. The job is `completed` with a failed item, and the
   startup policy, which looks at failed jobs only, never retries it. The thread has to
   outlive the restart delay and the second run, as it may when it waits for the write
   lock. A drain does not lead there: a cancellation that the handler swallowed never
   reaches `has_failed_deliveries`.
2. `queue_lost_slot`: the withdrawal after a timeout is not shielded. Cancelled while
   it waits for the lock, a caller stays in the list and is granted a slot that
   nobody returns. `WaitersAreServed` shows that this is the only way.
3. `stories_paused`: the rotation index of the session pool is shared and moves on
   while a call awaits the limiter. Of two overlapping calls one may meet a session
   twice and another never, and report that all sessions are paused. Without Redis a
   search is atomic and finds the token (`StoriesAreSafe`).
4. `artifacts_animation`: the codec check expects the sound that the command for an
   animation removes, so an animation of a file with a sound is always refused.
   Requests for animations come from the GIF format only; the GIF buttons use the
   converter.

Not findings, but worth knowing; the properties say that nothing else of the kind
happens:

- `open` skips `_finish` when its task is cancelled once more during the teardown in
  its `finally`. Both slots stay taken until the owner is cancelled
  (`SupervisorIsSafe`).
- The lock files exclude a download and a janitor, not two janitors: of two that see
  the same stale lock the slower one removes the lock of the faster. Files in use stay
  all the same, as both test the lease first, and a download that meets a janitor's
  lock gives up instead of waiting (`FilesStay`).
- A file that publication refuses, because its flight was cancelled while publishing
  and a new one overtook it, is left to the janitor (`MediaIsShared`).
- In polling mode a request whose cached items were partly sent and whose files then
  could not be opened is offered for a whole repetition (`RetriesAreSafe` has this one
  exception; `can_retry_error` cannot see the partial send).
- The lanes of a public YouTube request refresh inside their own routes. After a failed
  transfer in the direct lane, or in a lane of one proxy, the only route is cooled and
  the refresh has none to ask, though `docs/deployment.md` (282) promises the next
  available route. The other lane goes on (`MediaRoutes!Start`, `LanesAreKept`).
- A slideshow conversion that ffmpeg ends with an error status, or with an empty file,
  leaves its `slideshow_<uuid>.mp4`: the converter returns `None`, and the pipeline
  raises before the `finally` that unlinks. The janitor takes `slideshow_*` only if it
  is a directory, so that even its purge of "ALL bot-created files" (`janitor.py` 84)
  passes the file by (`NothingIsLeft` names it).
- A connection or an ffmpeg that resists its clean-up outlives the call in a detached
  task; nothing bounds how many (`TransportIsSafe` speaks of what the call owns).
- A check of the rate limiter that Redis does not answer passes without a token
  (`LimitsHold` counts these apart).
- A shutdown that is itself cancelled never gives up the ownership of the runtime; the
  process has to be restarted (`ServiceIsSafe` holds, and `Waits` excludes it).
- A route that times out only because the deadline of the call was near is cooled like
  a broken one (`proxies.py` 144–146 clip its budget; to the model both are a timeout of
  the route), and sources of a refresh that fail are reported to nobody; the verdict
  "no media" of a gallery is forgotten when a later route
  fails otherwise (`RoutesAreSafe`).
- `request_json` calls a refusal AUTH when the first request carried credentials, also
  when a redirect has dropped them on the way, and SSSTik's anonymous session cookie
  counts as credentials: such a 403 switches the provider off until its configuration
  changes. When all of Cobalt's endpoints fail, the last failure counts, and may hide
  one that could be retried (`RacesAreFair` claims neither).
- In Redis a reader that finds an unreadable record deletes the key, and with it a good
  record that replaced it meanwhile; that costs a lookup (`CacheIsSafe`).
- Clips that are to end after the medium does, and clips of tweets without sound, are
  made and then refused (`ArtifactsAreRight` names both).
- An update whose handler loses its lease or is cancelled each time is put back at its
  old place in the queue for ever; no counter ends it. `AckedIsFinished` is about
  finitely many faults.

## 7. Not modelled

Formatting, keyboards, texts, logging and metrics carry no protocol state. URL
parsing and what the providers' parsers read out of a page are data transformations
of external formats: the models choose among their outcomes. Configuration is constants.

Inside modelled components these parts are left out: the Windows branches of the
process supervisor (another kill primitive); slideshow directories, disk alerts and
maintenance mode of the janitor; authentication and the IP limit of the HTTP
endpoints, which guard the modelled actions and change no modelled state, and the
older streaming of a subprocess (`routes.py` 355–457); the polling mode of the lifespan
and handlers that run while the ingress is being started (`main.py` 465–478); a second
cancellation inside the shielded teardown of a launch that failed (`process.py`
510–530); group links and commands,
whose deliveries are again the handler of `DurableInbox`; the choice of a format and
the cancel button; single Instagram posts.

Some code runs only without a media pipeline, which `main.py` always binds before it
lets updates in: `_complete_message_parse` and `_handle_twitter` in `bot/messages.py`,
the orchestrator after line 381, the slideshow code of `bot/callbacks.py` after line
716, and with them splitting and compression of long videos. It is left out.

Some behaviours are assumed away: a detached ffmpeg that writes its partial file again
after it was unlinked; a provider that swallows its cancellation and so holds the race
that joins it; a send that raises an exception of no known kind although Telegram took
it (`delivery.py` 341 and 410 call it failed); a crash inside a migration's transaction,
which SQLite rolls back.

Release and maintenance scripts run by hand or in CI against a copy of the system and
share no state with it.

## 8. Plan

1. Done: the store and its proofs, the worker and delivery around it, queue, flight,
   shared media, races, web providers, routes, transport, artifacts, caches, retries, buttons,
   stories, downloads by link, supervisor, leases and janitor, limits, schema,
   lifespan.
2. Done: proofs of the store, the composed inbox with its refinement, single flight,
   queue, shared media, retry buttons, leases, lifespan, downloads by link, file ids,
   limits, schema, the cache with its leases, and the supervisor's slots.
3. A proof of `ProviderRace!ProbesAreOwned`.
4. `MediaLeases`: what a dead process left behind is removed in the end, on an
   instance small enough for liveness.
