--------------------------- MODULE MCComponents ---------------------------
(***************************************************************************)
(* Components that share no state, model-checked by one run: `part` names  *)
(* the one that runs, and x1, x2, ... are its variables, in the order of   *)
(* its module.  Steps, invariants and fairness are those of the modules.   *)
(***************************************************************************)
EXTENDS Integers, Sequences

CONSTANTS NoFlight, Unheld

VARIABLES part, x1, x2, x3, x4, x5, x6, x7, x8, x9, x10, x11, x12, x13, x14, x15

vars == <<part, x1, x2, x3, x4, x5, x6, x7, x8, x9, x10, x11, x12, x13, x14, x15>>

Flight ==
  INSTANCE SingleFlight WITH
    Callers <- {1, 2, 3}, Flights <- {1, 2, 3}, None <- NoFlight, current <- x1, task <- x2,
    subs <- x3, at <- x4, mine <- x5

Queue ==
  INSTANCE DownloadQueue WITH
    Tasks <- {1, 2, 3, 4}, Slots <- 1, MaxQueue <- 2, Free <- Unheld, sem <- x1,
    waiters <- x2, waiter <- x3, at <- x4, lock <- x5, lockq <- x6

Transfer ==
  INSTANCE Transport WITH
    N <- 3, MaxRedirects <- 1, Ranges <- 2, tagged <- x1, version <- x2,
    mode <- x3, rest <- x4, racing <- x5, winner <- x6, late <- x7,
    stop <- x8, asked <- x9, refreshAttempted <- x10, at <- x11, held <- x12,
    detached <- x13, hop <- x14, body <- x15

Routes ==
  INSTANCE MediaRoutes WITH
    Calls <- {1, 2}, Proxies <- <<"p">>, platform <- x1, cooling <- x2,
    ill <- x3, calls <- x4

Ids ==
  INSTANCE FileIds WITH
    Requests <- {1, 2}, Items <- {1, 2}, Album <- {1, 2}, MaxIds <- 2,
    MaxAges <- 1, MaxFaults <- 1, req <- x1, cache <- x2, metadata <- x3,
    ids <- x4, dead <- x5, faults <- x6, ages <- x7

Gif ==
  INSTANCE GifExport WITH
    Presses <- {1, 2}, Permits <- 1, MaxCrashes <- 1, MaxFaults <- 1,
    durable <- x1, kind <- x2, claims <- x3, permits <- x4, source <- x5,
    docId <- x6, disk <- x7, kept <- x8, row <- x9, run <- x10, sent <- x11,
    crashes <- x12, faults <- x13

Slides ==
  INSTANCE Slideshow WITH
    Presses <- {1, 2}, Slots <- 2, Permits <- 1, MaxFaults <- 1, mode <- x1,
    slots <- x2, permits <- x3, open <- x4, disk <- x5, stray <- x6, row <- x7,
    run <- x8, sent <- x9, faults <- x10

Stories ==
  INSTANCE InstagramStories WITH
    Calls <- {1, 2}, PoolSize <- 2, Tokens <- 1, Reels <- {"r"},
    MaxStarts <- 3, redis <- x1, index <- x2, tokens <- x3, dead <- x4,
    suspended <- x5, stored <- x6, lost <- x7, menu <- x8, shown <- x9,
    run <- x10, starts <- x11

Life ==
  INSTANCE Lifespan WITH
    Lives <- {"a", "b"}, Asks <- {1, 2}, MaxFaults <- 2, MaxAsks <- 2,
    owner <- x1, life <- x2, bound <- x3, handler <- x4, closed <- x5,
    probe <- x6, flying <- x7, ask <- x8, faults <- x9, asks <- x10

Http ==
  INSTANCE HttpDownload WITH
    Reqs <- {1, 2}, Chunks <- 2, MaxFaults <- 3, req <- x1, users <- x2,
    file <- x3, faults <- x4

ASSUME ComponentsAssumption ==
  /\ Flight!FlightAssumption /\ Queue!QueueAssumption /\ Ids!IdsAssumption
  /\ Life!LifeAssumption /\ Http!HttpAssumption

-----------------------------------------------------------------------------

\* The variables a part does not have.
Unused14 == x14 = "unused" /\ x15 = "unused"
Unused12 == x12 = "unused" /\ x13 = "unused" /\ Unused14
Unused11 == x11 = "unused" /\ Unused12
Unused8 == x8 = "unused" /\ x9 = "unused" /\ x10 = "unused" /\ Unused11
Unused7 == x7 = "unused" /\ Unused8
Unused6 == x6 = "unused" /\ Unused7
Unused5 == x5 = "unused" /\ Unused6

Kept14 == UNCHANGED <<part, x14, x15>>
Kept12 == UNCHANGED <<part, x12, x13, x14, x15>>
Kept11 == UNCHANGED <<part, x11, x12, x13, x14, x15>>
Kept8 == UNCHANGED <<part, x8, x9, x10, x11, x12, x13, x14, x15>>
Kept7 == UNCHANGED <<part, x7, x8, x9, x10, x11, x12, x13, x14, x15>>
Kept6 == UNCHANGED <<part, x6, x7, x8, x9, x10, x11, x12, x13, x14, x15>>
Kept5 == UNCHANGED <<part, x5, x6, x7, x8, x9, x10, x11, x12, x13, x14, x15>>
Kept16 == UNCHANGED part

Init ==
  \/ part = "flight" /\ Flight!Init /\ Unused6
  \/ part = "queue" /\ Queue!Init /\ Unused7
  \/ part = "transport" /\ Transfer!Init
  \/ part = "routes" /\ Routes!Init /\ Unused5
  \/ part = "ids" /\ Ids!Init /\ Unused8
  \/ part = "gif" /\ Gif!Init /\ Unused14
  \/ part = "slides" /\ Slides!Init /\ Unused11
  \/ part = "stories" /\ Stories!Init /\ Unused12
  \/ part = "lifespan" /\ Life!Init /\ Unused11
  \/ part = "http" /\ Http!Init /\ Unused5

Next ==
  \/ part = "flight" /\ Flight!Next /\ Kept6
  \/ part = "queue" /\ Queue!Next /\ Kept7
  \/ part = "transport" /\ Transfer!Next /\ Kept16
  \/ part = "routes" /\ Routes!Next /\ Kept5
  \/ part = "ids" /\ Ids!Next /\ Kept8
  \/ part = "gif" /\ Gif!Next /\ Kept14
  \/ part = "slides" /\ Slides!Next /\ Kept11
  \/ part = "stories" /\ Stories!Next /\ Kept12
  \/ part = "lifespan" /\ Life!Next /\ Kept11
  \/ part = "http" /\ Http!Next /\ Kept5

\* The steps each part must take when it can, those of its clients, failures
\* and cancellations left out: of the i-th caller, press, candidate or life,
\* and under 0 those of nobody in particular.
Serve(i) ==
  \/ part = "flight" /\ i \in 1 .. 3 /\ Flight!CallerStep(i) /\ Kept6
  \/ part = "flight" /\ i \in 1 .. 3 /\ Flight!FactoryEnds(i) /\ Kept6
  \/ part = "queue" /\ i = 0 /\ Queue!LockGranted /\ Kept7
  \/ part = "queue" /\ i > 0 /\ Queue!CallerGoesOn(i) /\ Kept7
  \/ part = "transport" /\ i = 0 /\ Transfer!CallStep /\ Kept16
  \/ part = "transport" /\ i \in 1 .. 3 /\ Transfer!AttemptStep(i) /\ Kept16
  \/ part = "routes" /\ i \in 1 .. 2 /\ Routes!CallStep(i) /\ Kept5
  \/ part = "ids" /\ i \in 1 .. 2 /\ Ids!Step(i) /\ Kept8
  \/ part = "gif" /\ i \in 1 .. 2 /\ Gif!Step(i) /\ Kept14
  \/ part = "slides" /\ i \in 1 .. 2 /\ Slides!Step(i) /\ Kept11
  \/ part = "stories" /\ i \in 1 .. 2 /\ Stories!Step(i) /\ Kept12
  \/ part = "lifespan" /\ i = 0 /\ Life!ProbeStep /\ Kept11
  \/ part = "lifespan" /\ i \in 1 .. 2 /\ Life!LifeStep(<<"a", "b">>[i]) /\ Kept11
  \/ part = "http" /\ i \in 1 .. 2 /\ Http!ServerStep(i) /\ Kept5

\* The event loop goes on while somebody can; no more is assumed.
Spec == Init /\ [][Next]_vars /\ WF_vars(\E i \in 0 .. 4 : Serve(i))

-----------------------------------------------------------------------------
(* Properties. *)

(* Concurrent requests for one key share one task and no fate: the count of    *)
(* subscribers is exact, the cancellation of one never reaches another, and no *)
(* task runs for nobody.  Download slots are lost in one way only (a           *)
(* cancellation in the withdrawal after a timeout), never too many in use,     *)
(* never idle while someone queues (singleflight.py, download_queue.py).       *)
WaitersAreServed ==
  /\ part = "flight" => Flight!FlightIsShared
  /\ part = "queue" => Queue!SlotsAreKept

(* A materialization leaves the item it returns and nothing else but detached  *)
(* clean-up of failed tries that outlasted its timeout; it refreshes once,     *)
(* races small candidates only, keeps credentials at their origin and never    *)
(* joins ranges of two versions (transport.py).                                *)
TransportIsSafe == part = "transport" => Transfer!TransportIsSafe

(* An extraction finds a route while its pool has one, keeps to its lane, gives *)
(* up after all of its routes and chooses the right format; extractions and    *)
(* transfers cool routes for their own failures only (proxies.py, ytdlp.py,    *)
(* gallerydl.py, transport.py).                                                *)
RoutesAreSafe == part = "routes" => Routes!RoutesAreSafe

(* A cached, stale or lost Telegram file id never makes an item appear twice,  *)
(* and every receipt says what was shown (delivery.py, media_cache.py).        *)
FileIdsAreSafe == part = "ids" => Ids!FileIdsAreSafe

(* One GIF export for each source and button and one slideshow for each press, *)
(* no file lost that is in use, no stray file except a video whose conversion  *)
(* failed or whose process died, no lost conversion place, a status deleted    *)
(* only after the copy is sent, through failures, cancellations and crashes    *)
(* (callbacks.py).                                                             *)
ButtonsAreSafe ==
  /\ part = "gif" => Gif!GifExportIsSafe
  /\ part = "slides" => Slides!SlideshowIsSafe

(* Instagram menus can be answered, every handler says how it ended, and only  *)
(* the session that got the death signal leaves the rotation, however handlers *)
(* overlap (instagram.py, group_logic.py).                                     *)
StoriesAreSafe == part = "stories" => Stories!StoriesAreSafe

(* Two runtimes of the process never overlap, no resource is closed twice or   *)
(* under a running handler, and readiness answers are of the bot they name; a  *)
(* download by link releases its lease exactly once, and its threads read the  *)
(* file only while they hold it, wherever the client leaves (main.py,          *)
(* routes.py).                                                                 *)
ServiceIsSafe ==
  /\ part = "lifespan" => Life!LifespanIsSafe
  /\ part = "http" => Http!DownloadsAreSafe

\* The i-th caller, press, call, source or life still waits for its end.
Waits(i) ==
  CASE part = "flight" -> i <= 3 /\ Flight!Waits(i)
    [] part = "queue" -> Queue!Waits(i)
    [] part = "transport" -> Transfer!Waits(i)
    [] part = "gif" -> i <= 2 /\ Gif!Waits(<<"gif", "file">>[i])
    [] part = "lifespan" -> i <= 2 /\ Life!Waits(<<"a", "b">>[i])
    [] part = "routes" -> i <= 2 /\ Routes!Waits(i)
    [] part = "ids" -> i <= 2 /\ Ids!Waits(i)
    [] part = "slides" -> i <= 2 /\ Slides!Waits(i)
    [] part = "stories" -> i <= 2 /\ Stories!Waits(i)
    [] part = "http" -> i <= 2 /\ Http!Waits(i)

SomebodyWaits == \E i \in 1 .. 4 : Waits(i)

(* Nobody waits for ever: every shared flight, queued download, transfer,      *)
(* extraction, delivery, export, slideshow, story and shutdown ends, whatever  *)
(* fails or is cancelled, and an abandoned download by link lets go.           *)
EveryWaitEnds == SomebodyWaits ~> ~SomebodyWaits

=============================================================================
