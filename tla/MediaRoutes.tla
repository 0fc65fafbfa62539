---------------------------- MODULE MediaRoutes ----------------------------
(***************************************************************************)
(* Extraction and download over the proxy routes: MediaProxyPool           *)
(* (app/services/media/proxies.py) as the yt-dlp and gallery-dl providers  *)
(* (providers/ytdlp.py, providers/gallerydl.py) and the transport          *)
(* (transport.py) use it, with the choice of the formats a yt-dlp answer   *)
(* offers.  One platform is modelled: the pool keeps the health of each    *)
(* platform apart.                                                         *)
(*                                                                         *)
(* `cooling` holds the routes whose _failed_until lies ahead, the first to *)
(* recover first: the cooldown is one constant, so that is the order in    *)
(* which they failed.  A call walks the routes it read when it began, then *)
(* downloads by the route that answered, and may refresh once.             *)
(***************************************************************************)
EXTENDS Integers, Sequences, FiniteSets, SequencesExt

CONSTANTS
  Calls,        \* extractions in flight at the same time
  Proxies       \* the keys of MEDIA_PROXY_URLS, in their order

VARIABLES
  platform,     \* "youtube", "proxied" (another one of the pool), "outside"
  cooling,      \* routes that failed, the first to recover first
  ill,          \* history: routes that failed since they last worked or rested
  calls         \* one record for each call

vars == <<platform, cooling, ill, calls>>

Direct == "direct"
Keys == ToSet(Proxies)
All == Keys \cup {Direct}

\* `lane` the routes it is confined to, `todo` those to ask, `asked` how many
\* of the `routes` read at the start failed, `last` what the last of them said
\* of the media itself, `again` that the one refresh was used; `route` gave the
\* answer and `fresh` the one of the refresh.
Idle == [stage |-> "idle", by |-> "none", public |-> TRUE, lane |-> {},
         todo |-> <<>>, routes |-> 0, asked |-> 0, last |-> "none",
         again |-> FALSE, route |-> "none", fresh |-> "none", late |-> FALSE]

Init ==
  /\ platform \in {"youtube", "proxied", "outside"}
  /\ cooling = <<>>
  /\ ill = {}
  /\ calls = [c \in Calls |-> Idle]

(***************************************************************************)
(* The pool.                                                               *)
(***************************************************************************)

Configured == platform # "outside"

Cooled(r) == \E i \in DOMAIN cooling : cooling[i] = r

\* YouTube asks its proxies first, every other platform its own address.
Order == IF platform = "youtube" THEN Proxies \o <<Direct>> ELSE <<Direct>> \o Proxies

Routes(lane) ==
  LET healthy == SelectSeq(Order, LAMBDA r : ~Cooled(r))
      root == IF ~Configured THEN <<Direct>>
              ELSE IF healthy # <<>> THEN healthy ELSE <<Head(cooling)>>
  IN  SelectSeq(root, LAMBDA r : r \in lane)

\* A public YouTube request is raced over two lanes of the one pool, unless
\* it only asks for metadata or comes with its candidates.
Lanes(public) ==
  IF platform = "youtube" /\ public THEN {All, {Direct}, Keys} ELSE {All}

Without(r) == SelectSeq(cooling, LAMBDA k : k # r)

\* pool.succeeded and pool.failed: the last report about a route decides.
Succeeded(r) ==
  /\ cooling' = Without(r)
  /\ ill' = ill \ {r}

Failed(r) ==
  /\ cooling' = IF Configured THEN Append(Without(r), r) ELSE cooling
  /\ ill' = ill \cup {r}

\* Route budgets in seconds, and the time the race gives to a resolution.
AttemptTimeout == 20
DirectTimeout == 3

RouteTimeout(r) ==
  IF r # Direct \/ platform = "youtube" THEN AttemptTimeout ELSE DirectTimeout

ExtractionTimeout ==
  (IF platform = "youtube" THEN AttemptTimeout ELSE DirectTimeout)
    + Len(Proxies) * AttemptTimeout + 1

(***************************************************************************)
(* What one route can answer.  A refusal of access counts as transient for *)
(* YouTube; an empty gallery says nothing about the health of its route.   *)
(***************************************************************************)

Failure(cause, kind) == [cause |-> cause, kind |-> kind]

Failures(by) ==
  {Failure("failed", "transient")}
    \cup (IF by = "ytdlp"
          THEN {Failure("denied", IF platform = "youtube" THEN "transient" ELSE "auth"),
                Failure("gone", "permanent")}
          ELSE {Failure("no media", "transient"), Failure("broken", "internal")})
    \cup (IF Configured THEN {Failure("timeout", "transient")} ELSE {})

\* Fault: an empty gallery cools the route for everybody.
AffectsHealthAlways(f) == f.cause # "none"

AffectsHealth(f) == f.cause # "no media"

\* What tells that a route itself does not work, and what says nothing of it.
Symptoms == {"failed", "denied", "timeout"}

\* How an extraction ends: of a failed one stays what it tried, of a refresh
\* the answer it was to renew.
End(c, outcome) ==
  LET by == IF calls[c].again THEN "none" ELSE calls[c].by IN
  [calls EXCEPT ![c] =
     CASE outcome \in {"transient", "auth", "permanent"} ->
            [@ EXCEPT !.stage = outcome, !.todo = <<>>, !.by = "none",
                      !.lane = IF calls[c].again THEN @ ELSE {}]
       [] outcome = "found" \/ (@.again /\ outcome # "cancelled") ->
            [@ EXCEPT !.stage = outcome, !.todo = <<>>, !.routes = 0, !.asked = 0,
                      !.last = "none", !.late = FALSE, !.by = by]
       [] OTHER -> [Idle EXCEPT !.stage = outcome]]

\* How a call ends on its last failure: an unconfigured platform passes it on
\* as it is, a gallery without media is permanent for its provider.
Verdict(c, f) ==
  CASE f.cause = "no media" -> "permanent"
    [] Configured /\ calls[c].public /\ f.kind = "auth" -> "transient"
    [] OTHER -> f.kind

(***************************************************************************)
(* A call.                                                                 *)
(***************************************************************************)

\* The routes are read once, and the deadline is looked at before each.  A
\* refresh in a lane without a route does not find its variant again.
Start(c, by, public, lane, again) ==
  LET snapshot == Routes(lane) IN
  \E late \in BOOLEAN :
    /\ late => Configured /\ snapshot # <<>>
    /\ calls' = [calls EXCEPT ![c] =
         [@ EXCEPT !.by = by, !.public = public, !.lane = lane, !.again = again,
                   !.routes = Len(snapshot), !.asked = 0, !.last = "none",
                   !.todo = IF late THEN <<>> ELSE snapshot,
                   !.late = late,
                   !.stage = IF snapshot = <<>>
                             THEN IF again THEN "permanent" ELSE "empty"
                             ELSE IF late THEN "transient" ELSE "asking"]]

Ask(c) ==
  /\ calls[c].stage = "idle"
  /\ \/ \E public \in BOOLEAN : \E lane \in Lanes(public) :
          Start(c, "ytdlp", public, lane, FALSE)
     \/ platform # "youtube" /\ Start(c, "gallery", TRUE, All, FALSE)
  /\ UNCHANGED <<platform, cooling, ill>>

Asking(c) == calls[c].stage = "asking"

\* The route answers.  What it offers may be nothing the request wants; a
\* refresh wants the one variant it had.
Found(c) ==
  /\ Asking(c)
  /\ LET r == Head(calls[c].todo) IN
     /\ Succeeded(r)
     /\ \/ calls' = [End(c, "found") EXCEPT
             ![c].route = IF calls[c].again THEN @ ELSE r,
             ![c].fresh = IF calls[c].again THEN r ELSE "none"]
        \/ calls' = End(c, IF calls[c].again THEN "permanent" ELSE "empty")
  /\ UNCHANGED platform

\* The route fails.  An access or a transient failure goes to the next route,
\* unless the deadline has passed; any other one ends the call.
Fails(c) ==
  /\ Asking(c)
  /\ \E f \in Failures(calls[c].by), late \in BOOLEAN :
       LET r == Head(calls[c].todo)
           rest == Tail(calls[c].todo)
           moves == Configured /\ f.kind \in {"auth", "transient"}
           after == IF moves /\ rest # <<>> /\ ~late
                    THEN [calls EXCEPT ![c].todo = rest]
                    ELSE End(c, IF late THEN "transient" ELSE Verdict(c, f))
       IN
       /\ cooling' = IF moves /\ AffectsHealth(f) THEN Append(Without(r), r) ELSE cooling
       /\ ill' = IF f.cause \in Symptoms THEN ill \cup {r} ELSE ill
       /\ late => moves /\ rest # <<>>
       /\ calls' = [after EXCEPT ![c] =
            [@ EXCEPT !.asked = @ + 1, !.late = late,
                      !.last = IF f.cause \in Symptoms THEN "none" ELSE f.cause]]
  /\ UNCHANGED platform

\* The race cancels a call that lost, and a refresh ends with its deadline: a
\* timeout that gallery-dl's refresh passes on as it is.
Interrupted(c) ==
  /\ Asking(c)
  /\ \/ calls' = End(c, "cancelled")
     \/ /\ calls[c].again
        /\ calls' = [End(c, IF calls[c].by = "ytdlp" THEN "transient" ELSE "timeout")
                       EXCEPT ![c].late = TRUE]
  /\ UNCHANGED <<platform, cooling, ill>>

\* The file is downloaded by the route of its source, and complete.
Downloaded(c) ==
  /\ calls[c].stage = "found"
  /\ Succeeded(IF calls[c].fresh # "none" THEN calls[c].fresh ELSE calls[c].route)
  /\ calls' = [calls EXCEPT ![c] = [Idle EXCEPT !.stage = "done"]]
  /\ UNCHANGED platform

\* The transfer fails or expires.  It cools the route of the answer, and its
\* provider is asked once for fresh sources; those are not reported.  Then
\* comes another candidate of the answer, if there is one.
DownloadFails(c) ==
  /\ calls[c].stage = "found"
  /\ IF calls[c].fresh = "none" THEN Failed(calls[c].route)
                                ELSE UNCHANGED <<cooling, ill>>
  /\ \/ /\ ~calls[c].again
        /\ calls' = [calls EXCEPT ![c].stage = "refreshing"]
     \/ calls' = [calls EXCEPT ![c].fresh = "none"]
     \/ calls' = [calls EXCEPT ![c] = [Idle EXCEPT !.stage = "lost"]]
  /\ UNCHANGED platform

\* The refresh asks the provider that answered: a racing lane's own one, which
\* keeps to its routes, else the one over the whole pool.
Refresh(c) ==
  /\ calls[c].stage = "refreshing"
  /\ Start(c, calls[c].by, calls[c].public, calls[c].lane, TRUE)
  /\ UNCHANGED <<platform, cooling, ill>>

\* A file that is refused for another reason (its size, its contents), and a
\* refresh that ended without sources, leave the rest of the answer.
NextCandidate(c) ==
  /\ \/ calls[c].stage = "found"
     \/ /\ calls[c].again
        /\ calls[c].stage \notin {"found", "asking"}
  /\ calls' = [calls EXCEPT ![c] =
       [@ EXCEPT !.stage = "found", !.fresh = "none", !.routes = 0, !.asked = 0,
                 !.last = "none", !.late = FALSE,
                 !.public = @ \/ calls[c].again]]
  /\ UNCHANGED <<platform, cooling, ill>>

Recovers ==
  /\ cooling # <<>>
  /\ cooling' = Tail(cooling)
  /\ ill' = ill \ {Head(cooling)}
  /\ UNCHANGED <<platform, calls>>

CallStep(c) == Found(c) \/ Fails(c) \/ Refresh(c)

Next ==
  \/ Recovers
  \/ \E c \in Calls :
       \/ Ask(c) \/ CallStep(c) \/ Interrupted(c)
       \/ Downloaded(c) \/ DownloadFails(c) \/ NextCandidate(c)

\* An attempt ends: every one of them runs under a timeout.
Fairness == \A c \in Calls : WF_vars(CallStep(c))

Spec == Init /\ [][Next]_vars /\ Fairness

(***************************************************************************)
(* What a yt-dlp answer offers: _candidates and _candidate_sort_key.  A    *)
(* format has a short edge (0: unknown), pictures, and sound that is       *)
(* "none", the "original" or a "dub".                                      *)
(***************************************************************************)

Edges == {0, 360, 720, 900, 1080, 2160}
Formats == [edge : Edges, sound : {"none", "original", "dub"}, mp4 : BOOLEAN]
           \cup [edge : {-1}, sound : {"original", "dub"}, mp4 : {TRUE}]

Pictures(f) == f.edge >= 0

\* Where the original is marked, no other sound is used.
Sounds(formats) ==
  LET audible == {f \in formats : f.sound # "none"}
      original == {f \in audible : f.sound = "original"}
  IN  IF original # {} THEN original ELSE audible

\* One format with sound, or pictures and a sound of their own to be muxed.
Candidates(formats) ==
  LET sounds == Sounds(formats)
      videos == {f \in formats : Pictures(f)}
  IN  {<<f>> : f \in videos \cap sounds}
        \cup {<<f, s>> : f \in {g \in videos : g.sound = "none"},
                         s \in {g \in sounds : ~Pictures(g)}}

Edge(candidate) == candidate[1].edge
Bit(b) == IF b THEN 1 ELSE 0

ShortKey(c) ==
  LET e == Edge(c) IN
  <<CASE e = 720 -> 4 [] e = 1080 -> 3 [] 720 < e /\ e < 1080 -> 2
      [] e > 1080 -> 1 [] OTHER -> 0,
    IF e <= 1080 THEN e ELSE -e, Bit(c[1].mp4), Bit(Len(c) = 1)>>

CommandKey(c) ==
  LET e == Edge(c) IN
  <<IF 0 < e /\ e <= 1080 THEN 2 ELSE Bit(e > 1080),
    IF e > 1080 THEN -e ELSE e, Bit(c[1].mp4), Bit(Len(c) = 1)>>

SortKey(variant, c) == IF variant = "short" THEN ShortKey(c) ELSE CommandKey(c)

Above(k, l) ==
  \E i \in DOMAIN k : k[i] > l[i] /\ \A j \in 1 .. i - 1 : k[j] = l[j]

\* The candidates the race may take first.
Best(variant, candidates) ==
  {c \in candidates : ~\E d \in candidates :
                        Above(SortKey(variant, d), SortKey(variant, c))}

(***************************************************************************)
(* Properties.                                                             *)
(***************************************************************************)

TypeOK ==
  /\ IsInjective(cooling) /\ ToSet(cooling) \subseteq All
  /\ ~Configured => cooling = <<>>
  /\ \A c \in Calls :
       /\ calls[c].stage \in {"idle", "asking", "found", "empty", "transient", "auth",
                              "permanent", "internal", "cancelled", "timeout",
                              "refreshing", "done", "lost"}
       /\ calls[c].lane \in {{}, {Direct}, Keys, All}
       /\ calls[c].stage = "asking" <=> calls[c].todo # <<>>

\* However many routes failed, the pool still has one to ask, and exactly one
\* when all have: of the two lanes of a YouTube request one can always be asked.
OneProbeAtLeast ==
  /\ Len(Routes(All)) >= 1
  /\ ToSet(cooling) = All => Len(Routes(All)) = 1
  /\ platform = "youtube" => Routes({Direct}) # <<>> \/ Routes(Keys) # <<>>

\* A route of the pool cools exactly while the last report that tells of its
\* health, by whichever call and however old that call is, was a failure of its
\* own.  An album without media, a video that is gone, a refused file or a
\* cancelled call does not take it from the others, nor does it bring it back;
\* that refreshed sources failed as well is told to nobody.
CoolingIsEarned == Configured => ToSet(cooling) = ill

\* No call leaves its lane: what it asks and downloads by is in it.
LanesAreKept ==
  \A c \in Calls :
    ToSet(calls[c].todo) \cup ({calls[c].route, calls[c].fresh} \ {"none"})
      \subseteq calls[c].lane

\* A call that gave up in time has tried each of the routes it read, once,
\* however the health of the pool moved meanwhile; and it read some.
TriedThemAll ==
  \A c \in Calls :
    calls[c].stage \in {"transient", "auth"} /\ ~calls[c].late =>
      calls[c].asked = calls[c].routes /\ calls[c].routes > 0

\* "Permanent" is final for the user: some route said so of this
\* video, or the last one found no media, or the variant is no longer offered.
PermanentIsFounded ==
  \A c \in Calls : calls[c].stage = "permanent" =>
    calls[c].again \/ calls[c].last \in {"gone", "no media"}

\* A public request is never told that the routes of the pool need a login.
PublicNeedsNoLogin ==
  \A c \in Calls : Configured /\ calls[c].public => calls[c].stage # "auth"

\* The race waits for a resolution as long as all its routes may take.
RaceOutlastsRoutes ==
  FoldSeq(LAMBDA r, sum : RouteTimeout(r) + sum, 0, Order) < ExtractionTimeout

\* For any two or three formats: a link without a chosen quality gets 720, then
\* 1080, then what lies between, before anything larger or smaller; a command
\* the largest up to 1080 and the smallest beyond; and a dub only where there
\* is no original.
ChoiceIsRight ==
  \A formats \in {{f, g, h} : f, g, h \in Formats} :
    LET all == Candidates(formats)
        edges == {Edge(c) : c \in all}
        short == {Edge(c) : c \in Best("short", all)}
        command == {Edge(c) : c \in Best("command", all)}
        fits == {e \in edges : 0 < e /\ e <= 1080}
    IN
    /\ all # {} => Cardinality(short) = 1 /\ Cardinality(command) = 1
    /\ 720 \in edges => short = {720}
    /\ 1080 \in edges \ {720} /\ 720 \notin edges => short = {1080}
    /\ (\E e \in edges : e >= 720) => \A e \in short : e >= 720
    /\ (\E e \in edges : e \in 720 .. 1080) => \A e \in short : e <= 1080
    /\ fits # {} => \A e \in command : e \in fits /\ \A d \in fits : d <= e
    /\ fits = {} => \A e \in command : e # 0 \/ edges = {0}
    /\ \A c \in all : Last(c).sound = "dub" => ~\E f \in formats : f.sound = "original"

\* Extraction keeps every one of these promises; the choice of formats, which
\* depends on no state, is looked at before the first call.
RoutesAreSafe ==
  /\ TypeOK
  /\ OneProbeAtLeast
  /\ CoolingIsEarned
  /\ LanesAreKept
  /\ TriedThemAll
  /\ PermanentIsFounded
  /\ PublicNeedsNoLogin
  /\ RaceOutlastsRoutes
  /\ (\A c \in Calls : calls[c] = Idle) => ChoiceIsRight

\* The extraction has not ended, whatever its routes do.
Waits(c) == calls[c].stage \in {"asking", "refreshing"}

=============================================================================
