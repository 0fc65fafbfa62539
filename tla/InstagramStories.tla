-------------------------- MODULE InstagramStories --------------------------
(***************************************************************************)
(* Instagram stories and highlights: the rotation of authorized sessions   *)
(* (InstagramService), the selection menu a profile link opens, and the    *)
(* callbacks behind its buttons. A call is one handler run; the calls      *)
(* share the rotation index, the sessions' token buckets, the link cache   *)
(* and one menu message. With Redis every bucket is asked over the         *)
(* network, and other calls run in between; in memory a scan is atomic.    *)
(***************************************************************************)
EXTENDS Integers, FiniteSets, FiniteSetsExt

CONSTANTS
    Calls,      \* handlers that may run at the same time
    PoolSize,   \* sessions of the rotation pool
    Tokens,     \* capacity of a session's bucket
    Reels,      \* highlights of the profile
    MaxStarts   \* bound: links and button presses

VARIABLES
    redis,      \* the deployment has Redis
    index,      \* _current_pool_index
    tokens,     \* tokens in each session's bucket when it was last asked
    dead,       \* _dead_sessions
    suspended,  \* history: sessions that were answered with a death signal
    stored,     \* entries of the link cache: "menu" and the highlights
    lost,       \* entries that expired, or that Redis failed to write
    menu,       \* what the profile has: stories, highlights
    shown,      \* what the menu message shows
    run,        \* the handlers
    starts

vars == <<redis, index, tokens, dead, suspended, stored, lost, menu, shown, run, starts>>
pool == <<index, tokens>>
health == <<dead, suspended>>
cache == <<stored, lost, menu>>

Sessions == 0 .. PoolSize - 1
Entries == Reels \cup {"menu"}
Parts == {"stories", "highlights"}
Screens == {"none", "busy", "text", "menu", "stories", "highlights"} \cup Reels
Links == {"profile", "story"}
Presses == {"stories", "highlights", "back", "item", "all"}
Idle == [pc |-> "idle", kind |-> "story", for |-> "uid", left |-> 0, at |-> 0,
         spare |-> {}, shows |-> {}, told |-> "none"]

(* Every variable keeps its type.                                          *)
TypeOK ==
    /\ redis \in BOOLEAN
    /\ index \in Sessions /\ tokens \in [Sessions -> 0 .. Tokens]
    /\ dead \subseteq Sessions /\ suspended \subseteq Sessions
    /\ stored \subseteq Entries /\ lost \subseteq Entries
    /\ menu \subseteq Parts /\ shown \in Screens
    /\ run \in [Calls ->
           [pc : {"idle", "profile", "scan", "asked", "claimed", "store", "show", "send"},
            kind : Links \cup Presses \cup Reels, for : {"uid", "media"},
            left : 0 .. PoolSize, at : Sessions, spare : SUBSET Sessions,
            shows : SUBSET Parts,
            told : {"none", "paused", "error", "answer"}]]
    /\ starts \in 0 .. MaxStarts

Init ==
    /\ redis \in BOOLEAN
    /\ index = 0
    /\ tokens \in [Sessions -> 0 .. Tokens]
    /\ ~redis => \A s \in Sessions : tokens[s] = Tokens   \* a new process has full buckets
    /\ dead = {} /\ suspended = {}
    /\ stored = {} /\ lost = {} /\ menu = {} /\ shown = "none"
    /\ run = [c \in Calls |-> Idle]
    /\ starts = 0

At(c, pc) == run[c].pc = pc
\* What the buckets may hold by now: they fill up with time.
Refilled == {now \in [Sessions -> 0 .. Tokens] : \A s \in Sessions : now[s] >= tokens[s]}
\* With Redis other calls may be on their way to the same bucket: a session
\* is there for a call when it has a token for everybody.
Enough == IF redis THEN Cardinality(Calls) ELSE 1
Spare(s) == s \notin dead /\ tokens[s] >= Enough
InTurn(k) == (index + k) % PoolSize
\* What a call said; a story link, and the error of a single item, have a
\* message of their own.
Told(c, what) == [Idle EXCEPT !.told = what, !.spare = IF what = "paused" THEN run[c].spare ELSE {}]
Tell(c, what) ==
    /\ run' = [run EXCEPT ![c] = Told(c, what)]
    /\ shown' = IF run[c].kind \in {"story", "item"} THEN shown ELSE "text"
\* A scan begins: every session that can be claimed now is spare until it is not.
Scanning(c, for) ==
    run' = [run EXCEPT ![c].pc = "scan", ![c].for = for, ![c].left = PoolSize,
                       ![c].spare = {s \in Sessions : Spare(s)}]
\* The search is over: what was spare does not matter any more.
Claimed(c, s) ==
    [run EXCEPT ![c].pc = "claimed", ![c].at = s, ![c].left = 0, ![c].spare = {}]
\* A session that pays one of its last tokens is not spare any more.
Spend(s, have, upd) ==
    /\ tokens' = [tokens EXCEPT ![s] = have - 1]
    /\ run' = [c \in Calls |-> [upd[c] EXCEPT !.spare = IF have <= Enough THEN @ \ {s} ELSE @]]

-----------------------------------------------------------------------------
Opening == [Idle EXCEPT !.pc = "show"]
Sending == [Idle EXCEPT !.pc = "send"]
Search == [Idle EXCEPT !.pc = "scan", !.for = "media", !.left = PoolSize,
                       !.spare = {s \in Sessions : Spare(s)}]

\* A link in a private chat (on_message, _handle_instagram): a profile, one
\* story, or one highlight.
Paste(c) ==
    /\ At(c, "idle") /\ starts < MaxStarts
    /\ starts' = starts + 1
    /\ \E kind \in Links \cup Reels :
           /\ kind # "story" => shown = "none"
           /\ shown' = IF kind # "story" THEN "busy" ELSE shown
           /\ run' = [run EXCEPT ![c] = IF kind \in Reels
                                       THEN [Search EXCEPT !.kind = kind]
                                       ELSE [Idle EXCEPT !.kind = kind, !.pc = "profile"]]
    /\ UNCHANGED <<redis, pool, health, cache>>

\* The buttons a screen offers.
Buttons(screen) ==
    CASE screen = "menu" -> menu \cup (IF "stories" \in menu THEN {"all"} ELSE {})
      [] screen = "stories" -> {"item", "all", "back"}
      [] screen = "highlights" -> Reels \cup {"back"}
      [] screen \in Reels -> {"item", "all"} \cup (menu \cap {"highlights"})
      [] OTHER -> {}
Entry(screen) == IF screen \in Reels THEN screen ELSE "menu"

\* A button of the menu message: its cache entry is read before anything else.
Pressed(c, button, entry, call, screen) ==
    /\ At(c, "idle") /\ starts < MaxStarts
    /\ button \in Buttons(shown)
    /\ starts' = starts + 1
    /\ IF entry \in stored
       THEN /\ shown' = IF screen = "same" THEN shown ELSE screen
            /\ run' = [run EXCEPT ![c] = [call EXCEPT !.kind = button]]
       ELSE /\ shown' = "text"
            /\ run' = [run EXCEPT ![c] = [Idle EXCEPT !.told = "error"]]
    /\ UNCHANGED <<redis, pool, health, cache>>

OpenStories(c) == Pressed(c, "stories", "menu", Opening, "same")
OpenHighlights(c) == Pressed(c, "highlights", "menu", Opening, "same")
OpenMenu(c) == Pressed(c, "back", "menu", Opening, "same")
\* The items of a highlight are fetched again each time.
OpenReel(c) == \E r \in Reels : Pressed(c, r, "menu", Search, "busy")
DownloadStory(c) == shown = "stories" /\ Pressed(c, "item", "menu", Sending, "same")
DownloadStories(c) == shown \in {"menu", "stories"} /\ Pressed(c, "all", "menu", Sending, "busy")
DownloadReelItem(c) == shown \in Reels /\ Pressed(c, "item", shown, Sending, "same")
DownloadReel(c) == shown \in Reels /\ Pressed(c, "all", shown, Sending, "busy")

\* The anonymous profile lookup: an id, a block (the mobile API is asked
\* with a session), or an error.
Profile(c) ==
    /\ At(c, "profile")
    /\ \/ Scanning(c, "uid") /\ UNCHANGED shown
       \/ Scanning(c, "media") /\ UNCHANGED shown
       \/ Tell(c, "error")
    /\ UNCHANGED <<redis, pool, health, cache, starts>>

\* No session could be claimed: a profile that is known goes on without
\* its stories, whoever asked for anything else is told to wait.
Paused(c) ==
    IF run[c].for = "media" /\ run[c].kind \in Links
    THEN run' = [run EXCEPT ![c].pc = "store", ![c].spare = {}, ![c].left = 0] /\ UNCHANGED shown
    ELSE Tell(c, "paused")

\* _get_available_session in memory: no call runs between two buckets.
Scan(c) ==
    /\ At(c, "scan") /\ ~redis
    /\ \E now \in Refilled :
          LET free == {k \in 0 .. PoolSize - 1 : InTurn(k) \notin dead /\ now[InTurn(k)] > 0}
              s == InTurn(Min(free))
          IN  IF free = {}
              THEN Paused(c) /\ UNCHANGED pool
              ELSE /\ index' = (s + 1) % PoolSize
                   /\ Spend(s, now[s], Claimed(c, s))
                   /\ UNCHANGED shown
    /\ UNCHANGED <<redis, health, cache, starts>>

\* The same loop with Redis: it advances the shared index over dead sessions
\* to the next one and asks for a token,
Ask(c) ==
    /\ At(c, "scan") /\ redis
    /\ LET alive == {k \in 0 .. run[c].left - 1 : InTurn(k) \notin dead}
       IN  IF alive = {}
           THEN /\ index' = InTurn(run[c].left)
                /\ Paused(c)
           ELSE /\ index' = InTurn(Min(alive) + 1)
                /\ run' = [run EXCEPT ![c].pc = "asked", ![c].at = InTurn(Min(alive)),
                                      ![c].left = @ - Min(alive) - 1]
                /\ UNCHANGED shown
    /\ UNCHANGED <<redis, tokens, health, cache, starts>>

\* and continues after the answer. A limiter that fails allows without a token
\* (or with one, when only its answer was lost).
Answer(c) ==
    /\ At(c, "asked")
    /\ LET s == run[c].at
           claimed == Claimed(c, s)
       IN  \/ \E have \in 1 .. Tokens : have >= tokens[s] /\ Spend(s, have, claimed)
           \/ tokens[s] = 0 /\ run' = [run EXCEPT ![c].pc = "scan"] /\ UNCHANGED tokens
           \/ run' = claimed /\ UNCHANGED tokens
    /\ UNCHANGED <<redis, index, health, cache, shown, starts>>

\* Fault: the session the shared index passed last is evicted.
EvictedInTurn(s) == dead \cup {(index + PoolSize - 1) % PoolSize}

\* A death signal in the answer evicts the session of the request.
Evicted(s) == dead \cup {s}

\* usernameinfo and the highlights tray, both with the one token.
FetchProfile(c) ==
    /\ At(c, "claimed") /\ run[c].for = "uid"
    /\ \/ /\ Scanning(c, "media")
          /\ UNCHANGED <<health, shown>>
       \/ /\ \/ UNCHANGED health
             \/ dead' = Evicted(run[c].at) /\ suspended' = suspended \cup {run[c].at}
          /\ shown' = IF run[c].kind = "story" THEN shown ELSE "text"
          /\ run' = [d \in Calls |->
                 IF d = c THEN Told(c, "error") ELSE [run[d] EXCEPT !.spare = @ \ dead']]
    /\ UNCHANGED <<redis, pool, cache, starts>>

\* reels_media never looks at the session's health; a failure is no items.
FetchReels(c) ==
    /\ At(c, "claimed") /\ run[c].for = "media"
    /\ \E has \in SUBSET {"stories"} :
           run' = [run EXCEPT ![c] = [Idle EXCEPT !.pc = "store", !.kind = run[c].kind, !.shows = has]]
    /\ UNCHANGED <<redis, pool, health, cache, shown, starts>>

\* A cache write; with Redis it may fail without a word.
Write(entry) ==
    \/ stored' = stored \cup {entry} /\ lost' = lost \ {entry}
    \/ redis /\ lost' = lost \cup {entry} /\ UNCHANGED stored

\* The story of a direct link is among the profile's stories, or it is not.
FindStory(c) ==
    /\ At(c, "store") /\ run[c].kind = "story"
    /\ \/ run[c].shows # {} /\ run' = [run EXCEPT ![c].pc = "send"] /\ UNCHANGED shown
       \/ Tell(c, "answer")
    /\ UNCHANGED <<redis, pool, health, cache, starts>>

StoreReel(c) ==
    /\ At(c, "store") /\ run[c].kind \in Reels
    /\ IF run[c].shows = {}
       THEN Tell(c, "answer") /\ UNCHANGED cache
       ELSE Write(run[c].kind) /\ run' = [run EXCEPT ![c].pc = "show"] /\ UNCHANGED <<menu, shown>>
    /\ UNCHANGED <<redis, pool, health, starts>>

\* The profile's highlights came with its id.
StoreProfile(c) ==
    /\ At(c, "store") /\ run[c].kind = "profile"
    /\ \E highlights \in SUBSET {"highlights"} :
           /\ menu' = run[c].shows \cup highlights
           /\ IF menu' = {}
              THEN Tell(c, "answer") /\ UNCHANGED <<stored, lost>>
              ELSE Write("menu") /\ run' = [run EXCEPT ![c].pc = "show"] /\ UNCHANGED shown
    /\ UNCHANGED <<redis, pool, health, starts>>

\* The message is edited into the screen of the button or of the link.
Show(c) ==
    /\ At(c, "show")
    /\ shown' = CASE run[c].kind \in {"profile", "back"} -> "menu"
                  [] OTHER -> run[c].kind
    /\ run' = [run EXCEPT ![c] = Told(c, "answer")]
    /\ UNCHANGED <<redis, pool, health, cache, starts>>

\* _deliver_authorized_stories and what the button says of its receipt.
Send(c) ==
    /\ At(c, "send")
    /\ Tell(c, "answer") \/ Tell(c, "error")
    /\ UNCHANGED <<redis, pool, health, cache, starts>>

\* The entry's time is over, or newer entries took its place.
Expire(e) ==
    /\ e \in stored
    /\ stored' = stored \ {e} /\ lost' = lost \cup {e}
    /\ UNCHANGED <<redis, pool, health, menu, shown, run, starts>>

Step(c) ==
    \/ Profile(c) \/ Scan(c) \/ Ask(c) \/ Answer(c) \/ FetchProfile(c) \/ FetchReels(c)
    \/ FindStory(c) \/ StoreReel(c) \/ StoreProfile(c) \/ Show(c) \/ Send(c)
Press(c) ==
    \/ OpenStories(c) \/ OpenHighlights(c) \/ OpenMenu(c) \/ OpenReel(c)
    \/ DownloadStory(c) \/ DownloadStories(c) \/ DownloadReelItem(c) \/ DownloadReel(c)
Next ==
    \/ \E c \in Calls : Paste(c) \/ Press(c) \/ Step(c)
    \/ \E e \in Entries : Expire(e)

Spec == Init /\ [][Next]_vars /\ \A c \in Calls : WF_vars(Step(c))
-----------------------------------------------------------------------------
\* A caller is told that Instagram is paused only if no session kept a token
\* and its account from the start of its search to the end.
PausedMeansEmpty == \A c \in Calls : run[c].told = "paused" => run[c].spare = {}

\* In memory nothing can happen between two buckets of a search.
AtomicScanFindsAToken == ~redis => PausedMeansEmpty

\* A screen with buttons has its cache entry, unless the entry expired or
\* could not be written: nobody sees a menu before it can be answered.
ScreensAreBacked == shown \in {"menu", "stories", "highlights"} \cup Reels => Entry(shown) \in stored \cup lost

\* Every handler that ended said how, and left no session half claimed.
NobodyIsLeftWaiting ==
    /\ \A c \in Calls : At(c, "idle") /\ run[c] # Idle => run[c].told # "none"
    /\ shown = "busy" => \E c \in Calls : ~At(c, "idle") /\ run[c].kind # "story"

\* However the shared index moved since, the session that leaves the rotation
\* is the one whose request was answered with the death signal.
OnlySuspendedDie == dead = suspended

StoriesAreSafe ==
    /\ TypeOK /\ AtomicScanFindsAToken /\ OnlySuspendedDie
    /\ ScreensAreBacked /\ NobodyIsLeftWaiting

\* The handler has not ended.
Waits(c) == ~At(c, "idle")
=============================================================================
