------------------------------ MODULE Transport ------------------------------
(***************************************************************************)
(* MediaTransport.materialize of app/services/media/transport.py: one call *)
(* turns the candidates of a resolution into one file.  Two small          *)
(* candidates race, the others are tried in order; an attempt reserves     *)
(* disk, probes the source, streams it (in ranges, across redirects) and   *)
(* transforms it, and one of the attempts may ask its provider once for    *)
(* fresh URLs.  A response that does not close and an ffmpeg that does not *)
(* end in cleanup_timeout are left to a detached task.  The deadline and   *)
(* the caller's cancellation come at any await.  What reservation and      *)
(* leases do is in MediaLeases.                                            *)
(***************************************************************************)
EXTENDS Integers, FiniteSets

CONSTANTS
    N,            \* bound: safe candidates, numbered in order of preference
    MaxRedirects, \* self.max_redirects
    Ranges        \* HTTP ranges of a source

Candidates == 1 .. N

VARIABLES
    tagged,    \* the server sends an ETag or Last-Modified, fixed
    version,   \* of the media on the server
    mode,      \* where materialize is
    rest,      \* safe candidates not tried yet
    racing,    \* the candidates of _race_small
    winner,    \* the item to return, 0 for none
    late,      \* the deadline has passed
    stop,      \* an error or cancellation the call will raise
    asked,     \* candidates whose provider was asked to refresh
    refreshAttempted, \* the flag of that name
    at,        \* where each attempt is
    held,      \* what it owns: reservation, open response, ffmpeg, files
    detached,  \* candidates with a clean-up that outlasted cleanup_timeout
    hop,       \* its request: redirects, origin and headers
    body       \* what it streamed: ranges, first version, versions mixed

callVars == <<mode, rest, racing, winner, stop>>
vars == <<tagged, version, callVars, late, asked, refreshAttempted, at, held, detached, hop, body>>

Home == [n |-> 0, away |-> FALSE, secret |-> TRUE]
Empty == [got |-> 0, seen |-> 0, mixed |-> FALSE]

Busy == {"reserve", "probe", "reading", "stream", "body", "transform", "refresh", "stopping"}
Ended == {"ok", "failed", "fatal"}

\* What may resist its clean-up: the close of a response, the end of ffmpeg.
Stubborn == {"response", "process"}

(* Every variable keeps its type; an attempt never streams past its last      *)
(* range nor follows more redirects than max_redirects allows.                *)
TypeOK ==
    /\ tagged \in BOOLEAN /\ version \in {1, 2}
    /\ mode \in {"validate", "race", "join", "next", "attempt", "returned", "raised"}
    /\ rest \subseteq Candidates /\ racing \subseteq Candidates
    /\ winner \in Candidates \cup {0}
    /\ late \in BOOLEAN /\ stop \in BOOLEAN
    /\ asked \subseteq Candidates /\ refreshAttempted \in BOOLEAN
    /\ at \in [Candidates -> {"idle"} \cup Busy \cup Ended]
    /\ held \in [Candidates -> SUBSET {"reservation", "response", "process", "file"}]
    /\ detached \subseteq Candidates
    /\ hop \in [Candidates -> [n : 0 .. MaxRedirects, away : BOOLEAN, secret : BOOLEAN]]
    /\ body \in [Candidates -> [got : 0 .. Ranges, seen : 0 .. 2, mixed : BOOLEAN]]

Init ==
    /\ tagged \in BOOLEAN /\ version = 1 /\ mode = "validate"
    /\ rest = {} /\ racing = {} /\ winner = 0
    /\ late = FALSE /\ stop = FALSE
    /\ asked = {} /\ refreshAttempted = FALSE
    /\ at = [c \in Candidates |-> "idle"]
    /\ held = [c \in Candidates |-> {}] /\ detached = {}
    /\ hop = [c \in Candidates |-> Home] /\ body = [c \in Candidates |-> Empty]

First(S) == {c \in S : \A d \in S : c <= d}

-----------------------------------------------------------------------------
(* The call. *)

\* Candidates that are too large or have unsafe URLs are dropped and have no
\* number.  The first two that are left race if both are small (SMALL_PARALLEL_LIMIT) and not
\* Shorts of different sizes.
Validate ==
    /\ mode = "validate"
    /\ \E safe \in {1 .. k : k \in 0 .. N} :
          LET head == safe \cap {1, 2} IN
          \/ /\ safe = {} /\ mode' = "raised"
             /\ UNCHANGED <<rest, racing, at>>
          \/ /\ safe # {} /\ ~late /\ mode' = "next" /\ rest' = safe
             /\ UNCHANGED <<racing, at>>
          \/ /\ Cardinality(head) = 2 /\ ~late
             /\ mode' = "race" /\ rest' = safe \ head /\ racing' = head
             /\ at' = [c \in Candidates |-> IF c \in head THEN "reserve" ELSE at[c]]
    /\ UNCHANGED <<tagged, version, winner, stop, late, asked, refreshAttempted, held, detached, hop, body>>

\* Attempts of the race that still run are cancelled.
Stopped == [c \in Candidates |-> IF c \in racing /\ at[c] \in Busy THEN "stopping" ELSE at[c]]

\* Fault: the race goes on waiting when every attempt has failed.
CollectRaceWinner ==
    LET done == {c \in racing : at[c] \in Ended} IN
    /\ mode = "race" /\ done # {}
    /\ \/ \E c \in done : at[c] = "fatal" /\ winner' = 0 /\ stop' = TRUE
       \/ \E c \in done : at[c] = "ok" /\ winner' = c /\ UNCHANGED stop
    /\ mode' = "join" /\ at' = Stopped
    /\ UNCHANGED <<tagged, version, rest, racing, late, asked, refreshAttempted, held, detached, hop, body>>

\* The race wakes up: the first item wins, an error that is not a
\* MaterializationError is raised, and without either it waits on.
CollectRace ==
    LET done == {c \in racing : at[c] \in Ended} IN
    /\ mode = "race" /\ done # {}
    /\ \/ /\ \E c \in done : at[c] = "fatal"
          /\ winner' = 0 /\ stop' = TRUE /\ mode' = "join" /\ at' = Stopped
       \/ /\ \A c \in done : at[c] # "fatal"
          /\ \E c \in done : at[c] = "ok" /\ winner' = c
          /\ mode' = "join" /\ at' = Stopped /\ UNCHANGED stop
       \/ /\ \A c \in racing : at[c] = "failed"
          /\ mode' = "join" /\ UNCHANGED <<winner, stop, at>>
    /\ UNCHANGED <<tagged, version, rest, racing, late, asked, refreshAttempted, held, detached, hop, body>>

RaceExpires ==
    /\ mode = "race" /\ late
    /\ \A c \in racing : at[c] \in Busy \cup {"failed"}
    /\ mode' = "join" /\ at' = Stopped
    /\ UNCHANGED <<tagged, version, rest, racing, winner, stop, late, asked, refreshAttempted, held, detached, hop, body>>

\* The items in lost are released and their files deleted.
Release(lost) == held' = [c \in Candidates |-> IF c \in lost THEN {} ELSE held[c]]

\* discard_losers has joined every attempt: all items but the winner's are
\* released, and the winner's too when the race raises.
Join ==
    /\ mode = "join" /\ \A c \in racing : at[c] \in Ended
    /\ mode' = IF stop THEN "raised" ELSE IF winner # 0 THEN "returned" ELSE "next"
    /\ winner' = IF stop THEN 0 ELSE winner
    /\ Release({c \in racing : stop \/ c # winner})
    /\ racing' = {}
    /\ UNCHANGED <<tagged, version, rest, stop, late, asked, refreshAttempted, at, detached, hop, body>>

\* The next candidate in order, while there is one and time.
StartNext ==
    /\ mode = "next"
    /\ \/ /\ rest # {} /\ ~late
          /\ mode' = "attempt" /\ rest' = rest \ First(rest)
          /\ racing' = First(rest)
          /\ at' = [c \in Candidates |-> IF c \in First(rest) THEN "reserve" ELSE at[c]]
       \/ /\ rest = {} \/ late
          /\ mode' = "raised" /\ UNCHANGED <<rest, racing, at>>
    /\ UNCHANGED <<tagged, version, winner, stop, late, asked, refreshAttempted, held, detached, hop, body>>

AttemptEnds ==
    /\ mode = "attempt"
    /\ \E c \in racing :
          /\ at[c] \in Ended
          /\ mode' = CASE stop \/ at[c] = "fatal" -> "raised"
                       [] at[c] = "ok" -> "returned"
                       [] OTHER -> "next"
          /\ winner' = IF at[c] = "ok" THEN c ELSE 0
    /\ racing' = {}
    /\ UNCHANGED <<tagged, version, rest, stop, late, asked, refreshAttempted, at, held, detached, hop, body>>

\* The caller's task is cancelled; while losers are discarded the
\* cancellation is kept for the end.
Cancel ==
    /\ mode \in {"validate", "race", "join", "attempt"} /\ ~stop
    /\ \A c \in racing : mode = "attempt" => at[c] \in Busy
    /\ stop' = TRUE
    /\ mode' = CASE mode = "validate" -> "raised" [] mode = "race" -> "join" [] OTHER -> mode
    /\ winner' = IF mode = "race" THEN 0 ELSE winner
    /\ at' = Stopped
    /\ UNCHANGED <<tagged, version, rest, racing, late, asked, refreshAttempted, held, detached, hop, body>>

DeadlinePasses ==
    /\ ~late /\ mode \notin {"returned", "raised"}
    /\ late' = TRUE
    /\ UNCHANGED <<tagged, version, callVars, asked, refreshAttempted, at, held, detached, hop, body>>

\* The media is replaced on its server.
ServerChanges ==
    /\ version = 1 /\ version' = 2
    /\ UNCHANGED <<tagged, callVars, late, asked, refreshAttempted, at, held, detached, hop, body>>

-----------------------------------------------------------------------------
(* An attempt. *)

Turn(c, stage) == at' = [at EXCEPT ![c] = stage]

\* Whether the clean-up of an attempt may have to be left to a detached task.
\* With nothing but its reservation it is in a request, which closes the
\* response of each redirect.
MayResist(c) == held[c] \cap Stubborn # {} \/ held[c] = {"reservation"}

\* Fault: a clean-up that timed out ends the attempt before the rest is done.
GiveBackUnlessDetached(c, resists) ==
    /\ held' = [held EXCEPT ![c] = IF resists THEN @ \ Stubborn ELSE {}]
    /\ detached' = IF resists THEN detached \cup {c} ELSE detached
    /\ hop' = [hop EXCEPT ![c] = Home]
    /\ body' = [body EXCEPT ![c] = Empty]

\* The attempt gives back all it holds: what resists for cleanup_timeout is
\* left to a detached task, files and reservation go all the same.
GiveBack(c, resists) ==
    /\ held' = [held EXCEPT ![c] = {}]
    /\ detached' = IF resists THEN detached \cup {c} ELSE detached
    /\ hop' = [hop EXCEPT ![c] = Home]
    /\ body' = [body EXCEPT ![c] = Empty]

\* The request of a stage leaves for the candidate's own origin.
Request(c, stage) ==
    /\ Turn(c, stage)
    /\ hop' = [hop EXCEPT ![c] = Home]

\* disk_budget.reserve
Reserve(c) ==
    /\ at[c] = "reserve" /\ ~late
    /\ held' = [held EXCEPT ![c] = {"reservation"}]
    /\ Request(c, "probe")
    /\ UNCHANGED <<tagged, version, callVars, late, asked, refreshAttempted, detached, body>>

\* A redirect: the response is closed, and a change of origin drops every
\* header that is not in _CROSS_ORIGIN_HEADER_ALLOWLIST for good.
Redirect(c) ==
    /\ at[c] \in {"probe", "stream"} /\ ~late
    /\ hop[c].n < MaxRedirects
    /\ \E away \in BOOLEAN :
          hop' = [hop EXCEPT ![c] =
                    [n |-> @.n + 1, away |-> away, secret |-> @.secret /\ @.away = away]]
    /\ UNCHANGED <<tagged, version, callVars, late, asked, refreshAttempted, at, held, detached, body>>

\* The final answer of a probe or of a stream, whose partial file is bound.
Opened(c) ==
    /\ at[c] \in {"probe", "stream"} /\ ~late
    /\ Turn(c, IF at[c] = "probe" THEN "reading" ELSE "body")
    /\ held' = [held EXCEPT ![c] =
          @ \cup IF at[c] = "probe" THEN {"response"} ELSE {"response", "file"}]
    /\ body' = [body EXCEPT ![c] =
          IF at[c] = "probe" THEN Empty ELSE [got |-> 0, seen |-> version, mixed |-> FALSE]]
    /\ hop' = [hop EXCEPT ![c] = Home]
    /\ UNCHANGED <<tagged, version, callVars, late, asked, refreshAttempted, detached>>

\* The probe's signature is accepted and its response closed.
Probed(c) ==
    /\ at[c] = "reading" /\ ~late
    /\ held' = [held EXCEPT ![c] = @ \ {"response"}]
    /\ Request(c, "stream")
    /\ UNCHANGED <<tagged, version, callVars, late, asked, refreshAttempted, detached, body>>

\* A range is complete and the next is opened: its total, offset and
\* validators must be the first one's.
NextRange(c) ==
    /\ at[c] = "body" /\ ~late /\ body[c].got < Ranges - 1
    /\ tagged => version = body[c].seen
    /\ body' = [body EXCEPT ![c].got = @ + 1, ![c].mixed = @ \/ version # body[c].seen]
    /\ UNCHANGED <<tagged, version, callVars, late, asked, refreshAttempted, at, held, detached, hop>>

\* The last byte: length and signature fit, the file is promoted and the
\* response closed; then the transform, if one is wanted.
Streamed(c) ==
    /\ at[c] = "body" /\ ~late /\ body[c].got = Ranges - 1
    /\ body' = [body EXCEPT ![c].got = Ranges, ![c].seen = 0]
    /\ \E wanted \in BOOLEAN :
          held' = [held EXCEPT ![c] =
            (@ \ {"response"}) \cup IF wanted THEN {"process"} ELSE {}]
    /\ Turn(c, "transform")
    /\ UNCHANGED <<tagged, version, callVars, late, asked, refreshAttempted, detached, hop>>

\* _finalize_candidate, whose ffmpeg has ended, and the last size check.
Finalized(c) ==
    /\ at[c] = "transform" /\ ~late
    /\ Turn(c, "ok")
    /\ held' = [held EXCEPT ![c] = @ \ {"process"}]
    /\ UNCHANGED <<tagged, version, callVars, late, asked, refreshAttempted, detached, hop, body>>

\* The attempt fails and gives back all it holds.  A download error or a
\* timeout is answered by a refresh, once for the whole call and never for a
\* candidate that is fresh; no disk space ends the call, unless a response
\* that will not close makes a timeout of it (as it does of a success).
Fails(c) ==
    /\ at[c] \in Busy \ {"stopping", "refresh"}
    /\ \E resists \in BOOLEAN :
          /\ resists => MayResist(c)
          /\ GiveBack(c, resists)
          /\ \/ /\ c \notin asked /\ ~refreshAttempted
                /\ refreshAttempted' = TRUE
                /\ asked' = IF late THEN asked ELSE asked \cup {c}
                /\ Turn(c, IF late THEN "failed" ELSE "refresh")
             \/ Turn(c, "failed") /\ UNCHANGED <<asked, refreshAttempted>>
             \/ /\ ~resists \/ "process" \in held[c]
                /\ Turn(c, "fatal") /\ UNCHANGED <<asked, refreshAttempted>>
    /\ UNCHANGED <<tagged, version, callVars, late>>

\* provider.refresh returns a candidate of the same identity, or does not.
Refreshed(c) ==
    /\ at[c] = "refresh"
    /\ \/ ~late /\ Turn(c, "reserve")
       \/ Turn(c, "failed")
    /\ refreshAttempted' = TRUE
    /\ UNCHANGED <<tagged, version, callVars, late, asked, held, detached, hop, body>>

\* A cancelled attempt unwinds; a clean-up gets cleanup_timeout of grace.
Unwind(c) ==
    /\ at[c] = "stopping"
    /\ \E resists \in BOOLEAN : (resists => MayResist(c)) /\ GiveBack(c, resists)
    /\ Turn(c, "failed")
    /\ UNCHANGED <<tagged, version, callVars, late, asked, refreshAttempted>>

\* A detached clean-up comes to its end, during the call or after it.
CleanedUp(c) ==
    /\ c \in detached
    /\ detached' = detached \ {c}
    /\ UNCHANGED <<tagged, version, callVars, late, asked, refreshAttempted, at, held, hop, body>>

AttemptStep(c) ==
    \/ Reserve(c) \/ Redirect(c) \/ Opened(c) \/ Probed(c) \/ NextRange(c)
    \/ Streamed(c) \/ Finalized(c) \/ Fails(c) \/ Refreshed(c) \/ Unwind(c)

CallStep == Validate \/ CollectRace \/ RaceExpires \/ Join \/ StartNext \/ AttemptEnds

Next ==
    \/ CallStep \/ Cancel \/ DeadlinePasses \/ ServerChanges
    \/ \E c \in Candidates : AttemptStep(c) \/ CleanedUp(c)

\* Every await has a timeout, those of a clean-up included, and asyncio runs
\* whatever is ready; a detached clean-up has none and may never end.
Spec ==
    /\ Init /\ [][Next]_vars
    /\ WF_vars(CallStep)
    /\ \A c \in Candidates : WF_vars(AttemptStep(c))

-----------------------------------------------------------------------------
(* Properties. *)

(* When the call ends, all it still owns is the item it returns: losers,       *)
(* failures and cancelled attempts have given back reservation and files even *)
(* if their connection or their ffmpeg resists, and a call that raises owns   *)
(* nothing.  What resists is live after the call, in a detached task.         *)
OnlyTheItemRemains ==
    mode \in {"returned", "raised"} =>
        /\ (mode = "returned") = (winner # 0)
        /\ \A c \in Candidates :
              /\ at[c] \notin Busy
              /\ held[c] = IF c = winner THEN {"reservation", "file"} ELSE {}

(* Only what failed or was cancelled leaves a clean-up behind: no item is made *)
(* by a try whose connection or ffmpeg may still be live.                     *)
ItemsAreFinished ==
    \A c \in Candidates :
        c \in detached => at[c] \in {"failed", "fatal"} \/ c \in asked

(* Racing attempts that fail together ask for fresh URLs once between them.   *)
RefreshesOnce == Cardinality(asked) <= 1

(* Two attempts use disk and network at a time only in the race of the small  *)
(* ones, detached clean-up aside: the next candidate starts when the race is  *)
(* really over.                                                               *)
OnlySmallOnesRace ==
    LET active == {c \in Candidates : at[c] \in Busy \/ held[c] # {}} IN
    Cardinality(active) > 1 =>
        Cardinality(active) = 2 /\ mode \in {"race", "join"} /\ active \subseteq racing

(* No chain of redirects brings the candidate's own headers (cookies,         *)
(* authorization) to another origin.                                          *)
SecretsStayHome == \A c \in Candidates : ~(hop[c].away /\ hop[c].secret)

(* Ranges joined to one file come from one version of the media if the server *)
(* identifies versions at all.                                                *)
FilesAreWhole == \A c \in Candidates : at[c] = "ok" /\ tagged => ~body[c].mixed

(* Whatever its candidates and the server do, a materialization leaves no     *)
(* trace but its item and clean-up that outlasted its timeout, refreshes once, *)
(* races small ones only, keeps secrets at home and joins no two versions     *)
(* (MediaTransport.materialize).                                              *)
TransportIsSafe ==
    /\ TypeOK
    /\ OnlyTheItemRemains
    /\ ItemsAreFinished
    /\ RefreshesOnce
    /\ OnlySmallOnesRace
    /\ SecretsStayHome
    /\ FilesAreWhole

\* The call, of which there is one, has not ended: with an item or an error.
Waits(call) == call = 1 /\ mode \notin {"returned", "raised"}

=============================================================================
