---------------------------- MODULE HttpProviders ----------------------------
(***************************************************************************)
(* The providers that ask a web service for media links and download       *)
(* nothing (app/services/media/providers/http.py and its adapters,         *)
(* PinterestProvider of app/services/pinterest.py).  Concurrent resolve    *)
(* calls of one provider share its pacer; a call follows the redirects of  *)
(* the service itself, reads the answer and probes the links of it before  *)
(* it returns any.  A race may cancel a call at every await.               *)
(***************************************************************************)
EXTENDS Integers, Sequences, FiniteSets, FiniteSetsExt

CONSTANTS
    Calls,         \* concurrent resolve calls of the provider
    Served,        \* the names of the providers looked at
    Interval,      \* min_interval of a paced endpoint
    Delays,        \* what Retry-After may say, None for nothing
    None,
    MaxRedirects,  \* max_redirects of request_response
    MaxLinks,      \* links of one answer (bound)
    MaxNow         \* the clock (bound)

\* What the constants must satisfy.
ProvidersAssumption ==
    /\ Interval \in Nat \ {0} /\ MaxRedirects \in Nat /\ MaxLinks \in Nat \ {0}
    /\ None \in Delays /\ Delays \ {None} \subseteq Nat

VARIABLES
    provider,  \* the provider: its name and whether its endpoints have an api_key
    now,       \* time.monotonic()
    pace,      \* _OriginPaceState: the lock's holder and waiters, next_allowed
    begun,     \* when each call was let through last, None before
    call       \* where each call is

vars == <<provider, now, pace, begun, call>>

-----------------------------------------------------------------------------
(* The providers: "tikwm", "fxtwitter", "ssstik", "snapsave", "cobalt" and     *)
(* "pinterest".                                                               *)

\* The endpoints of a provider: only Cobalt's are configured, and may be several.
Endpoints(name) == IF name = "cobalt" THEN 1 .. 2 ELSE {1}
LastEndpoint == Max(Endpoints(provider.name))

\* TikWM and FxTwitter space their requests by default, the others do not.
Paced == provider.name \in {"tikwm", "fxtwitter"}

\* The requests of one resolution: the page with SSSTik's form, then its form.
LastStep == IF provider.name = "ssstik" THEN 2 ELSE 1

\* What carries a payload, and what credentials besides an api_key.
HasBody(step) == provider.name \in {"cobalt", "snapsave"} \/ step = 2

\* An endpoint is the origin of its number.
Origins == 1 .. 3

-----------------------------------------------------------------------------
(* Failures. *)

Kinds == {"transient", "auth", "config", "permanent", "internal"}
Failures == [kind : Kinds, delay : Delays]
Error(kind) == [kind |-> kind, delay |-> None]
Transient == {[kind |-> "transient", delay |-> d] : d \in Delays}

\* _raise_for_response: credentials that are refused are a fault of theirs.
Refusals(authenticated) ==
    Transient \cup {Error("permanent"), Error(IF authenticated THEN "auth" ELSE "transient")}

\* The same of Pinterest's page, which is asked for without any.
PageRefusals == Transient \cup {Error("permanent")}

\* probe_candidate: no credentials go with it, so nothing is refused for them.
ProbeFailures == Transient \cup {Error("permanent")}

\* combine_probe_failures.
Combined(first, other) ==
    LET delays == {first.delay, other.delay} \ {None}
        kept == IF first.kind # "transient" /\ other.kind = "transient" THEN other ELSE first
    IN  [kept EXCEPT !.delay = IF delays = {} THEN None ELSE Max(delays)]

-----------------------------------------------------------------------------
(* Answers.  An answer fails the call, or has links: `all` must be sound, any *)
(* sound ones will do, or the first is preferred to the second.  An album's   *)
(* entry may lack its link.                                                   *)

Links(kinds) == UNION {[1 .. n -> kinds] : n \in 1 .. MaxLinks}
Entries == Links({"link", "missing"})

Answer(how, links) == {[how |-> how, links |-> l] : l \in links}
Failing(kinds) == {Error(k) : k \in kinds}

\* What the last request of each may come to.  TikWM has an album, or a video
\* in one or two qualities; a rate limit in its body may be retried.
TikWM ==
    Failing({"transient", "permanent", "internal"})
      \cup Answer("all", Entries) \cup Answer("preferred", {l \in Links({"link"}) : Len(l) < 3})

FxTwitter == Failing({"transient", "permanent"}) \cup Answer("all", Entries)

SSSTik == Failing({"transient"}) \cup Answer("any", Links({"link"}))

\* A job that still renders is no link, but may be asked for again.
SnapSave == Failing({"transient"}) \cup Answer("all", Links({"link"}))

Cobalt == Failing({"permanent", "internal"}) \cup Answer("all", Entries)

Pinterest == Failing({"permanent"}) \cup Answer("all", {<<"link">>})

Answers ==
    CASE provider.name = "tikwm" -> TikWM
      [] provider.name = "fxtwitter" -> FxTwitter
      [] provider.name = "ssstik" -> SSSTik
      [] provider.name = "snapsave" -> SnapSave
      [] provider.name = "cobalt" -> Cobalt
      [] provider.name = "pinterest" -> Pinterest

-----------------------------------------------------------------------------
(* The calls. *)

\* endpoint, step: which request a call is at.  origin, secret, body: where the
\* request in flight goes, and whether credentials and a payload go with it;
\* authenticated: it began with credentials; hops: its redirects.  how, links,
\* good: the answer, the links still to probe, how many were sound; of: how many
\* there were.  error: first_error.  failed: the failures of its probes.
Fresh ==
    [at |-> "idle", endpoint |-> 1, step |-> 1, origin |-> 1, secret |-> FALSE,
     body |-> FALSE, authenticated |-> FALSE, hops |-> 0, how |-> "all",
     links |-> <<>>, good |-> 0, of |-> 0, error |-> None, failed |-> {},
     result |-> None]

(* Every variable keeps its type.                                             *)
TypeOK ==
    /\ provider \in [name : Served, key : BOOLEAN]
    /\ now \in 0 .. MaxNow
    /\ pace.holder \in Calls \cup {None} /\ pace.next \in Nat
    /\ Len(pace.waiters) = Cardinality({c \in Calls : call[c].at = "queued"})
    /\ \A c \in Calls :
         /\ begun[c] \in Nat \cup {None}
         /\ call[c].at \in {"idle", "queued", "paced", "asked", "probing", "done"}
         /\ call[c].origin \in Origins /\ call[c].hops \in 0 .. MaxRedirects
         /\ call[c].error \in Failures \cup {None}
         /\ call[c].good + Len(call[c].links) <= call[c].of

Init ==
    /\ provider \in [name : Served, key : BOOLEAN]
    /\ provider.key => provider.name = "cobalt"
    /\ now = 0
    /\ pace = [holder |-> None, waiters |-> <<>>, next |-> 0]
    /\ begun = [c \in Calls |-> None]
    /\ call = [c \in Calls |-> Fresh]

At(c, place) == call[c].at = place

\* A request of the call goes out, to its endpoint's own origin.
Sent(r, endpoint, step, cookie) ==
    [Fresh EXCEPT !.at = "asked", !.endpoint = endpoint, !.step = step,
                  !.origin = endpoint, !.body = HasBody(step),
                  !.secret = provider.key \/ cookie,
                  !.authenticated = provider.key \/ cookie]

Ended(r, result) == [r EXCEPT !.at = "done", !.result = result]

\* CobaltProvider.resolve_with goes on to the next endpoint, whatever failed;
\* the other providers have one.
Failed(r, error) ==
    IF r.endpoint = LastEndpoint THEN Ended(r, error) ELSE Sent(r, r.endpoint + 1, 1, FALSE)

Media(n) == [kind |-> "media", delay |-> None, n |-> n]

\* To the next link, or what the links came to.
Onward(r) ==
    CASE r.links # <<>> /\ Head(r.links) = "link" -> [r EXCEPT !.at = "probing"]
      [] r.links # <<>> /\ Head(r.links) # "link" -> Failed(r, Error("internal"))
      [] r.links = <<>> /\ r.good > 0 -> Ended(r, Media(r.good))
      [] r.links = <<>> /\ r.good = 0 -> Failed(r, r.error)

-----------------------------------------------------------------------------
(* OriginPacer.wait. *)

\* With the lock: sleep under it, or be let through and let it go.
Through(c, waiters) ==
    IF pace.next > now
      THEN /\ pace' = [pace EXCEPT !.holder = c, !.waiters = waiters]
           /\ call' = [call EXCEPT ![c].at = "paced"]
           /\ UNCHANGED begun
      ELSE /\ pace' = [holder |-> None, waiters |-> waiters, next |-> now + Interval]
           /\ begun' = [begun EXCEPT ![c] = now]
           /\ call' = [call EXCEPT ![c] = Sent(@, 1, 1, FALSE)]

\* resolve, for a request the provider supports.
Resolve(c) ==
    /\ At(c, "idle")
    /\ CASE ~Paced ->
              /\ call' = [call EXCEPT ![c] = Sent(@, 1, 1, FALSE)]
              /\ UNCHANGED <<pace, begun>>
         [] Paced /\ pace.holder = None /\ pace.waiters = <<>> -> Through(c, <<>>)
         [] OTHER ->
              /\ pace' = [pace EXCEPT !.waiters = Append(@, c)]
              /\ call' = [call EXCEPT ![c].at = "queued"]
              /\ UNCHANGED begun
    /\ UNCHANGED <<provider, now>>

\* asyncio.Lock wakes its first waiter.
LockGranted(c) ==
    /\ At(c, "queued") /\ pace.holder = None /\ Head(pace.waiters) = c
    /\ Through(c, Tail(pace.waiters))
    /\ UNCHANGED <<provider, now>>

Wakes(c) ==
    /\ At(c, "paced") /\ now >= pace.next
    /\ pace' = [pace EXCEPT !.holder = None, !.next = now + Interval]
    /\ begun' = [begun EXCEPT ![c] = now]
    /\ call' = [call EXCEPT ![c] = Sent(@, 1, 1, FALSE)]
    /\ UNCHANGED <<provider, now>>

Tick ==
    /\ Paced /\ now < MaxNow
    /\ now' = now + 1
    /\ UNCHANGED <<provider, pace, begun, call>>

-----------------------------------------------------------------------------
(* request_response, request_json and request_html. *)

Becomes(c, r) ==
    /\ call' = [call EXCEPT ![c] = r]
    /\ UNCHANGED <<provider, now, pace, begun>>

\* A redirect, of those that keep the method and the payload (307, 308) or of
\* the others.  Pinterest's page is fetched by a session that follows them.
Redirected(c) ==
    LET r == call[c] IN
    /\ At(c, "asked") /\ r.hops < MaxRedirects /\ provider.name # "pinterest"
    /\ \E origin \in Origins, keeps \in BOOLEAN :
         LET foreign == origin # r.origin IN
         Becomes(c, IF foreign /\ keeps /\ r.body
                    THEN Failed(r, Error("config"))
                    ELSE [r EXCEPT !.origin = origin, !.secret = @ /\ ~foreign,
                                   !.body = @ /\ keeps, !.hops = @ + 1])

\* No answer, or a redirect too many or to nowhere.
NoAnswer(c) == At(c, "asked") /\ Becomes(c, Failed(call[c], Error("transient")))

BadStatus(c) ==
    /\ At(c, "asked")
    /\ \E e \in IF provider.name = "pinterest" THEN PageRefusals
                ELSE Refusals(call[c].authenticated) :
         Becomes(c, Failed(call[c], e))

\* A challenge, or something else than was asked for.
Unreadable(c) == At(c, "asked") /\ Becomes(c, Failed(call[c], Error("transient")))

\* SSSTik's page: its form may be missing or lead elsewhere, and it may set a cookie.
FormFound(c) ==
    /\ At(c, "asked") /\ call[c].step < LastStep
    /\ \/ \E kind \in {"transient", "config"} : Becomes(c, Failed(call[c], Error(kind)))
       \/ \E cookie \in BOOLEAN : Becomes(c, Sent(call[c], 1, 2, cookie))

\* The answer of the last request.
Answered(c) ==
    /\ At(c, "asked") /\ call[c].step = LastStep
    /\ \/ \E e \in Answers \cap Failures : Becomes(c, Failed(call[c], e))
       \/ \E a \in Answers \ Failures :
            Becomes(c, Onward([call[c] EXCEPT !.how = a.how, !.links = a.links,
                                              !.of = Len(a.links)]))

-----------------------------------------------------------------------------
(* probe_candidate, link after link. *)

Popped(r) == [r EXCEPT !.links = Tail(@)]

Sound(c) ==
    LET r == [Popped(call[c]) EXCEPT !.good = @ + 1] IN
    /\ At(c, "probing")
    /\ Becomes(c, IF r.how = "preferred" THEN Ended(r, Media(1)) ELSE Onward(r))

\* One of several that are all needed.
NeededFails(c) ==
    /\ At(c, "probing") /\ call[c].how = "all"
    /\ \E e \in ProbeFailures : Becomes(c, Failed(Popped(call[c]), e))

\* One of SSSTik's, of which any will do.
OptionalFails(c) ==
    /\ At(c, "probing") /\ call[c].how = "any"
    /\ \E e \in ProbeFailures :
         LET error == IF call[c].error = None THEN e ELSE Combined(call[c].error, e)
         IN  Becomes(c, Onward([Popped(call[c]) EXCEPT !.error = error,
                                                      !.failed = @ \cup {e}]))

\* TikWM's better one, if the other may be tried in its place, or the last.
PreferredFails(c) ==
    /\ At(c, "probing") /\ call[c].how = "preferred"
    /\ \E e \in ProbeFailures :
         LET r == [Popped(call[c]) EXCEPT !.failed = @ \cup {e}] IN
         Becomes(c, CASE r.error # None -> Failed(r, Combined(r.error, e))
                      [] r.error = None /\ e.kind = "transient" /\ r.links # <<>> ->
                           Onward([r EXCEPT !.error = e])
                      [] OTHER -> Failed(r, e))

\* The race, its deadline or its caller cancels the call where it waits; the
\* pacer's lock is let go and its time left as it was.
Cancelled(c) ==
    /\ call[c].at \notin {"idle", "done"}
    /\ call' = [call EXCEPT ![c] = Ended(@, Error("cancelled"))]
    /\ pace' = [pace EXCEPT !.holder = IF @ = c THEN None ELSE @,
                            !.waiters = SelectSeq(@, LAMBDA w : w # c)]
    /\ UNCHANGED <<provider, now, begun>>

Next ==
    \/ Tick
    \/ \E c \in Calls :
         \/ Resolve(c) \/ LockGranted(c) \/ Wakes(c) \/ Redirected(c) \/ NoAnswer(c)
         \/ BadStatus(c) \/ Unreadable(c) \/ FormFound(c) \/ Answered(c) \/ Sound(c)
         \/ NeededFails(c) \/ OptionalFails(c) \/ PreferredFails(c) \/ Cancelled(c)

-----------------------------------------------------------------------------
(* Properties. *)

\* Two requests to a paced endpoint begin an interval apart, also when the call
\* between them is cancelled while it sleeps or queues.
RequestsAreSpaced ==
    \A c, d \in Calls :
      Paced /\ c # d /\ None \notin {begun[c], begun[d]} =>
        begun[c] - begun[d] >= Interval \/ begun[d] - begun[c] >= Interval

\* Credentials and a payload go to the endpoint they are for and nowhere else,
\* whatever redirects led there.
SecretsStayHome ==
    \A c \in Calls : At(c, "asked") /\ (call[c].secret \/ call[c].body) =>
      call[c].origin = call[c].endpoint

\* A resolution gives media or an error, never nothing; an album is whole.
NeverEmpty ==
    \A c \in Calls : At(c, "done") =>
      LET r == call[c] IN
      /\ r.result # None
      /\ r.result.kind = "media" =>
           r.result.n = (IF r.how = "all" THEN r.of ELSE r.good) /\ r.good > 0

\* When none of several links is sound, the failure can be retried if that of
\* one of them can, and not before the last of the times they asked for.
RetriesAreKept ==
    \A c \in Calls : At(c, "done") /\ call[c].failed # {} =>
      LET r == call[c]
          delays == {e.delay : e \in r.failed} \ {None}
      IN  r.result.kind \in {"transient", "permanent"} =>
            /\ r.result.kind = "transient" <=> \E e \in r.failed : e.kind = "transient"
            /\ r.result.delay = (IF delays = {} THEN None ELSE Max(delays))

\* No answer of a service that is sent neither credentials nor a payload can
\* switch its provider off (AUTH and CONFIG disable it for good), and Cobalt
\* gives up only after its last endpoint has failed.
OnlyTrustIsRevoked ==
    \A c \in Calls : At(c, "done") =>
      /\ call[c].result.kind \in {"auth", "config"} =>
           provider.name \in {"cobalt", "ssstik", "snapsave"}
      /\ call[c].result.kind \in Kinds => call[c].endpoint = LastEndpoint

ProvidersAreSafe ==
    /\ TypeOK /\ RequestsAreSpaced /\ SecretsStayHome /\ NeverEmpty
    /\ RetriesAreKept /\ OnlyTrustIsRevoked

=============================================================================
