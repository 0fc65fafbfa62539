----------------------------- MODULE MediaCache -----------------------------
(***************************************************************************)
(* The typed records of app/core/media_cache.py for one media request: its *)
(* metadata, its signed URL and its Telegram file id, in Redis or in the   *)
(* memory of the process.  In memory an operation never gives up the event *)
(* loop, its lock included, and is one step; in Redis each command is one, *)
(* and time passes and others act between them.                            *)
(***************************************************************************)
EXTENDS Integers, FiniteSets

CONSTANTS
    None,        \* no record, no answer
    Calls,       \* tasks that use the cache, one operation after the other
    Ttl,         \* of each record type, in seconds
    MaxEntries,  \* max_memory_entries
    MaxNow,      \* bound: ticks of the clock
    MaxPuts      \* bound: records written

Keys == {"metadata", "signed-url", "file-id"}

\* What the constants must satisfy.
CacheAssumption ==
    /\ {MaxEntries, MaxNow, MaxPuts} \subseteq Nat /\ Ttl \in [Keys -> Nat]
    /\ None \notin [n : 1 .. MaxPuts, good : BOOLEAN, dies : Int, until : Int]
    /\ None \notin [n : Int, dies : Int, at : Int]

\* Ticks in a second: expiries are finer than the TTLs of Redis.
Second == 2

VARIABLES
    redis,    \* the backend
    now,      \* the clock
    rec,      \* the record of each key
    puts,     \* history: records written, which numbers them
    gone,     \* history: records that evict_delivery has removed
    call      \* the operation of each task

vars == <<redis, now, rec, puts, gone, call>>

Ceil(ticks) == (ticks + Second - 1) \div Second
Least(a, b) == IF a < b THEN a ELSE b
Most(a, b) == IF a < b THEN b ELSE a

Records == [n : 1 .. MaxPuts, good : BOOLEAN, dies : Int, until : Int]
Idle == [pc |-> "idle", key |-> "metadata", got |-> None, since |-> {}, out |-> None]

(* Every variable keeps its type, and memory its bound (max_memory_entries). *)
TypeOK ==
    /\ redis \in BOOLEAN /\ now \in 0 .. MaxNow /\ puts \in 0 .. MaxPuts
    /\ rec \in [Keys -> Records \cup {None}]
    /\ gone \subseteq 1 .. puts
    /\ \A c \in Calls :
          /\ call[c].pc \in {"idle", "touch", "answer", "delete", "evict", "set"}
          /\ call[c].key \in Keys /\ call[c].since \subseteq gone
          /\ call[c].got \in Records \cup {None}
    /\ ~redis => Cardinality({k \in Keys : rec[k] # None}) <= MaxEntries

Init ==
    /\ redis \in BOOLEAN /\ now = 0 /\ puts = 0
    /\ rec = [k \in Keys |-> None]
    /\ gone = {}
    /\ call = [c \in Calls |-> Idle]

At(c, pc) == call[c].pc = pc
Key(c) == call[c].key

Present(k) == rec[k] # None /\ rec[k].until > now

\* A record that cannot be decoded, or a URL that has expired by now.
Bad(k, r) == ~r.good \/ (k = "signed-url" /\ r.dies <= now)

\* The task's get is answered: with r at this moment, or with nothing.
Answered(c, r) ==
    [call EXCEPT ![c] = IF r = None THEN Idle
        ELSE [Idle EXCEPT !.key = Key(c), !.since = call[c].since,
                 !.out = [n |-> r.n, dies |-> r.dies, at |-> now]]]

Touched(k) == [rec EXCEPT ![k].until = now + Second * Ttl[k]]

-----------------------------------------------------------------------------
(* get_metadata, get_signed_url, get_delivery. *)

Begin(c, k, pc, got) ==
    call' = [call EXCEPT ![c] =
        [pc |-> pc, key |-> k, got |-> got, since |-> gone, out |-> None]]

\* In memory: the record is dropped if it is over or bad, touched if it is a
\* file id, and returned.
GetMemory(c, k) ==
    LET ok == Present(k) /\ ~Bad(k, rec[k]) IN
    /\ ~redis /\ At(c, "idle")
    /\ call' = [call EXCEPT ![c] = IF ~ok THEN Idle
          ELSE [Idle EXCEPT !.key = k, !.since = gone,
                   !.out = [n |-> rec[k].n, dies |-> rec[k].dies, at |-> now]]]
    /\ rec' = IF ~ok THEN [rec EXCEPT ![k] = None]
              ELSE IF k = "file-id" THEN Touched(k) ELSE rec
    /\ UNCHANGED <<redis, now, puts, gone>>

\* Redis GET.
Get(c, k) ==
    /\ redis /\ At(c, "idle")
    /\ IF Present(k) THEN Begin(c, k, IF k = "file-id" THEN "touch" ELSE "answer", rec[k])
       ELSE call' = [call EXCEPT ![c] = Idle]
    /\ UNCHANGED <<redis, now, rec, puts, gone>>

\* Fault: the life of the file id is prolonged by writing it again.
TouchRewriting(c) ==
    /\ At(c, "touch")
    /\ rec' = [rec EXCEPT !["file-id"] = [call[c].got EXCEPT !.until = now + Second * Ttl["file-id"]]]
    /\ call' = [call EXCEPT ![c].pc = "answer"]
    /\ UNCHANGED <<redis, now, puts, gone>>

\* Redis EXPIRE, of whatever the key holds by then; of nothing, and the get
\* finds nothing.
Touch(c) ==
    /\ At(c, "touch")
    /\ IF Present(Key(c))
       THEN rec' = Touched(Key(c)) /\ call' = [call EXCEPT ![c].pc = "answer"]
       ELSE call' = Answered(c, None) /\ UNCHANGED rec
    /\ UNCHANGED <<redis, now, puts, gone>>

\* The answer is decoded and its expiry looked at.
Decode(c) ==
    /\ At(c, "answer")
    /\ call' = IF Bad(Key(c), call[c].got) THEN [call EXCEPT ![c].pc = "delete"]
               ELSE Answered(c, call[c].got)
    /\ UNCHANGED <<redis, now, rec, puts, gone>>

-----------------------------------------------------------------------------
(* _delete: of a bad record by its reader, or evict_delivery. *)

Delete(c) ==
    /\ At(c, "delete") \/ At(c, "evict")
    /\ rec' = [rec EXCEPT ![Key(c)] = None]
    /\ call' = Answered(c, None)
    /\ gone' = IF At(c, "evict") /\ rec[Key(c)] # None THEN gone \cup {rec[Key(c)].n} ELSE gone
    /\ UNCHANGED <<redis, now, puts>>

\* Telegram refused the id: it is evicted.
Evict(c) ==
    /\ At(c, "idle")
    /\ IF redis THEN Begin(c, "file-id", "evict", None) /\ UNCHANGED <<rec, gone>>
       ELSE /\ rec' = [rec EXCEPT !["file-id"] = None]
            /\ gone' = IF rec["file-id"] # None THEN gone \cup {rec["file-id"].n} ELSE gone
            /\ UNCHANGED call
    /\ UNCHANGED <<redis, now, puts>>

-----------------------------------------------------------------------------
(* put_metadata, put_signed_url, put_delivery. *)

\* The TTL of a URL is cut to what is left of it, in whole seconds.
Life(k, dies) ==
    IF k = "signed-url" THEN Most(1, Least(Ttl[k], Ceil(dies - now))) ELSE Ttl[k]

\* The expired go, then the one that expires first if the cache is full.
Room(k) ==
    LET live == {j \in Keys : Present(j)}
        full == k \notin live /\ Cardinality(live) >= MaxEntries
        drops == {D \in SUBSET live : IF full THEN Cardinality(D) = 1 ELSE D = {}} IN
    {live \ D : D \in {E \in drops :
        \A d \in E, j \in live : rec[d].until <= rec[j].until}}

\* _set; a URL that is over is deleted instead.
PutMemory(c, k) ==
    /\ ~redis /\ At(c, "idle") /\ puts < MaxPuts
    /\ puts' = puts + 1
    /\ \E dies \in {now, now + 1, now + 3}, kept \in Room(k) :
          rec' = IF k = "signed-url" /\ dies <= now THEN [rec EXCEPT ![k] = None]
                 ELSE [j \in Keys |->
                    IF j = k THEN [n |-> puts + 1, good |-> TRUE, dies |-> dies,
                                   until |-> now + Second * Life(k, dies)]
                    ELSE IF j \in kept THEN rec[j] ELSE None]
    /\ UNCHANGED <<redis, now, gone, call>>

\* The command leaves with the TTL worked out now.
Put(c, k) ==
    /\ redis /\ At(c, "idle") /\ puts < MaxPuts
    /\ puts' = puts + 1
    /\ \E dies \in {now, now + 1, now + 3} :
          Begin(c, k, IF k = "signed-url" /\ dies <= now THEN "delete" ELSE "set",
                [n |-> puts + 1, good |-> TRUE, dies |-> dies, until |-> Life(k, dies)])
    /\ UNCHANGED <<redis, now, rec, gone>>

\* Redis SET, with the TTL from then on.
Set(c) ==
    /\ At(c, "set")
    /\ rec' = [rec EXCEPT ![Key(c)] = [call[c].got EXCEPT !.until = now + Second * @]]
    /\ call' = Answered(c, None)
    /\ UNCHANGED <<redis, now, puts, gone>>

-----------------------------------------------------------------------------
(* The surroundings. *)

\* Another release left a record that this one cannot decode.
Junk(k) ==
    /\ redis /\ puts < MaxPuts /\ puts' = puts + 1
    /\ rec' = [rec EXCEPT ![k] = [n |-> puts + 1, good |-> FALSE, dies |-> now,
                                  until |-> now + Second * Ttl[k]]]
    /\ UNCHANGED <<redis, now, gone, call>>

\* Redis fails or the task is cancelled; the command has been executed
\* (the task's own step) or never will be.
Fails(c) ==
    /\ ~At(c, "idle")
    /\ call' = Answered(c, None)
    /\ UNCHANGED <<redis, now, rec, puts, gone>>

Tick ==
    /\ now < MaxNow /\ now' = now + 1
    /\ UNCHANGED <<redis, rec, puts, gone, call>>

Step(c) == Touch(c) \/ Decode(c) \/ Delete(c) \/ Set(c)

Next ==
    \/ \E c \in Calls :
          \/ Step(c) \/ Evict(c) \/ Fails(c)
          \/ \E k \in Keys : GetMemory(c, k) \/ Get(c, k) \/ PutMemory(c, k) \/ Put(c, k)
    \/ \E k \in Keys : Junk(k)
    \/ Tick

Spec == Init /\ [][Next]_vars /\ \A c \in Calls : WF_vars(Step(c))

-----------------------------------------------------------------------------
(* Properties. *)

(* A file id that was evicted before a get began is not what it returns: the *)
(* longer life a reader gives to its record never brings back one that       *)
(* Telegram has refused meanwhile (_get, evict_delivery).                    *)
EvictedStaysGone ==
    \A c \in Calls : call[c].out # None => call[c].out.n \notin call[c].since

(* A URL that is returned has not expired, although its record may outlive   *)
(* it: by the rounding of its TTL, and in Redis by the way of the command.   *)
UrlsAreAlive ==
    /\ \A c \in Calls : Key(c) = "signed-url" /\ call[c].out # None =>
          call[c].out.dies > call[c].out.at
    /\ ~redis /\ rec["signed-url"] # None =>
          rec["signed-url"].until < rec["signed-url"].dies + Second

(* The cache's records: bounded, alive and gone when evicted.                *)
CacheIsSafe == TypeOK /\ EvictedStaysGone /\ UrlsAreAlive

\* The task waits for Redis.
Waits(c) == ~At(c, "idle")
=============================================================================
