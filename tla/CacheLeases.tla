---------------------------- MODULE CacheLeases ----------------------------
(***************************************************************************)
(* The lease of one key of app/core/media_cache.py: RedisLeaseManager,     *)
(* whose commands and scripts Redis executes one at a time while their     *)
(* callers wait, and MemoryLeaseManager, whose operations are one step.  A *)
(* caller counts on the lease for its TTL from the moment it asked.        *)
(***************************************************************************)
EXTENDS Integers

CONSTANTS
    None,       \* nobody, no token
    Tasks,      \* the callers
    Ttl,        \* of the leases asked for
    MaxNow,     \* bound: ticks of the clock
    MaxTokens   \* bound: owner tokens made

\* What the constants must satisfy.
HoldsAssumption ==
    /\ None \notin Nat
    /\ {Ttl, MaxNow, MaxTokens} \subseteq Nat

VARIABLES
    redis,    \* the manager
    now,      \* the clock
    lease,    \* the record of the key: its owner and when it expires
    tokens,   \* owner tokens made so far
    task      \* of each caller: what it waits for, its token, since when it
              \* waits and until when it counts on the lease

vars == <<redis, now, lease, tokens, task>>

Free == [owner |-> None, until |-> 0]

Init ==
    /\ redis \in BOOLEAN /\ now = 0 /\ tokens = 0
    /\ lease = Free
    /\ task = [t \in Tasks |-> [pc |-> "idle", owner |-> None, asked |-> 0, until |-> 0]]

(* Every variable keeps its type, and no token is made twice. *)
TypeOK ==
    /\ redis \in BOOLEAN /\ now \in 0 .. MaxNow /\ tokens \in 0 .. MaxTokens
    /\ lease \in [owner : (1 .. tokens) \cup {None}, until : 0 .. MaxNow + Ttl]
    /\ \A t \in Tasks :
          /\ task[t].pc \in {"idle", "acquire", "renew", "release"}
          /\ task[t].owner \in (1 .. tokens) \cup {None}
          /\ task[t].asked <= now /\ task[t].until <= now + Ttl

Alive == lease.owner # None /\ lease.until > now
Owned(t) == Alive /\ lease.owner = task[t].owner

\* When an operation of t counts from: in memory, where it is one step, now.
AskedAt(t) == IF redis THEN task[t].asked ELSE now

\* The caller goes on, counting on the lease until u.
Told(t, owner, u) ==
    task' = [task EXCEPT ![t] = [pc |-> "idle", owner |-> owner, asked |-> 0, until |-> u]]

\* The command leaves; only whoever has a token renews or releases.
Ask(t, op) ==
    /\ redis /\ task[t].pc = "idle"
    /\ op = "acquire" <=> task[t].owner = None
    /\ task' = [task EXCEPT ![t].pc = op, ![t].asked = now]
    /\ UNCHANGED <<redis, now, lease, tokens>>

\* The operation is executed: what t asked Redis for, or what it calls now.
Turn(t, op) ==
    IF redis THEN task[t].pc = op
    ELSE task[t].pc = "idle" /\ (op = "acquire" <=> task[t].owner = None)

\* SET key owner NX PX ttl.
Acquire(t) ==
    /\ Turn(t, "acquire") /\ tokens < MaxTokens
    /\ tokens' = tokens + 1
    /\ IF Alive THEN Told(t, None, 0) /\ UNCHANGED lease
       ELSE /\ lease' = [owner |-> tokens + 1, until |-> now + Ttl]
            /\ Told(t, tokens + 1, AskedAt(t) + Ttl)
    /\ UNCHANGED <<redis, now>>

\* COMPARE_AND_RENEW_LUA.
Renew(t) ==
    /\ Turn(t, "renew")
    /\ IF Owned(t)
       THEN /\ lease' = [lease EXCEPT !.until = now + Ttl]
            /\ Told(t, task[t].owner, AskedAt(t) + Ttl)
       ELSE Told(t, None, 0) /\ UNCHANGED lease
    /\ UNCHANGED <<redis, now, tokens>>

\* Fault: the key is deleted whoever owns it.
ReleaseAny(t) ==
    /\ Turn(t, "release")
    /\ lease' = Free
    /\ Told(t, None, 0)
    /\ UNCHANGED <<redis, now, tokens>>

\* COMPARE_AND_DELETE_LUA.
Release(t) ==
    /\ Turn(t, "release")
    /\ lease' = IF Owned(t) THEN Free ELSE lease
    /\ Told(t, None, 0)
    /\ UNCHANGED <<redis, now, tokens>>

\* The connection fails, and with it the call; the command has been executed
\* (an acquired lease expires by itself) or never will be.
Fails(t) ==
    /\ task[t].pc # "idle"
    /\ \/ task[t].pc = "acquire" /\ ~Alive /\ tokens < MaxTokens
          /\ tokens' = tokens + 1 /\ lease' = [owner |-> tokens + 1, until |-> now + Ttl]
       \/ task[t].pc = "renew" /\ Owned(t)
          /\ lease' = [lease EXCEPT !.until = now + Ttl] /\ UNCHANGED tokens
       \/ task[t].pc = "release" /\ Owned(t) /\ lease' = Free /\ UNCHANGED tokens
       \/ UNCHANGED <<tokens, lease>>
    /\ IF task[t].pc = "release" THEN Told(t, None, 0)
       ELSE Told(t, task[t].owner, task[t].until)
    /\ UNCHANGED <<redis, now>>

Tick ==
    /\ now < MaxNow /\ now' = now + 1
    /\ UNCHANGED <<redis, lease, tokens, task>>

Step(t) == Acquire(t) \/ Renew(t) \/ Release(t)

Next ==
    \/ \E t \in Tasks :
          \/ Step(t) \/ Fails(t)
          \/ \E op \in {"acquire", "renew", "release"} : Ask(t, op)
    \/ Tick

Spec == Init /\ [][Next]_vars

-----------------------------------------------------------------------------

\* A caller that is releasing counts on nothing any more.
Counts(t) == task[t].pc # "release" /\ task[t].until > now

(* No two callers count on the lease at the same time, and whoever does has  *)
(* it, however late commands run, whatever answers are lost and whoever      *)
(* releases after its own lease has expired (the owner tokens).              *)
LeasesAreExclusive ==
    /\ TypeOK
    /\ \A t \in Tasks : Counts(t) => Owned(t)
    /\ \A t, u \in Tasks : Counts(t) /\ Counts(u) => t = u
=============================================================================
