----------------------------- MODULE RateLimits -----------------------------
(***************************************************************************)
(* The rate limiters of app/core/limiter.py, as a handler meets them: the  *)
(* bucket of the user, then that of the chat.  Buckets live in the memory  *)
(* of the process, where a check is one step, or in Redis, where a script  *)
(* counts with the clock its caller read before the command left.  A token *)
(* is Cost units, and a unit is what a bucket regains in a tick.           *)
(***************************************************************************)
EXTENDS Integers

CONSTANTS
    None,        \* no bucket
    Tasks,       \* handlers
    Capacity,    \* units in a full bucket, no fewer than Early + Late
    Cost,        \* units a check takes
    Early,       \* a process's clock is ahead by this at most
    Late,        \* a script runs with a time this old at most
    IdleFloor,   \* the least _max_idle_sec
    PruneEvery,  \* _prune_interval
    MaxOwed,     \* bound: units a key owes at most
    MaxNow       \* bound: ticks of the clock

\* What the constants must satisfy: a bucket is not refilled by the difference
\* of two clocks alone.
LimitsAssumption ==
    /\ {Capacity, Cost, Early, Late, IdleFloor, PruneEvery, MaxOwed, MaxNow} \subseteq Nat
    /\ Early + Late <= Capacity
    /\ None \notin [tokens : Nat, at : Nat, until : Nat]

VARIABLES
    redis,      \* the limiters in use
    now,        \* the clock
    bucket,     \* what each key's bucket holds, as of when; in Redis, until when
    lastPrune,  \* _last_prune
    credit,     \* history: units an ideal bucket of each key would hold, were it to
                \* pay for every pass
    owed,       \* history: units passed without an answer from Redis that the real
                \* bucket did not give, until the ideal one is full again
    unfair,     \* history: memory refused a check although its key had credit
    task        \* the check each handler is at

vars == <<redis, now, bucket, lastPrune, credit, owed, unfair, task>>

User == 1
Chat == 2
Keys == {User, Chat}

Least(a, b) == IF a < b THEN a ELSE b
Most(a, b) == IF a < b THEN b ELSE a

\* _max_idle_sec and the script's ttl.
MaxIdle == Most(IdleFloor, 2 * Capacity)
Life == 2 * Capacity

\* An ideal bucket may be ahead by what the times sent to Redis differ.
Slack == IF redis THEN Early + Late ELSE 0

Init ==
    /\ redis \in BOOLEAN /\ now = 0 /\ lastPrune = 0 /\ unfair = FALSE
    /\ bucket = [k \in Keys |-> None]
    /\ credit = [k \in Keys |-> Capacity + Slack] /\ owed = [k \in Keys |-> 0]
    /\ task = [h \in Tasks |-> User]

(* Every variable keeps its type; a bucket is never overfull. *)
TypeOK ==
    /\ redis \in BOOLEAN /\ now \in 0 .. MaxNow /\ lastPrune \in 0 .. now
    /\ unfair \in BOOLEAN
    /\ bucket \in [Keys -> {None} \cup
          [tokens : 0 .. Capacity, at : 0 .. now + Early, until : 0 .. now + Life]]
    /\ credit \in [Keys -> Int] /\ owed \in [Keys -> 0 .. MaxOwed]
    /\ task \in [Tasks -> Keys]

\* The bucket of k as a check that reads the clock as t finds it: a new one is
\* full, an old one has regained what the time gives, a newer one nothing.
Refilled(k, t) ==
    LET b == bucket[k] IN
    IF b = None \/ (redis /\ b.until <= now) THEN [tokens |-> Capacity, at |-> t]
    ELSE [tokens |-> Least(Capacity, b.tokens + Most(0, t - b.at)), at |-> Most(b.at, t)]

\* The tokens suffice, and what remains of the bucket then.
Grants(k, t) == Refilled(k, t).tokens >= Cost
Charged(k, t) ==
    [tokens |-> Refilled(k, t).tokens - (IF Grants(k, t) THEN Cost ELSE 0),
     at |-> Refilled(k, t).at, until |-> IF redis THEN now + Life ELSE 0]

\* allow(k) at time t for h: the ideal bucket pays for what is granted, and the
\* handler goes from the user to the chat, or to its next message.
Check(h, k, t) ==
    /\ credit' = [credit EXCEPT ![k] = IF Grants(k, t) THEN @ - Cost ELSE @]
    /\ task' = [task EXCEPT ![h] = IF Grants(k, t) /\ k = User THEN Chat ELSE User]

\* Fault: the idle time looks at the floor only.
IdleByFloor(k) == bucket[k] # None /\ now - bucket[k].at > IdleFloor

Idle(k) == bucket[k] # None /\ now - bucket[k].at > MaxIdle

\* The limiter in memory: allow and _maybe_prune.
CheckMemory(h, k) ==
    LET prune == now - lastPrune >= PruneEvery IN
    /\ ~redis /\ task[h] = k
    /\ Check(h, k, now)
    /\ bucket' = [j \in Keys |-> IF j = k THEN Charged(k, now)
                                 ELSE IF prune /\ Idle(j) THEN None ELSE bucket[j]]
    /\ lastPrune' = IF prune THEN now ELSE lastPrune
    /\ unfair' = (unfair \/ (~Grants(k, now) /\ credit[k] >= Cost))
    /\ UNCHANGED <<redis, now, owed>>

\* What a caller's clock may have read by the time Redis runs its script.
Times == (Most(0, now - Late)) .. (now + Early)

\* LUA_SCRIPT, for a caller that sent t.
Script(h, k, t) ==
    /\ redis /\ task[h] = k
    /\ Check(h, k, t)
    /\ bucket' = [bucket EXCEPT ![k] = Charged(k, t)]
    /\ UNCHANGED <<redis, now, lastPrune, owed, unfair>>

\* Redis does not answer, and the check is passed, be there a token or not; the
\* script has been executed, or never will be.
FailOpen(h, k, t) ==
    /\ redis /\ task[h] = k
    /\ credit' = [credit EXCEPT ![k] = @ - Cost]
    /\ task' = [task EXCEPT ![h] = IF k = User THEN Chat ELSE User]
    /\ \/ /\ bucket' = [bucket EXCEPT ![k] = Charged(k, t)]
          /\ owed' = [owed EXCEPT ![k] = IF Grants(k, t) THEN @ ELSE @ + Cost]
       \/ /\ owed' = [owed EXCEPT ![k] = @ + Cost]
          /\ UNCHANGED bucket
    /\ owed'[k] <= MaxOwed
    /\ UNCHANGED <<redis, now, lastPrune, unfair>>

Tick ==
    /\ now < MaxNow /\ now' = now + 1
    /\ credit' = [k \in Keys |-> Least(Capacity + Slack, credit[k] + 1)]
    /\ owed' = [k \in Keys |-> Least(owed[k], Capacity + Slack - credit'[k])]
    /\ UNCHANGED <<redis, bucket, lastPrune, unfair, task>>

Next ==
    \/ \E h \in Tasks, k \in Keys :
          \/ CheckMemory(h, k)
          \/ \E t \in Times : Script(h, k, t) \/ FailOpen(h, k, t)
    \/ Tick

Spec == Init /\ [][Next]_vars

-----------------------------------------------------------------------------
(* Properties. *)

(* The checks a key passes within any span of time are no more than its      *)
(* capacity and what the time and the callers' clocks give, but for those    *)
(* that Redis does not answer: these pass with or without a token, are not   *)
(* bounded, and are all that the key's ideal bucket can be overdrawn by.  A  *)
(* bucket that is forgotten for idleness or by its TTL, a clock that is      *)
(* behind and a script that runs late are no gifts.  In memory every check   *)
(* has its answer, and nobody is refused what is left.                       *)
LimitsHold ==
    /\ TypeOK
    /\ \A k \in Keys : credit[k] + owed[k] >= 0 /\ (~redis => owed[k] = 0)
    /\ ~unfair
=============================================================================
