------------------------------- MODULE FileIds -------------------------------
(***************************************************************************)
(* Sending media by cached Telegram file ids (services/media/delivery.py,  *)
(* MediaPipeline._deliver_cached, core/media_cache.py). A request for a    *)
(* public post is answered from the ids earlier deliveries left; an id that*)
(* Telegram no longer takes, a record that ran out or cannot be read and a *)
(* failing cache make it upload instead. Every cache call is an await:     *)
(* another request for the same post may read, store or evict in between.  *)
(* RetryControl has the buttons that repeat a failed delivery.             *)
(***************************************************************************)
EXTENDS Integers, FiniteSets, FiniteSetsExt

CONSTANTS
    Requests,     \* requests for one post, each to its own chat
    Items,        \* items of the post, in order: 1 .. n
    Album,        \* the items Telegram takes in one album; the others go alone
    MaxIds,       \* bound: uploads of an item whose id is remembered
    MaxAges,      \* bound: records that run out and ids that die
    MaxFaults     \* bound: failing sends, opens and cache calls

\* What the constants must satisfy.
IdsAssumption ==
    /\ Items \subseteq Nat /\ 1 \in Items
    /\ MaxIds \in Nat \ {0} /\ {MaxAges, MaxFaults} \subseteq Nat

VARIABLES
    req,          \* each request
    cache,        \* each item's record: an id, None or Junk
    metadata,     \* the post's cardinality is cached
    ids,          \* each item's ids so far
    dead,         \* <<item, id>> Telegram no longer takes
    faults, ages

vars == <<req, cache, metadata, ids, dead, faults, ages>>

None == 0
Junk == MaxIds + 1
Passes == {"cached", "first", "again"}
Places == {"idle", "look", "prepare", "send", "evict", "store", "open", "over", "raised"}

(* Every variable keeps its type.                                          *)
TypeOK ==
    /\ req \in [Requests -> [at : Places, pass : Passes, left : SUBSET Items, unit : SUBSET Items,
                             todo : SUBSET Items, force : BOOLEAN, media : [Items -> 0 .. MaxIds],
                             result : [Items -> {"none", "shown", "unsure", "failed"}],
                             copies : [Items -> 0 .. 2], hurt : BOOLEAN]]
    /\ cache \in [Items -> 0 .. Junk] /\ metadata \in BOOLEAN
    /\ ids \in [Items -> 0 .. MaxIds]
    /\ dead \subseteq Items \X (1 .. MaxIds)
    /\ faults \in 0 .. MaxFaults /\ ages \in 0 .. MaxAges

Init ==
    /\ req = [r \in Requests |-> [at |-> "idle", pass |-> "cached", left |-> {}, unit |-> {}, todo |-> {},
                                  force |-> FALSE, media |-> [i \in Items |-> None],
                                  result |-> [i \in Items |-> "none"],
                                  copies |-> [i \in Items |-> 0], hurt |-> FALSE]]
    /\ metadata \in BOOLEAN
    /\ cache \in {[i \in Items |-> None], [i \in Items |-> 1], [i \in Items |-> IF i = 1 THEN Junk ELSE 1]}
    /\ ids = [i \in Items |-> 1]
    /\ dead \in {{}, {<<1, 1>>}} /\ faults = 0 /\ ages = 0

Fault == faults < MaxFaults /\ faults' = faults + 1
First(todo) == Min(todo)

(* _delivery_units: the next album or single item of those left.           *)
NextUnit(left) == IF First(left) \in Album THEN left \cap Album ELSE {First(left)}

(* deliver() begins the unit with its first item.                          *)
Begin(q, left) ==
    [q EXCEPT !.at = "prepare", !.left = left, !.unit = NextUnit(left), !.todo = NextUnit(left),
              !.force = FALSE, !.media = [i \in Items |-> None]]

(* A pass over the items: the cached one returns a receipt without failed  *)
(* items; otherwise the media is opened and the failed ones are repeated,  *)
(* once after a first upload.                                              *)
Failed(q) == {i \in Items : q.result[i] = "failed"}
Over(q, place) ==
    [q EXCEPT !.at = place, !.pass = "again", !.left = {}, !.unit = {}, !.force = FALSE,
              !.media = [i \in Items |-> None]]
PassEndsTrusting(q) == Over(q, "over")
PassEnds(q) ==
    IF Failed(q) = {} \/ q.pass = "again" THEN Over(q, "over")
    ELSE IF q.pass = "cached" THEN [q EXCEPT !.at = "open", !.pass = "again"]
    ELSE Begin([q EXCEPT !.pass = "again"], Failed(q))

UnitEnds(q) ==
    LET rest == q.left \ q.unit IN IF rest = {} THEN PassEnds(q) ELSE Begin(q, rest)

(* The unit's items all get one verdict.                                   *)
Verdict(q, result) == UnitEnds([q EXCEPT !.result = [i \in Items |->
                                   IF i \in q.unit THEN result ELSE @[i]]])

(* What get_delivery returns: an unreadable record is deleted, a failing   *)
(* cache is a miss.                                                        *)
Lookup(i, id) ==
    \/ cache[i] \in 1 .. MaxIds /\ id = cache[i] /\ UNCHANGED <<cache, faults>>
    \/ cache[i] = None /\ id = None /\ UNCHANGED <<cache, faults>>
    \/ cache[i] = Junk /\ id = None /\ cache' = [cache EXCEPT ![i] = None] /\ UNCHANGED faults
    \/ Fault /\ id = None /\ UNCHANGED cache

(* A post of unknown cardinality has no cached pass: an album's first id is*)
(* no proof that the others are cached.                                    *)
Start(r) ==
    /\ req[r].at = "idle"
    /\ req' = [req EXCEPT ![r] = IF metadata THEN [@ EXCEPT !.at = "look", !.todo = Items]
                                             ELSE [@ EXCEPT !.at = "open", !.pass = "first"]]
    /\ UNCHANGED <<cache, metadata, ids, dead, faults, ages>>

(* _deliver_cached looks every item up; a miss goes to the media.          *)
Look(r) ==
    LET q == req[r]  i == First(q.todo) IN
    /\ q.at = "look"
    /\ \E id \in 0 .. MaxIds :
        /\ Lookup(i, id)
        /\ req' = [req EXCEPT ![r] =
               IF id = None THEN [q EXCEPT !.at = "open", !.pass = "first"]
               ELSE IF q.todo = {i} THEN Begin(q, Items)
               ELSE [q EXCEPT !.todo = @ \ {i}]]
    /\ UNCHANGED <<metadata, ids, dead, ages>>

(* The post's cardinality is stored when its media is resolved, if it can. *)
Metadata == \E stored \in {TRUE, metadata} : metadata' = stored

(* open_materialized stores the cardinality and gives every item a file, or*)
(* raises. The pass after it repeats what the cached pass left failed.     *)
Open(r) ==
    LET q == req[r] IN
    /\ q.at = "open"
    /\ \/ /\ req' = [req EXCEPT ![r] = Begin(q, IF q.pass = "again" THEN Failed(q) ELSE Items)]
          /\ Metadata
          /\ UNCHANGED faults
       \/ /\ Fault
          /\ req' = [req EXCEPT ![r] = Over([req[r] EXCEPT !.hurt = TRUE], "raised")]
          /\ UNCHANGED metadata
    /\ UNCHANGED <<cache, ids, dead, ages>>

(* _prepare: an id if the cache has one and the unit is not forced to      *)
(* upload, else the file; the cached pass has no file, and one item without*)
(* media fails the unit it belongs to.                                     *)
Prepare(r) ==
    LET q == req[r]  i == First(q.todo) IN
    /\ q.at = "prepare"
    /\ \E id \in 0 .. MaxIds :
        /\ IF q.force THEN id = None /\ UNCHANGED <<cache, faults>> ELSE Lookup(i, id)
        /\ LET got == [q EXCEPT !.media[i] = id, !.todo = @ \ {i}] IN
           req' = [req EXCEPT ![r] =
               IF got.todo # {} THEN got
               ELSE IF q.pass = "cached" /\ \E j \in q.unit : got.media[j] = None
                    THEN Verdict(got, "failed")
                    ELSE [got EXCEPT !.at = "send"]]
    /\ UNCHANGED <<metadata, ids, dead, ages>>

SentById(q) == {i \in q.unit : q.media[i] # None}
Shown(q, shown) == [q EXCEPT !.copies = [i \in Items |-> @[i] + (IF i \in shown THEN 1 ELSE 0)]]

(* Telegram takes the unit. An album's answer may lack its last messages:  *)
(* those items are uncertain.                                              *)
Accepted(r) ==
    LET q == req[r] IN
    /\ q.at = "send"
    /\ \A i \in SentById(q) : <<i, q.media[i]>> \notin dead
    /\ \E told \in SUBSET q.unit :
        /\ \A i \in told, j \in q.unit \ told : i < j
        /\ IF told = q.unit THEN UNCHANGED faults ELSE Cardinality(q.unit) > 1 /\ Fault
        /\ LET shown == [Shown(q, q.unit) EXCEPT !.result = [i \in Items |->
                            IF i \in told THEN "shown" ELSE IF i \in q.unit THEN "unsure" ELSE @[i]]]
           IN req' = [req EXCEPT ![r] = IF told = {} THEN UnitEnds(shown)
                                        ELSE [shown EXCEPT !.at = "store", !.todo = told]]
    /\ UNCHANGED <<cache, metadata, ids, dead, ages>>

(* Telegram refuses an id: all cached ids of the unit are evicted and the  *)
(* unit is prepared again as an upload.                                    *)
RefusesId(r) ==
    LET q == req[r] IN
    /\ q.at = "send"
    /\ \E i \in SentById(q) : <<i, q.media[i]>> \in dead
    /\ req' = [req EXCEPT ![r] = [q EXCEPT !.at = "evict", !.todo = SentById(q), !.force = TRUE]]
    /\ UNCHANGED <<cache, metadata, ids, dead, faults, ages>>

(* A rate limit or another refusal: nothing was shown. A network error:    *)
(* nobody knows.                                                           *)
SendFails(r) ==
    LET q == req[r] IN
    /\ q.at = "send" /\ Fault
    /\ \/ req' = [req EXCEPT ![r] = Verdict([q EXCEPT !.hurt = TRUE], "failed")]
       \/ \E shown \in {{}, q.unit} : req' = [req EXCEPT ![r] = Verdict(Shown(q, shown), "unsure")]
    /\ UNCHANGED <<cache, metadata, ids, dead, ages>>

(* The record is deleted whatever id it holds by now; a failing cache keeps*)
(* it.                                                                     *)
Evict(r) ==
    LET q == req[r]  i == First(q.todo) IN
    /\ q.at = "evict"
    /\ \/ cache' = [cache EXCEPT ![i] = None] /\ UNCHANGED faults
       \/ Fault /\ UNCHANGED cache
    /\ req' = [req EXCEPT ![r] = IF q.todo = {i} THEN [q EXCEPT !.at = "prepare", !.todo = q.unit]
                                 ELSE [q EXCEPT !.todo = @ \ {i}]]
    /\ UNCHANGED <<metadata, ids, dead, ages>>

(* Each message's id is stored: the one sent by, or the upload's new one.  *)
Store(r) ==
    LET q == req[r]  i == First(q.todo) IN
    /\ q.at = "store"
    /\ \E id \in 0 .. MaxIds :
        /\ \/ q.media[i] # None /\ id = q.media[i] /\ UNCHANGED ids
           \/ q.media[i] = None /\ ids[i] < MaxIds /\ id = ids[i] + 1 /\ ids' = [ids EXCEPT ![i] = id]
           \/ q.media[i] = None /\ ids[i] = MaxIds /\ id = None /\ UNCHANGED ids
        /\ \/ /\ cache' = IF id = None THEN cache ELSE [cache EXCEPT ![i] = id]
              /\ UNCHANGED faults
           \/ Fault /\ UNCHANGED cache
    /\ req' = [req EXCEPT ![r] = IF q.todo = {i} THEN UnitEnds([q EXCEPT !.todo = {}])
                                 ELSE [q EXCEPT !.todo = @ \ {i}]]
    /\ UNCHANGED <<metadata, dead, ages>>

(* Records run out, and Telegram stops taking an id.                       *)
Ages == ages < MaxAges /\ ages' = ages + 1
Expires ==
    /\ Ages
    /\ \/ \E i \in Items : cache[i] # None /\ cache' = [cache EXCEPT ![i] = None] /\ UNCHANGED metadata
       \/ metadata /\ metadata' = FALSE /\ UNCHANGED cache
    /\ UNCHANGED <<req, ids, dead, faults>>
IdDies ==
    /\ Ages
    /\ \E i \in Items : \E id \in 1 .. ids[i] : <<i, id>> \notin dead /\ dead' = dead \cup {<<i, id>>}
    /\ UNCHANGED <<req, cache, metadata, ids, faults>>

Step(r) ==
    \/ Look(r) \/ Open(r) \/ Prepare(r) \/ Accepted(r) \/ RefusesId(r)
    \/ SendFails(r) \/ Evict(r) \/ Store(r)

Next ==
    \/ \E r \in Requests :
        \/ Start(r) \/ Look(r) \/ Open(r) \/ Prepare(r) \/ Accepted(r) \/ RefusesId(r)
        \/ SendFails(r) \/ Evict(r) \/ Store(r)
    \/ Expires \/ IdDies

Spec == Init /\ [][Next]_vars /\ \A r \in Requests : WF_vars(Step(r))

(* No fallback sends an item again that Telegram may have shown: only a    *)
(* refusal is answered with an upload, never a lost answer.                *)
NoItemTwice == \A r \in Requests, i \in Items : req[r].copies[i] <= 1

(* A receipt's success was shown and its failure was not.                  *)
HonestReceipts ==
    \A r \in Requests, i \in Items :
        /\ req[r].result[i] = "shown" => req[r].copies[i] = 1
        /\ req[r].result[i] = "failed" => req[r].copies[i] = 0

(* The cache is only an acceleration: dead ids, unreadable and vanishing   *)
(* records and a failing cache never make a delivery fail, only Telegram's *)
(* refusals and the media itself do (media_cache.py, delivery.py).         *)
CacheCostsNothing ==
    \A r \in Requests :
        req[r].at = "raised" \/ (req[r].at = "over" /\ Failed(req[r]) # {}) => req[r].hurt

(* The conjunction the runs check.                                         *)
FileIdsAreSafe == TypeOK /\ NoItemTwice /\ HonestReceipts /\ CacheCostsNothing

\* The delivery has begun and has neither answered nor raised.
Waits(r) == req[r].at \notin {"idle", "over", "raised"}
============================================================================
