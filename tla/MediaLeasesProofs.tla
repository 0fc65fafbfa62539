--------------------------- MODULE MediaLeasesProofs ---------------------------
(***************************************************************************)
(* The leases of app/core/resource_budget.py protect the files of any      *)
(* number of downloads from any number of janitors, for every deadline and *)
(* renewal interval within LeaseAssumption: the theorems about MediaLeases.*)
(*                                                                         *)
(* The argument.  A path is ahead of its download while the download may   *)
(* still work under its lock.  A lock on such a path is never older than   *)
(* the download's timer, so no janitor ever finds it stale or breaks it,   *)
(* and a janitor in its locked code there has the lock.  It can therefore  *)
(* delete only what it has seen without an active lease, while a file that *)
(* is counted on has a lease whose time left and the time since its last   *)
(* renewal add up to the full time.                                        *)
(***************************************************************************)
EXTENDS MediaLeases, TLAPS

\* The variables of the disk, the downloads and the janitors keep their types.
DiskType ==
    /\ file \in [Paths -> [bytes : 0 .. MaxBytes, age : Nat] \cup {None}]
    /\ marker \in [Paths -> [owner : Downloads, left : 0 .. Ttl] \cup {None}]
    /\ lock \in [Paths -> [by : Downloads \cup Processes, age : Nat] \cup {None}]
    /\ tmp \in [Paths -> Nat \cup {None}]
    /\ at \in [Downloads -> {"new", "reserved", "stream", "fetched", "ready",
                             "releasing", "over"} \cup Sections]
    /\ leg \in [Downloads -> {1, 2}]
    /\ timer \in [Downloads -> Nat]
    /\ janitor \in [Processes -> {Idle} \cup
          [at : {"try", "stale", "retry", "inside", "delete"}, path : Paths,
           what : {"file", "marker", "lock", "tmp"}, urgent : BOOLEAN]]

\* From the reservation until the item is handed over.
Making == {"reserved", "binding", "stream", "promoting", "fetched", "clean", "cleaning"}

\* The paths a download may still lock.
Ahead(d) ==
    {p \in PathsOf(d) : \/ at[d] \in {"new"} \cup Making
                        \/ at[d] \in {"ready", "renewing"} /\ p = Full(d)}

\* Nobody knows the names of a download that has not begun.
Untouched(d) ==
    at[d] = "new" =>
        /\ timer[d] = 0 /\ leg[d] = 1
        /\ \A p \in PathsOf(d) :
              /\ file[p] = None /\ marker[p] = None /\ lock[p] = None /\ tmp[p] = None
              /\ \A w \in Processes : janitor[w].at # "idle" => janitor[w].path # p

\* No lock on a path that is ahead is older than the work of its download.
LocksAreYoung(d) ==
    /\ at[d] \in Making => timer[d] <= Deadline
    /\ at[d] \in {"ready", "renewing"} => timer[d] <= RenewEvery
    /\ \A p \in Ahead(d) : lock[p] # None => lock[p].age <= timer[d]
    /\ at[d] \in {"promoting", "fetched", "clean", "cleaning"} /\ lock[Full(d)] # None
          => lock[Full(d)].age = 0

\* Locked code of a download has its locks.
LocksAreHeld(d) ==
    /\ \A p \in PathsOf(d) : lock[p] # None => lock[p].by \in {d} \cup Processes
    /\ \A p \in Locking(d) : lock[p] # None /\ lock[p].by = d /\ lock[p].age = 0

\* A janitor breaks no lock on a path that is ahead, has the lock in its locked
\* code, and deletes what has no active lease.
JanitorsBehave(d) ==
    \A p \in Ahead(d) : \A w \in Processes :
        /\ janitor[w].at = "stale" => janitor[w].path # p
        /\ janitor[w].at \in {"inside", "delete"} /\ janitor[w].path = p =>
              lock[p] # None /\ lock[p].by = w
        /\ janitor[w].at = "delete" /\ janitor[w].path = p
              /\ janitor[w].what \in {"file", "marker"} => ~Active(p)

\* The file p is there, with a lease that was full t ago.
Leased(p, t) == file[p] # None /\ marker[p] # None /\ marker[p].left + t >= Ttl

\* What a download counts on is leased for as long as it may need it.
NeededAreLeased(d) ==
    /\ at[d] = "reserved" => leg[d] = 1
    /\ at[d] \in {"clean", "cleaning"} => leg[d] = 2
    /\ at[d] = "promoting" => file[Part(d)] # None /\ timer[d] < Deadline
    /\ at[d] \in {"fetched", "clean", "cleaning"} => Leased(Full(d), 0)
    /\ at[d] \in {"ready", "renewing"} => Leased(Full(d), timer[d])
    /\ at[d] \in {"binding", "stream", "promoting"} /\ leg[d] = 2 /\ timer[d] < Deadline
          => Leased(Source(d), timer[d])

Safe(d) ==
    /\ Untouched(d)
    /\ LocksAreYoung(d)
    /\ LocksAreHeld(d)
    /\ JanitorsBehave(d)
    /\ NeededAreLeased(d)

LeaseInv == DiskType /\ \A d \in Downloads : Safe(d)

-----------------------------------------------------------------------------

(* The paths of a download are its own, and those of its two legs differ.    *)
LEMMA PathFacts ==
  ASSUME NEW d \in Downloads, DiskType
  PROVE  /\ Part(d) \in PathsOf(d) /\ Full(d) \in PathsOf(d) /\ Source(d) \in PathsOf(d)
         /\ <<d, 2, "part">> \in PathsOf(d)
         /\ PathsOf(d) \subseteq Paths
         /\ Part(d) # Full(d) /\ Part(d) # Source(d)
         /\ leg[d] = 1 => Full(d) = Source(d) /\ Part(d) # <<d, 2, "part">>
         /\ leg[d] = 2 => Full(d) # Source(d) /\ Part(d) = <<d, 2, "part">>
         /\ \A e \in Downloads : e # d => PathsOf(d) \cap PathsOf(e) = {}
<1>1. leg[d] \in {1, 2}
  BY DEF DiskType
<1>2. {<<d, l, x>> : l \in {1, 2}, x \in {"part", "full"}} \subseteq PathsOf(d)
  BY DEF PathsOf, Paths
<1>3. /\ Part(d) \in PathsOf(d) /\ Full(d) \in PathsOf(d) /\ Source(d) \in PathsOf(d)
      /\ <<d, 2, "part">> \in PathsOf(d)
  BY <1>1, <1>2 DEF Part, Full, Source
<1>4. Part(d) # Full(d) /\ Part(d) # Source(d)
  BY DEF Part, Full, Source
<1>5. /\ leg[d] = 1 => Full(d) = Source(d) /\ Part(d) # <<d, 2, "part">>
      /\ leg[d] = 2 => Full(d) # Source(d) /\ Part(d) = <<d, 2, "part">>
  BY DEF Part, Full, Source
<1>. QED
  BY <1>3, <1>4, <1>5 DEF PathsOf

(* A download is as safe as before when nothing of its own has changed.      *)
LEMMA Elsewhere ==
  ASSUME NEW d \in Downloads, DiskType, Safe(d),
         at'[d] = at[d], leg'[d] = leg[d], timer'[d] = timer[d],
         \A p \in PathsOf(d) : /\ file'[p] = file[p] /\ marker'[p] = marker[p]
                               /\ lock'[p] = lock[p] /\ tmp'[p] = tmp[p],
         \A w \in Processes : janitor'[w] \in {janitor[w], Idle}
  PROVE  Safe(d)'
<1>1. /\ Part(d)' = Part(d) /\ Full(d)' = Full(d) /\ Source(d)' = Source(d)
      /\ PathsOf(d)' = PathsOf(d) /\ Paths' = Paths
  BY DEF Part, Full, Source, PathsOf, Paths
<1>0. Part(d) \in PathsOf(d) /\ Full(d) \in PathsOf(d) /\ Source(d) \in PathsOf(d)
  BY PathFacts
<1>2. Ahead(d)' = Ahead(d) /\ Ahead(d) \subseteq PathsOf(d)
  BY <1>1 DEF Ahead
<1>3. Locking(d)' = Locking(d) /\ Locking(d) \subseteq PathsOf(d)
  BY <1>0, <1>1 DEF Locking
<1>4. \A p \in PathsOf(d) : Active(p)' = Active(p)
  BY DEF Active
<1>5. \A t \in Nat : \A p \in PathsOf(d) : Leased(p, t)' = Leased(p, t)
  BY DEF Leased
<1>6. Untouched(d)'
  BY <1>1 DEF Safe, Untouched, Idle
<1>7. LocksAreYoung(d)'
  BY <1>0, <1>1, <1>2 DEF Safe, LocksAreYoung
<1>8. LocksAreHeld(d)'
  BY <1>1, <1>3 DEF Safe, LocksAreHeld
<1>9. JanitorsBehave(d)'
  BY <1>2, <1>4 DEF Safe, JanitorsBehave, Idle
<1>10. NeededAreLeased(d)'
  BY <1>0, <1>1, <1>5 DEF Safe, NeededAreLeased, DiskType
<1>. QED
  BY <1>6, <1>7, <1>8, <1>9, <1>10 DEF Safe

(* Under the invariant, a file that is counted on is there and no janitor is *)
(* in its locked code where a download is in its own.                        *)
LEMMA SafeImpliesFilesStay ==
  ASSUME LeaseAssumption, LeaseInv
  PROVE  FilesStay
<1>0. DiskType
  BY DEF LeaseInv
<1>1. ASSUME NEW d \in Downloads, NEW p \in Needed(d)
      PROVE  file[p] # None
  BY <1>1 DEF LeaseInv, Safe, NeededAreLeased, Leased, Needed, DiskType
<1>2. ASSUME NEW d \in Downloads, NEW w \in Processes,
             Job(w).at \in {"inside", "delete"}, Job(w).path \in Locking(d)
      PROVE  FALSE
  <2>0. Part(d) \in PathsOf(d) /\ Full(d) \in PathsOf(d) /\ Source(d) \in PathsOf(d)
    BY <1>2, <1>0, PathFacts
  <2>1. Job(w).path \in Ahead(d)
    BY <1>2, <2>0 DEF Locking, Ahead, Making
  <2>2. lock[Job(w).path] # None /\ lock[Job(w).path].by = w
    BY <1>2, <2>1 DEF LeaseInv, Safe, JanitorsBehave, Job
  <2>3. lock[Job(w).path].by = d
    BY <1>2 DEF LeaseInv, Safe, LocksAreHeld
  <2>. QED
    BY <2>2, <2>3 DEF LeaseAssumption
<1>. QED
  BY <1>1, <1>2 DEF FilesStay, NeededFilesStay, OwnersExcludeJanitors

(* Nothing is on the disk at first.                                          *)
LEMMA InitLeases ==
  ASSUME LeaseAssumption, Init
  PROVE  LeaseInv
<1>1. DiskType
  BY DEF LeaseAssumption, Init, DiskType, Idle, Sections
<1>2. ASSUME NEW d \in Downloads
      PROVE  Safe(d)
  <2>1. PathsOf(d) \subseteq Paths /\ Locking(d) = {} /\ Ahead(d) \subseteq PathsOf(d)
    BY DEF PathsOf, Locking, Init, Ahead
  <2>2. Untouched(d) /\ LocksAreYoung(d) /\ LocksAreHeld(d) /\ NeededAreLeased(d)
    BY <1>1, <2>1, PathFacts
    DEF Init, Untouched, LocksAreYoung, LocksAreHeld, NeededAreLeased, Idle, Making
  <2>3. JanitorsBehave(d)
    BY DEF Init, JanitorsBehave, Idle
  <2>. QED
    BY <2>2, <2>3 DEF Safe
<1>. QED
  BY <1>1, <1>2 DEF LeaseInv

-----------------------------------------------------------------------------
(* The steps of a download.                                                  *)

(* A step of one download, which changes nothing of the others, keeps the    *)
(* invariant if that download stays safe and the variables keep their types. *)
LEMMA OnlyMine ==
  ASSUME LeaseAssumption, LeaseInv, NEW d \in Downloads, DiskType', Safe(d)',
         \A e \in Downloads : e # d =>
            /\ at'[e] = at[e] /\ leg'[e] = leg[e] /\ timer'[e] = timer[e]
            /\ \A p \in PathsOf(e) : /\ file'[p] = file[p] /\ marker'[p] = marker[p]
                                     /\ lock'[p] = lock[p] /\ tmp'[p] = tmp[p],
         janitor' = janitor
  PROVE  LeaseInv'
<1>1. ASSUME NEW e \in Downloads, e # d
      PROVE  Safe(e)'
  BY <1>1, Elsewhere DEF LeaseInv
<1>2. \A e \in Downloads : Safe(e)'
  BY <1>1
<1>3. Downloads' = Downloads
  OBVIOUS
<1>. QED
  BY <1>2 DEF LeaseInv

(* ReturnLocks gives back the locks of a download, and no other.             *)
LEMMA ReturnedLocks ==
  ASSUME LeaseAssumption, LeaseInv, NEW d \in Downloads, ReturnLocks(d)
  PROVE  /\ lock' \in [Paths -> [by : Downloads \cup Processes, age : Nat] \cup {None}]
         /\ \A p \in Locking(d) : lock'[p] = None
         /\ \A p \in Paths : lock'[p] # None => lock'[p] = lock[p] /\ lock[p].by # d
         /\ \A p \in Paths : lock[p] # None /\ lock[p].by \in Processes => lock'[p] = lock[p]
         /\ \A e \in Downloads : e # d => \A p \in PathsOf(e) : lock'[p] = lock[p]
<1>1. \A p \in Paths : lock'[p] = IF lock[p] # None /\ lock[p].by = d THEN None ELSE lock[p]
  BY DEF ReturnLocks
<1>2. lock' \in [Paths -> [by : Downloads \cup Processes, age : Nat] \cup {None}]
  BY DEF ReturnLocks, LeaseInv, DiskType
<1>3. /\ Part(d) \in PathsOf(d) /\ Full(d) \in PathsOf(d) /\ Source(d) \in PathsOf(d)
      /\ PathsOf(d) \subseteq Paths
  <2>1. DiskType
    BY DEF LeaseInv
  <2>. QED
    BY <2>1, PathFacts
<1>4. \A p \in Locking(d) : p \in Paths /\ lock'[p] = None
  <2>1. Locking(d) \subseteq Paths
    BY <1>3 DEF Locking
  <2>. QED
    BY <1>1, <2>1 DEF LeaseInv, Safe, LocksAreHeld
<1>5. ASSUME NEW e \in Downloads, e # d, NEW p \in PathsOf(e)
      PROVE  lock'[p] = lock[p]
  <2>1. p \in Paths
    BY <1>5 DEF PathsOf
  <2>2. lock[p] # None => lock[p].by # d
    BY <1>5 DEF LeaseInv, Safe, LocksAreHeld, LeaseAssumption
  <2>. QED
    BY <1>1, <2>1, <2>2
<1>. QED
  BY <1>1, <1>2, <1>4, <1>5 DEF LeaseAssumption

(* reserve: the download begins, or is over at once.                         *)
LEMMA ReserveInv ==
  ASSUME LeaseAssumption, LeaseInv, NEW d \in Downloads, Reserve(d)
  PROVE  LeaseInv'
<1>1. /\ at[d] = "new" /\ \E x \in {"reserved", "over"} : at' = [at EXCEPT ![d] = x]
      /\ UNCHANGED <<file, marker, lock, tmp, leg, timer, janitor>>
  BY DEF Reserve, Go, disk
<1>2. DiskType'
  BY <1>1 DEF LeaseInv, DiskType
<1>3. at'[d] \in {"reserved", "over"} /\ \A e \in Downloads : e # d => at'[e] = at[e]
  BY <1>1 DEF LeaseInv, DiskType
<1>4. Untouched(d) /\ PathsOf(d)' = PathsOf(d) /\ PathsOf(d) \subseteq Paths
      /\ Ahead(d)' \subseteq PathsOf(d)
  BY DEF LeaseInv, Safe, PathsOf, Ahead, Paths
<1>5. timer[d] = 0 /\ leg[d] = 1 /\ \A p \in PathsOf(d) : lock[p] = None
      /\ \A w \in Processes : janitor[w].at # "idle" => janitor[w].path \notin PathsOf(d)
  BY <1>1, <1>4 DEF Untouched
<1>6. Untouched(d)'
  BY <1>3 DEF Untouched
<1>7. LocksAreYoung(d)'
  BY <1>1, <1>3, <1>4, <1>5 DEF LocksAreYoung, Making, LeaseAssumption
<1>8. LocksAreHeld(d)'
  BY <1>1, <1>3, <1>4, <1>5 DEF LocksAreHeld, Locking
<1>9. JanitorsBehave(d)'
  BY <1>1, <1>4, <1>5 DEF JanitorsBehave
<1>10. NeededAreLeased(d)'
  BY <1>1, <1>3, <1>5 DEF NeededAreLeased
<1>11. Safe(d)'
  BY <1>6, <1>7, <1>8, <1>9, <1>10 DEF Safe
<1>. QED
  BY <1>1, <1>2, <1>3, <1>11, OnlyMine

(* A download that is being released, or is over, is safe.                   *)
LEMMA GoneIsSafe ==
  ASSUME NEW d \in Downloads, LeaseInv, at'[d] \in {"releasing", "over"},
         \A p \in PathsOf(d) : lock'[p] = lock[p]
  PROVE  Safe(d)'
<1>1. PathsOf(d)' = PathsOf(d) /\ Ahead(d)' = {} /\ Locking(d)' = {}
  BY DEF PathsOf, Ahead, Making, Locking
<1>2. Untouched(d)' /\ JanitorsBehave(d)' /\ NeededAreLeased(d)'
  BY <1>1 DEF Untouched, JanitorsBehave, NeededAreLeased
<1>3. LocksAreYoung(d)'
  BY <1>1 DEF LocksAreYoung, Making
<1>4. LocksAreHeld(d)'
  BY <1>1 DEF LocksAreHeld, LeaseInv, Safe
<1>. QED
  BY <1>2, <1>3, <1>4 DEF Safe

(* An error path removes the download's files and nobody else's.             *)
LEMMA AbandonInv ==
  ASSUME LeaseAssumption, LeaseInv, NEW d \in Downloads, Abandon(d),
         leg' = leg, UNCHANGED <<marker, lock, tmp, timer, janitor>>
  PROVE  LeaseInv'
<1>1. /\ file' = [p \in Paths |-> IF p \in PathsOf(d) THEN None ELSE file[p]]
      /\ at' = [at EXCEPT ![d] = "releasing"]
  BY DEF Abandon, Go
<1>2. DiskType'
  BY <1>1 DEF LeaseInv, DiskType
<1>3. at'[d] = "releasing" /\ \A e \in Downloads : e # d => at'[e] = at[e]
  BY <1>1 DEF LeaseInv, DiskType
<1>4. Safe(d)'
  BY <1>3, GoneIsSafe
<1>5. \A e \in Downloads : e # d => \A p \in PathsOf(e) : file'[p] = file[p]
  BY <1>1 DEF PathsOf
<1>. QED
  BY <1>2, <1>3, <1>4, <1>5, OnlyMine

(* TakeFree: the locks that were free are the download's, and new.           *)
LEMMA TakenLocks ==
  ASSUME LeaseAssumption, LeaseInv, NEW d \in Downloads, NEW paths, NEW section \in Sections,
         paths \subseteq PathsOf(d), TakeFree(d, paths, section)
  PROVE  /\ lock' \in [Paths -> [by : Downloads \cup Processes, age : Nat] \cup {None}]
         /\ \A p \in paths : lock[p] = None
         /\ \A p \in paths : lock'[p] # None /\ lock'[p].by = d /\ lock'[p].age = 0
         /\ \A p \in Paths : p \notin paths => lock'[p] = lock[p]
         /\ \A e \in Downloads : e # d => \A p \in PathsOf(e) : lock'[p] = lock[p]
         /\ at' \in [Downloads -> {"new", "reserved", "stream", "fetched", "ready",
                                   "releasing", "over"} \cup Sections]
         /\ at'[d] = section /\ \A e \in Downloads : e # d => at'[e] = at[e]
         /\ file' = file
         /\ \A p \in paths : \A w \in Processes :
               p \in Ahead(d) => ~(janitor[w].at \in {"inside", "delete"} /\ janitor[w].path = p)
<1>1. /\ \A p \in paths : lock[p] = None
      /\ lock' = [p \in Paths |-> IF p \in paths THEN [by |-> d, age |-> 0] ELSE lock[p]]
      /\ at' = [at EXCEPT ![d] = section] /\ file' = file
  BY DEF TakeFree, Go
<1>2. [by |-> d, age |-> 0] \in [by : Downloads \cup Processes, age : Nat]
  OBVIOUS
<1>3. [by |-> d, age |-> 0] # None
  BY <1>2 DEF LeaseAssumption
<1>4. lock' \in [Paths -> [by : Downloads \cup Processes, age : Nat] \cup {None}]
  BY <1>1, <1>2 DEF LeaseInv, DiskType
<1>5. paths \subseteq Paths /\ \A e \in Downloads : e # d => PathsOf(e) \cap paths = {}
        /\ PathsOf(e) \subseteq Paths
  BY DEF PathsOf
<1>6. at \in [Downloads -> {"new", "reserved", "stream", "fetched", "ready",
                            "releasing", "over"} \cup Sections]
  BY DEF LeaseInv, DiskType
<1>7. \A p \in paths : lock'[p] # None /\ lock'[p].by = d /\ lock'[p].age = 0
  BY <1>1, <1>3, <1>5
<1>8. /\ \A p \in Paths : p \notin paths => lock'[p] = lock[p]
      /\ \A e \in Downloads : e # d => \A p \in PathsOf(e) : lock'[p] = lock[p]
  BY <1>1, <1>5
<1>9. \A p \in paths : \A w \in Processes :
         p \in Ahead(d) => ~(janitor[w].at \in {"inside", "delete"} /\ janitor[w].path = p)
  BY <1>1 DEF LeaseInv, Safe, JanitorsBehave
<1>10. /\ at' \in [Downloads -> {"new", "reserved", "stream", "fetched", "ready",
                                 "releasing", "over"} \cup Sections]
       /\ at'[d] = section /\ \A e \in Downloads : e # d => at'[e] = at[e]
  BY <1>1, <1>6
<1>. QED
  BY <1>1, <1>4, <1>7, <1>8, <1>9, <1>10

(* bind takes the lock of a new name, for the source or for the transform.   *)
LEMMA BindInv ==
  ASSUME LeaseAssumption, LeaseInv, NEW d \in Downloads, Bind(d)
  PROVE  LeaseInv'
<1>0. DiskType /\ Safe(d)
  BY DEF LeaseInv
<1>1. UNCHANGED <<marker, tmp, timer, janitor>> /\ timer[d] < Deadline
  BY DEF Bind
<1>2. CASE /\ at[d] = "reserved" /\ leg' = leg
           /\ TakeFree(d, {Part(d)}, "binding")
  <2>1. /\ Part(d) \in PathsOf(d) /\ Full(d) \in PathsOf(d) /\ Source(d) \in PathsOf(d)
        /\ PathsOf(d) \subseteq Paths
    BY <1>0, PathFacts
  <2>2. Part(d)' = Part(d) /\ Full(d)' = Full(d) /\ PathsOf(d)' = PathsOf(d)
        /\ leg[d] = 1 /\ Ahead(d) = PathsOf(d) /\ "binding" \in Sections
    BY <1>0, <1>2 DEF Part, Full, PathsOf, Paths, Safe, NeededAreLeased, Ahead, Making, Sections
  <2>3. /\ at'[d] = "binding" /\ file' = file
        /\ \A e \in Downloads : e # d => at'[e] = at[e] /\ \A p \in PathsOf(e) : lock'[p] = lock[p]
        /\ lock'[Part(d)] # None /\ lock'[Part(d)].by = d /\ lock'[Part(d)].age = 0
        /\ \A p \in PathsOf(d) : p # Part(d) => lock'[p] = lock[p]
        /\ \A w \in Processes :
              ~(janitor[w].at \in {"inside", "delete"} /\ janitor[w].path = Part(d))
        /\ DiskType'
    BY <1>0, <1>1, <1>2, <2>1, <2>2, TakenLocks DEF DiskType
  <2>4. Locking(d)' = {Part(d)} /\ Ahead(d)' = PathsOf(d)
    BY <2>2, <2>3 DEF Locking, Ahead, Making
  <2>5. Untouched(d)' /\ NeededAreLeased(d)'
    BY <1>2, <2>2, <2>3 DEF Untouched, NeededAreLeased
  <2>6. LocksAreYoung(d)' 
    BY <1>0, <1>1, <1>2, <2>2, <2>3, <2>4 DEF Safe, LocksAreYoung, Making, DiskType
  <2>7. LocksAreHeld(d)'
    BY <1>0, <2>2, <2>3, <2>4 DEF Safe, LocksAreHeld
  <2>8. JanitorsBehave(d)'
    BY <1>0, <1>1, <2>2, <2>3, <2>4 DEF Safe, JanitorsBehave, Active
  <2>. QED
    BY <1>1, <1>2, <2>3, <2>5, <2>6, <2>7, <2>8, OnlyMine DEF Safe
<1>3. CASE /\ at[d] = "fetched" /\ leg[d] = 1 /\ leg' = [leg EXCEPT ![d] = 2]
           /\ TakeFree(d, {<<d, 2, "part">>}, "binding")
  <2>1. /\ Full(d) \in PathsOf(d) /\ Source(d) \in PathsOf(d) /\ Source(d) = Full(d)
        /\ <<d, 2, "part">> \in PathsOf(d) /\ PathsOf(d) \subseteq Paths
    BY <1>0, <1>3, PathFacts
  <2>2. Part(d)' = <<d, 2, "part">> /\ Source(d)' = Source(d) /\ PathsOf(d)' = PathsOf(d)
        /\ Ahead(d) = PathsOf(d) /\ "binding" \in Sections
    BY <1>0, <1>3 DEF Part, Source, PathsOf, Paths, Ahead, Making, Sections, DiskType
  <2> DEFINE q == <<d, 2, "part">>
  <2>0. {q} \subseteq PathsOf(d)
    BY <2>1
  <2> HIDE DEF q
  <2>12. TakeFree(d, {q}, "binding")
    BY <1>3 DEF q
  <2>3. /\ at'[d] = "binding" /\ file' = file
        /\ \A e \in Downloads : e # d => at'[e] = at[e] /\ \A p \in PathsOf(e) : lock'[p] = lock[p]
        /\ lock'[q] # None /\ lock'[q].by = d /\ lock'[q].age = 0
        /\ \A p \in PathsOf(d) : p # q => lock'[p] = lock[p]
        /\ \A w \in Processes :
              ~(janitor[w].at \in {"inside", "delete"} /\ janitor[w].path = q)
        /\ DiskType'
    <3>1. leg' \in [Downloads -> {1, 2}]
      BY <1>0, <1>3 DEF DiskType
    <3>. QED
      BY <1>0, <1>1, <2>0, <2>1, <2>12, <2>2, <3>1, TakenLocks DEF DiskType
  <2>4. Locking(d)' = {q} /\ Ahead(d)' = PathsOf(d)
    BY <2>2, <2>3 DEF Locking, Ahead, Making, q
  <2>5. Untouched(d)'
    BY <2>3 DEF Untouched
  <2>6. LocksAreYoung(d)' 
    BY <1>0, <1>1, <1>3, <2>2, <2>3, <2>4 DEF Safe, LocksAreYoung, Making, DiskType
  <2>7. LocksAreHeld(d)'
    BY <1>0, <2>2, <2>3, <2>4 DEF Safe, LocksAreHeld
  <2>8. JanitorsBehave(d)'
    BY <1>0, <1>1, <2>2, <2>3, <2>4 DEF Safe, JanitorsBehave, Active
  <2>9. Leased(Source(d), 0)
    BY <1>0, <1>3, <2>1 DEF Safe, NeededAreLeased
  <2>10. NeededAreLeased(d)'
    <3>1. Leased(Source(d), timer[d])'
      BY <1>0, <1>1, <1>3, <2>1, <2>2, <2>3, <2>9 DEF Leased, DiskType, LeaseAssumption
    <3>. QED
      BY <2>2, <2>3, <3>1, <1>3 DEF NeededAreLeased
  <2>11. \A e \in Downloads : e # d => leg'[e] = leg[e]
    BY <1>3, <1>0 DEF DiskType
  <2>. QED
    BY <1>1, <2>3, <2>5, <2>6, <2>7, <2>8, <2>10, <2>11, OnlyMine DEF Safe
<1>4. CASE Abandon(d) /\ UNCHANGED <<leg, lock>>
  BY <1>1, <1>4, AbandonInv
<1>. QED
  BY <1>2, <1>3, <1>4 DEF Bind

(* bind writes a full lease and returns the lock.                            *)
LEMMA EndBindInv ==
  ASSUME LeaseAssumption, LeaseInv, NEW d \in Downloads, EndBind(d)
  PROVE  LeaseInv'
<1>0. DiskType /\ Safe(d)
  BY DEF LeaseInv
<1>1. /\ at[d] = "binding" /\ at' = [at EXCEPT ![d] = "stream"]
      /\ marker' = [marker EXCEPT ![Part(d)] = Fresh(d)]
      /\ ReturnLocks(d) /\ UNCHANGED <<file, tmp, leg, timer, janitor>>
  BY DEF EndBind, Go
<1>2. /\ Part(d) \in PathsOf(d) /\ Full(d) \in PathsOf(d) /\ Source(d) \in PathsOf(d)
      /\ PathsOf(d) \subseteq Paths /\ Part(d) # Source(d)
      /\ \A e \in Downloads : e # d => PathsOf(d) \cap PathsOf(e) = {} /\ PathsOf(e) \subseteq Paths
  BY <1>0, PathFacts
<1>3. Full(d)' = Full(d) /\ Source(d)' = Source(d) /\ PathsOf(d)' = PathsOf(d)
  BY <1>1 DEF Full, Source, PathsOf, Paths
<1>4. /\ lock' \in [Paths -> [by : Downloads \cup Processes, age : Nat] \cup {None}]
      /\ \A p \in Locking(d) : lock'[p] = None
      /\ \A p \in Paths : lock'[p] # None => lock'[p] = lock[p] /\ lock[p].by # d
      /\ \A p \in Paths : lock[p] # None /\ lock[p].by \in Processes => lock'[p] = lock[p]
      /\ \A e \in Downloads : e # d => \A p \in PathsOf(e) : lock'[p] = lock[p]
  BY <1>1, ReturnedLocks
<1>5. Fresh(d) \in [owner : Downloads, left : 0 .. Ttl]
  BY DEF Fresh, LeaseAssumption
<1>6. DiskType'
  BY <1>0, <1>1, <1>4, <1>5 DEF DiskType
<1>7. /\ at'[d] = "stream" /\ Locking(d) = {Part(d)} /\ Locking(d)' = {}
      /\ Ahead(d) = PathsOf(d) /\ Ahead(d)' = PathsOf(d)
      /\ \A e \in Downloads : e # d => at'[e] = at[e]
  BY <1>0, <1>1, <1>3 DEF DiskType, Locking, Ahead, Making
<1>8. /\ \A p \in Paths : p # Part(d) => marker'[p] = marker[p]
      /\ \A e \in Downloads : e # d => \A p \in PathsOf(e) : marker'[p] = marker[p]
  BY <1>0, <1>1, <1>2 DEF DiskType
<1>9. Untouched(d)'
  BY <1>7 DEF Untouched
<1>10. LocksAreYoung(d)'
  BY <1>0, <1>1, <1>2, <1>3, <1>4, <1>7 DEF Safe, LocksAreYoung, Making
<1>11. LocksAreHeld(d)'
  BY <1>0, <1>2, <1>3, <1>4, <1>7 DEF Safe, LocksAreHeld
<1>12. JanitorsBehave(d)'
  <2>1. \A w \in Processes : ~(janitor[w].at \in {"inside", "delete"} /\ janitor[w].path = Part(d))
    BY <1>0, <1>2, <1>7 DEF Safe, LocksAreHeld, JanitorsBehave, LeaseAssumption
  <2>2. \A p \in PathsOf(d) : p # Part(d) => Active(p)' = Active(p)
    BY <1>2, <1>8 DEF Active
  <2>. QED
    BY <1>0, <1>1, <1>2, <1>4, <1>7, <2>1, <2>2 DEF Safe, JanitorsBehave
<1>13. NeededAreLeased(d)'
  BY <1>0, <1>1, <1>2, <1>3, <1>7, <1>8 DEF Safe, NeededAreLeased, Leased
<1>. QED
  BY <1>1, <1>4, <1>6, <1>7, <1>8, <1>9, <1>10, <1>11, <1>12, <1>13, OnlyMine DEF Safe

(* A chunk is written, or the download fails.                                *)
LEMMA WriteInv ==
  ASSUME LeaseAssumption, LeaseInv, NEW d \in Downloads, Write(d)
  PROVE  LeaseInv'
<1>0. DiskType /\ Safe(d)
  BY DEF LeaseInv
<1>1. CASE Abandon(d)
  BY <1>1, AbandonInv DEF Write
<1>2. CASE ~Abandon(d)
  <2>1. PICK n \in 1 .. MaxBytes : file' = [file EXCEPT ![Part(d)] = [bytes |-> n, age |-> 0]]
    <3>1. Bytes(Part(d)) \in Nat
      <4>1. Part(d) \in Paths
        BY <1>0, PathFacts
      <4>. QED
        BY <1>0, <4>1 DEF DiskType, Bytes, LeaseAssumption
    <3>. QED
      BY <1>2, <3>1 DEF Write, LeaseAssumption
  <2>2. UNCHANGED <<marker, lock, tmp, at, leg, timer, janitor>> /\ at[d] = "stream"
    BY <1>2 DEF Write
  <2>3. /\ Part(d) \in PathsOf(d) /\ Full(d) \in PathsOf(d) /\ Source(d) \in PathsOf(d)
        /\ PathsOf(d) \subseteq Paths /\ Part(d) # Source(d) /\ Part(d) # Full(d)
        /\ \A e \in Downloads : e # d => PathsOf(d) \cap PathsOf(e) = {} /\ PathsOf(e) \subseteq Paths
    BY <1>0, PathFacts
  <2>4. [bytes |-> n, age |-> 0] \in [bytes : 0 .. MaxBytes, age : Nat]
    BY <2>1 DEF LeaseAssumption
  <2>5. DiskType'
    BY <1>0, <2>1, <2>2, <2>4 DEF DiskType
  <2>6. /\ \A p \in Paths : p # Part(d) => file'[p] = file[p]
        /\ \A e \in Downloads : e # d => \A p \in PathsOf(e) : file'[p] = file[p]
    BY <1>0, <2>1, <2>3 DEF DiskType
  <2>7. /\ Part(d)' = Part(d) /\ Full(d)' = Full(d) /\ Source(d)' = Source(d)
        /\ PathsOf(d)' = PathsOf(d)
    BY <2>2 DEF Part, Full, Source, PathsOf, Paths
  <2>8. Ahead(d)' = Ahead(d) /\ Locking(d)' = {} /\ \A p \in Paths : Active(p)' = Active(p)
    BY <2>2, <2>7 DEF Ahead, Making, Locking, Active
  <2>9. Untouched(d)'
    BY <2>2 DEF Untouched
  <2>10. LocksAreYoung(d)'
    BY <1>0, <2>2, <2>7, <2>8 DEF Safe, LocksAreYoung, Making
  <2>11. LocksAreHeld(d)'
    BY <1>0, <2>2, <2>7, <2>8 DEF Safe, LocksAreHeld
  <2>12. JanitorsBehave(d)'
    <3>1. Ahead(d) \subseteq Paths
      BY <2>3 DEF Ahead
    <3>. QED
      BY <1>0, <2>2, <2>8, <3>1 DEF Safe, JanitorsBehave
  <2>13. NeededAreLeased(d)'
    BY <1>0, <2>2, <2>3, <2>6, <2>7 DEF Safe, NeededAreLeased, Leased
  <2>. QED
    BY <2>2, <2>5, <2>6, <2>9, <2>10, <2>11, <2>12, <2>13, OnlyMine DEF Safe
<1>. QED
  BY <1>1, <1>2

(* promote takes the locks of both names.                                    *)
LEMMA PromoteInv ==
  ASSUME LeaseAssumption, LeaseInv, NEW d \in Downloads, Promote(d)
  PROVE  LeaseInv'
<1>0. DiskType /\ Safe(d)
  BY DEF LeaseInv
<1>1. /\ UNCHANGED <<marker, tmp, leg, timer, janitor>>
      /\ at[d] = "stream" /\ timer[d] < Deadline /\ Bytes(Part(d)) > 0
      /\ \/ TakeFree(d, {Part(d), Full(d)}, "promoting")
         \/ Abandon(d) /\ UNCHANGED lock
  BY DEF Promote, TakeLocks
<1>2. CASE Abandon(d) /\ UNCHANGED lock
  BY <1>1, <1>2, AbandonInv
<1>3. CASE TakeFree(d, {Part(d), Full(d)}, "promoting")
  <2>1. /\ Part(d) \in PathsOf(d) /\ Full(d) \in PathsOf(d) /\ Source(d) \in PathsOf(d)
        /\ PathsOf(d) \subseteq Paths
    BY <1>0, PathFacts
  <2>10. {Part(d), Full(d)} \subseteq PathsOf(d)
    BY <2>1
  <2>2. /\ Part(d)' = Part(d) /\ Full(d)' = Full(d) /\ Source(d)' = Source(d)
        /\ PathsOf(d)' = PathsOf(d) /\ Ahead(d) = PathsOf(d) /\ "promoting" \in Sections
    BY <1>1 DEF Part, Full, Source, PathsOf, Paths, Ahead, Making, Sections
  <2>3. /\ at'[d] = "promoting" /\ file' = file
        /\ \A e \in Downloads : e # d => at'[e] = at[e] /\ \A p \in PathsOf(e) : lock'[p] = lock[p]
        /\ \A p \in {Part(d), Full(d)} :
              /\ lock'[p] # None /\ lock'[p].by = d /\ lock'[p].age = 0
              /\ \A w \in Processes : ~(janitor[w].at \in {"inside", "delete"} /\ janitor[w].path = p)
        /\ \A p \in PathsOf(d) : p \notin {Part(d), Full(d)} => lock'[p] = lock[p]
        /\ DiskType'
    BY <1>0, <1>1, <1>3, <2>1, <2>10, <2>2, TakenLocks DEF DiskType
  <2>4. Locking(d)' = {Part(d), Full(d)} /\ Ahead(d)' = PathsOf(d)
    BY <2>2, <2>3 DEF Locking, Ahead, Making
  <2>5. Untouched(d)'
    BY <2>3 DEF Untouched
  <2>6. LocksAreYoung(d)'
    BY <1>0, <1>1, <2>1, <2>2, <2>3, <2>4 DEF Safe, LocksAreYoung, Making, DiskType
  <2>7. LocksAreHeld(d)'
    BY <1>0, <2>2, <2>3, <2>4 DEF Safe, LocksAreHeld
  <2>8. JanitorsBehave(d)'
    BY <1>0, <1>1, <2>2, <2>3, <2>4 DEF Safe, JanitorsBehave, Active
  <2>9. NeededAreLeased(d)'
    BY <1>0, <1>1, <2>2, <2>3 DEF Safe, NeededAreLeased, Leased, Bytes
  <2>. QED
    BY <1>1, <2>3, <2>5, <2>6, <2>7, <2>8, <2>9, OnlyMine DEF Safe
<1>. QED
  BY <1>1, <1>2, <1>3

(* promote writes the new lease, renames the file and ends the old lease.    *)
LEMMA EndPromoteInv ==
  ASSUME LeaseAssumption, LeaseInv, NEW d \in Downloads, EndPromote(d)
  PROVE  LeaseInv'
<1>0. DiskType /\ Safe(d)
  BY DEF LeaseInv
<1>1. /\ at[d] = "promoting" /\ at' = [at EXCEPT ![d] = IF leg[d] = 1 THEN "fetched" ELSE "clean"]
      /\ marker' = [marker EXCEPT ![Full(d)] = Fresh(d), ![Part(d)] = None]
      /\ file' = [file EXCEPT ![Full(d)] = file[Part(d)], ![Part(d)] = None]
      /\ ReturnLocks(d) /\ UNCHANGED <<tmp, leg, timer, janitor>>
  BY DEF EndPromote, Go
<1>2. /\ Part(d) \in PathsOf(d) /\ Full(d) \in PathsOf(d)
      /\ PathsOf(d) \subseteq Paths /\ Part(d) # Full(d)
      /\ \A e \in Downloads : e # d => PathsOf(d) \cap PathsOf(e) = {} /\ PathsOf(e) \subseteq Paths
  BY <1>0, PathFacts
<1>3. Full(d)' = Full(d) /\ PathsOf(d)' = PathsOf(d)
  BY <1>1 DEF Full, PathsOf, Paths
<1>4. /\ lock' \in [Paths -> [by : Downloads \cup Processes, age : Nat] \cup {None}]
      /\ \A p \in Locking(d) : lock'[p] = None
      /\ \A p \in Paths : lock'[p] # None => lock'[p] = lock[p] /\ lock[p].by # d
      /\ \A p \in Paths : lock[p] # None /\ lock[p].by \in Processes => lock'[p] = lock[p]
      /\ \A e \in Downloads : e # d => \A p \in PathsOf(e) : lock'[p] = lock[p]
  BY <1>1, ReturnedLocks
<1>5. Fresh(d) \in [owner : Downloads, left : 0 .. Ttl] /\ Fresh(d) # None
  BY DEF Fresh, LeaseAssumption
<1>6. DiskType'
  <2>1. at' \in [Downloads -> {"new", "reserved", "stream", "fetched", "ready",
                               "releasing", "over"} \cup Sections]
    BY <1>0, <1>1 DEF DiskType, Sections
  <2>2. marker' \in [Paths -> [owner : Downloads, left : 0 .. Ttl] \cup {None}]
    BY <1>0, <1>1, <1>5 DEF DiskType
  <2>3. file' \in [Paths -> [bytes : 0 .. MaxBytes, age : Nat] \cup {None}]
    BY <1>0, <1>1, <1>2 DEF DiskType
  <2>. QED
    BY <1>0, <1>1, <1>4, <2>1, <2>2, <2>3 DEF DiskType
<1>7. /\ at'[d] = IF leg[d] = 1 THEN "fetched" ELSE "clean"
      /\ \A e \in Downloads : e # d => at'[e] = at[e]
  BY <1>0, <1>1 DEF DiskType
<1>8. /\ Locking(d) = {Part(d), Full(d)} /\ Locking(d)' = {}
      /\ Ahead(d) = PathsOf(d) /\ Ahead(d)' = PathsOf(d)
  BY <1>1, <1>3, <1>7 DEF Locking, Ahead, Making
<1>9. /\ \A p \in Paths : p \notin {Part(d), Full(d)} => marker'[p] = marker[p] /\ file'[p] = file[p]
      /\ \A e \in Downloads : e # d =>
            \A p \in PathsOf(e) : marker'[p] = marker[p] /\ file'[p] = file[p]
      /\ file'[Full(d)] = file[Part(d)] /\ marker'[Full(d)] = Fresh(d)
  <2>1. /\ \A p \in Paths : p \notin {Part(d), Full(d)} => marker'[p] = marker[p] /\ file'[p] = file[p]
        /\ file'[Full(d)] = file[Part(d)] /\ marker'[Full(d)] = Fresh(d)
    BY <1>0, <1>1, <1>2 DEF DiskType
  <2>2. \A e \in Downloads : e # d => \A p \in PathsOf(e) : p \in Paths /\ p \notin {Part(d), Full(d)}
    BY <1>2
  <2>. QED
    BY <2>1, <2>2
<1>10. Untouched(d)'
  BY <1>7 DEF Untouched
<1>11. LocksAreYoung(d)'
  BY <1>0, <1>1, <1>2, <1>3, <1>4, <1>7, <1>8 DEF Safe, LocksAreYoung, Making
<1>12. LocksAreHeld(d)'
  BY <1>0, <1>2, <1>3, <1>4, <1>8 DEF Safe, LocksAreHeld
<1>13. JanitorsBehave(d)'
  <2>1. \A w \in Processes : ~(janitor[w].at \in {"inside", "delete"}
                               /\ janitor[w].path \in {Part(d), Full(d)})
    BY <1>0, <1>2, <1>8 DEF Safe, LocksAreHeld, JanitorsBehave, LeaseAssumption
  <2>2. \A p \in PathsOf(d) : p \notin {Part(d), Full(d)} => Active(p)' = Active(p)
    BY <1>2, <1>9 DEF Active
  <2>. QED
    BY <1>0, <1>1, <1>2, <1>4, <1>8, <2>1, <2>2 DEF Safe, JanitorsBehave
<1>14. NeededAreLeased(d)'
  <2>1. file[Part(d)] # None /\ leg[d] \in {1, 2}
    BY <1>0, <1>1 DEF Safe, NeededAreLeased, DiskType
  <2>2. Leased(Full(d), 0)'
    BY <1>3, <1>5, <1>9, <2>1 DEF Leased, Fresh, LeaseAssumption
  <2>. QED
    BY <1>1, <1>7, <2>1, <2>2 DEF NeededAreLeased
<1>. QED
  BY <1>1, <1>4, <1>6, <1>7, <1>9, <1>10, <1>11, <1>12, <1>13, <1>14, OnlyMine DEF Safe

(* After a transform the input is removed under its lock.                    *)
LEMMA CleanInv ==
  ASSUME LeaseAssumption, LeaseInv, NEW d \in Downloads, Clean(d)
  PROVE  LeaseInv'
<1>0. DiskType /\ Safe(d)
  BY DEF LeaseInv
<1>1. /\ UNCHANGED <<marker, tmp, leg, timer, janitor>> /\ at[d] = "clean"
  BY DEF Clean
<1>2. CASE Abandon(d) /\ UNCHANGED lock
  BY <1>1, <1>2, AbandonInv
<1>3. CASE /\ lock[Source(d)] = None
           /\ lock' = [lock EXCEPT ![Source(d)] = [by |-> d, age |-> 0]]
           /\ file' = [file EXCEPT ![Source(d)] = None]
           /\ Go(d, "cleaning")
  <2>1. /\ Full(d) \in PathsOf(d) /\ Source(d) \in PathsOf(d) /\ leg[d] = 2
        /\ PathsOf(d) \subseteq Paths /\ Full(d) # Source(d)
        /\ \A e \in Downloads : e # d => PathsOf(d) \cap PathsOf(e) = {} /\ PathsOf(e) \subseteq Paths
    <3>1. leg[d] = 2
      BY <1>0, <1>1 DEF Safe, NeededAreLeased
    <3>. QED
      BY <1>0, <3>1, PathFacts
  <2>2. /\ Full(d)' = Full(d) /\ Source(d)' = Source(d) /\ PathsOf(d)' = PathsOf(d)
        /\ Ahead(d) = PathsOf(d)
    BY <1>1 DEF Full, Source, PathsOf, Paths, Ahead, Making
  <2>3. [by |-> d, age |-> 0] \in [by : Downloads \cup Processes, age : Nat]
        /\ [by |-> d, age |-> 0] # None
    BY DEF LeaseAssumption
  <2>4. /\ lock'[Source(d)] # None /\ lock'[Source(d)].by = d /\ lock'[Source(d)].age = 0
        /\ \A p \in Paths : p # Source(d) => lock'[p] = lock[p] /\ file'[p] = file[p]
        /\ at'[d] = "cleaning" /\ \A e \in Downloads : e # d => at'[e] = at[e]
    BY <1>0, <1>3, <2>1, <2>3 DEF DiskType, Go
  <2>5. \A e \in Downloads : e # d => \A p \in PathsOf(e) : lock'[p] = lock[p] /\ file'[p] = file[p]
    BY <2>1, <2>4
  <2>6. DiskType'
    <3>1. at' \in [Downloads -> {"new", "reserved", "stream", "fetched", "ready",
                                 "releasing", "over"} \cup Sections]
      BY <1>0, <1>3 DEF DiskType, Sections, Go
    <3>. QED
      BY <1>0, <1>1, <1>3, <2>3, <3>1 DEF DiskType
  <2>7. Locking(d)' = {Source(d)} /\ Ahead(d)' = PathsOf(d)
    BY <2>2, <2>4 DEF Locking, Ahead, Making
  <2>8. Untouched(d)'
    BY <2>4 DEF Untouched
  <2>9. LocksAreYoung(d)'
    BY <1>0, <1>1, <2>1, <2>2, <2>4, <2>7 DEF Safe, LocksAreYoung, Making, DiskType
  <2>10. LocksAreHeld(d)'
    BY <1>0, <2>1, <2>2, <2>4, <2>7 DEF Safe, LocksAreHeld
  <2>11. JanitorsBehave(d)'
    <3>1. \A w \in Processes :
             ~(janitor[w].at \in {"inside", "delete"} /\ janitor[w].path = Source(d))
      BY <1>0, <1>3, <2>1, <2>2 DEF Safe, JanitorsBehave
    <3>. QED
      BY <1>0, <1>1, <2>1, <2>2, <2>4, <2>7, <3>1 DEF Safe, JanitorsBehave, Active
  <2>12. NeededAreLeased(d)'
    BY <1>0, <1>1, <2>1, <2>2, <2>4 DEF Safe, NeededAreLeased, Leased
  <2>. QED
    BY <1>1, <2>4, <2>5, <2>6, <2>8, <2>9, <2>10, <2>11, <2>12, OnlyMine DEF Safe
<1>. QED
  BY <1>2, <1>3 DEF Clean

(* unbind ends the lease of the input and returns its lock.                  *)
LEMMA EndCleanInv ==
  ASSUME LeaseAssumption, LeaseInv, NEW d \in Downloads, EndClean(d)
  PROVE  LeaseInv'
<1>0. DiskType /\ Safe(d)
  BY DEF LeaseInv
<1>1. /\ at[d] = "cleaning" /\ at' = [at EXCEPT ![d] = "fetched"]
      /\ marker' = [marker EXCEPT ![Source(d)] = None]
      /\ ReturnLocks(d) /\ UNCHANGED <<file, tmp, leg, timer, janitor>>
  BY DEF EndClean, Go
<1>2. /\ Full(d) \in PathsOf(d) /\ Source(d) \in PathsOf(d)
      /\ PathsOf(d) \subseteq Paths /\ Full(d) # Source(d)
      /\ \A e \in Downloads : e # d => PathsOf(d) \cap PathsOf(e) = {} /\ PathsOf(e) \subseteq Paths
  <2>1. leg[d] = 2
    BY <1>0, <1>1 DEF Safe, NeededAreLeased
  <2>. QED
    BY <1>0, <2>1, PathFacts
<1>3. Full(d)' = Full(d) /\ PathsOf(d)' = PathsOf(d)
  BY <1>1 DEF Full, PathsOf, Paths
<1>4. /\ lock' \in [Paths -> [by : Downloads \cup Processes, age : Nat] \cup {None}]
      /\ \A p \in Locking(d) : lock'[p] = None
      /\ \A p \in Paths : lock'[p] # None => lock'[p] = lock[p] /\ lock[p].by # d
      /\ \A p \in Paths : lock[p] # None /\ lock[p].by \in Processes => lock'[p] = lock[p]
      /\ \A e \in Downloads : e # d => \A p \in PathsOf(e) : lock'[p] = lock[p]
  BY <1>1, ReturnedLocks
<1>5. DiskType'
  BY <1>0, <1>1, <1>4 DEF DiskType
<1>6. /\ at'[d] = "fetched" /\ \A e \in Downloads : e # d => at'[e] = at[e]
      /\ Locking(d) = {Source(d)} /\ Locking(d)' = {}
      /\ Ahead(d) = PathsOf(d) /\ Ahead(d)' = PathsOf(d)
  BY <1>0, <1>1, <1>3 DEF DiskType, Locking, Ahead, Making
<1>7. /\ \A p \in Paths : p # Source(d) => marker'[p] = marker[p]
      /\ \A e \in Downloads : e # d => \A p \in PathsOf(e) : marker'[p] = marker[p]
  BY <1>0, <1>1, <1>2 DEF DiskType
<1>8. Untouched(d)'
  BY <1>6 DEF Untouched
<1>9. LocksAreYoung(d)'
  BY <1>0, <1>1, <1>2, <1>3, <1>4, <1>6 DEF Safe, LocksAreYoung, Making
<1>10. LocksAreHeld(d)'
  BY <1>0, <1>2, <1>3, <1>4, <1>6 DEF Safe, LocksAreHeld
<1>11. JanitorsBehave(d)'
  <2>1. \A w \in Processes : ~(janitor[w].at \in {"inside", "delete"} /\ janitor[w].path = Source(d))
    BY <1>0, <1>2, <1>6 DEF Safe, LocksAreHeld, JanitorsBehave, LeaseAssumption
  <2>2. \A p \in PathsOf(d) : p # Source(d) => Active(p)' = Active(p)
    BY <1>2, <1>7 DEF Active
  <2>. QED
    BY <1>0, <1>1, <1>2, <1>4, <1>6, <2>1, <2>2 DEF Safe, JanitorsBehave
<1>12. NeededAreLeased(d)'
  BY <1>0, <1>1, <1>2, <1>3, <1>6, <1>7 DEF Safe, NeededAreLeased, Leased
<1>. QED
  BY <1>1, <1>4, <1>5, <1>6, <1>7, <1>8, <1>9, <1>10, <1>11, <1>12, OnlyMine DEF Safe

(* The item is handed over, with its lease still full and no older lock.     *)
LEMMA HandInv ==
  ASSUME LeaseAssumption, LeaseInv, NEW d \in Downloads, Hand(d)
  PROVE  LeaseInv'
<1>0. DiskType /\ Safe(d)
  BY DEF LeaseInv
<1>1. /\ at[d] = "fetched" /\ at' = [at EXCEPT ![d] = "ready"]
      /\ timer' = [timer EXCEPT ![d] = 0]
      /\ UNCHANGED <<file, marker, lock, tmp, leg, janitor>>
  BY DEF Hand, Go, disk
<1>2. /\ Full(d) \in PathsOf(d) /\ PathsOf(d) \subseteq Paths
  BY <1>0, PathFacts
<1>3. Full(d)' = Full(d) /\ PathsOf(d)' = PathsOf(d)
  BY <1>1 DEF Full, PathsOf, Paths
<1>4. DiskType'
  BY <1>0, <1>1 DEF DiskType
<1>5. /\ at'[d] = "ready" /\ \A e \in Downloads : e # d => at'[e] = at[e] /\ timer'[e] = timer[e]
      /\ timer'[d] = 0
  BY <1>0, <1>1 DEF DiskType
<1>6. /\ Locking(d)' = {} /\ Ahead(d) = PathsOf(d) /\ Ahead(d)' = {Full(d)}
  BY <1>1, <1>2, <1>3, <1>5 DEF Locking, Ahead, Making
<1>7. Untouched(d)'
  BY <1>5 DEF Untouched
<1>8. LocksAreYoung(d)'
  BY <1>0, <1>1, <1>2, <1>3, <1>5, <1>6 DEF Safe, LocksAreYoung, Making, DiskType, LeaseAssumption
<1>9. LocksAreHeld(d)'
  BY <1>0, <1>1, <1>3, <1>6 DEF Safe, LocksAreHeld
<1>10. JanitorsBehave(d)'
  BY <1>0, <1>1, <1>2, <1>6 DEF Safe, JanitorsBehave, Active
<1>11. NeededAreLeased(d)'
  BY <1>0, <1>1, <1>3, <1>5 DEF Safe, NeededAreLeased, Leased
<1>. QED
  BY <1>1, <1>4, <1>5, <1>7, <1>8, <1>9, <1>10, <1>11, OnlyMine DEF Safe

(* renew takes the lock of the item's file.                                  *)
LEMMA RenewInv ==
  ASSUME LeaseAssumption, LeaseInv, NEW d \in Downloads, Renew(d)
  PROVE  LeaseInv'
<1>0. DiskType /\ Safe(d)
  BY DEF LeaseInv
<1>1. /\ UNCHANGED <<marker, tmp, leg, timer, janitor>> /\ at[d] = "ready"
      /\ \/ TakeFree(d, {Full(d)}, "renewing")
         \/ Abandon(d) /\ UNCHANGED lock
  BY DEF Renew, TakeLocks
<1>2. CASE Abandon(d) /\ UNCHANGED lock
  BY <1>1, <1>2, AbandonInv
<1>3. CASE TakeFree(d, {Full(d)}, "renewing")
  <2>1. /\ Full(d) \in PathsOf(d) /\ PathsOf(d) \subseteq Paths
    BY <1>0, PathFacts
  <2>2. {Full(d)} \subseteq PathsOf(d)
    BY <2>1
  <2>3. /\ Full(d)' = Full(d) /\ PathsOf(d)' = PathsOf(d) /\ Ahead(d) = {Full(d)}
        /\ "renewing" \in Sections
    BY <1>1, <2>1 DEF Full, PathsOf, Paths, Ahead, Making, Sections
  <2>4. /\ at'[d] = "renewing" /\ file' = file
        /\ \A e \in Downloads : e # d => at'[e] = at[e] /\ \A p \in PathsOf(e) : lock'[p] = lock[p]
        /\ lock'[Full(d)] # None /\ lock'[Full(d)].by = d /\ lock'[Full(d)].age = 0
        /\ \A w \in Processes :
              ~(janitor[w].at \in {"inside", "delete"} /\ janitor[w].path = Full(d))
        /\ \A p \in PathsOf(d) : p # Full(d) => lock'[p] = lock[p]
        /\ DiskType'
    BY <1>0, <1>1, <1>3, <2>1, <2>2, <2>3, TakenLocks DEF DiskType
  <2>5. Locking(d)' = {Full(d)} /\ Ahead(d)' = {Full(d)}
    BY <2>1, <2>3, <2>4 DEF Locking, Ahead, Making
  <2>6. Untouched(d)'
    BY <2>4 DEF Untouched
  <2>7. LocksAreYoung(d)'
    BY <1>0, <1>1, <2>1, <2>3, <2>4, <2>5 DEF Safe, LocksAreYoung, Making, DiskType
  <2>8. LocksAreHeld(d)'
    BY <1>0, <2>3, <2>4, <2>5 DEF Safe, LocksAreHeld
  <2>9. JanitorsBehave(d)'
    BY <1>0, <1>1, <2>3, <2>4, <2>5 DEF Safe, JanitorsBehave, Active
  <2>10. NeededAreLeased(d)'
    BY <1>0, <1>1, <2>3, <2>4 DEF Safe, NeededAreLeased, Leased
  <2>. QED
    BY <1>1, <2>4, <2>6, <2>7, <2>8, <2>9, <2>10, OnlyMine DEF Safe
<1>. QED
  BY <1>1, <1>2, <1>3

(* renew writes a full lease and returns the lock.                           *)
LEMMA EndRenewInv ==
  ASSUME LeaseAssumption, LeaseInv, NEW d \in Downloads, EndRenew(d)
  PROVE  LeaseInv'
<1>0. DiskType /\ Safe(d)
  BY DEF LeaseInv
<1>1. /\ at[d] = "renewing" /\ at' = [at EXCEPT ![d] = "ready"]
      /\ marker' = [marker EXCEPT ![Full(d)] = Fresh(d)]
      /\ timer' = [timer EXCEPT ![d] = 0]
      /\ ReturnLocks(d) /\ UNCHANGED <<file, tmp, leg, janitor>>
  BY DEF EndRenew, Go
<1>2. /\ Full(d) \in PathsOf(d) /\ PathsOf(d) \subseteq Paths
      /\ \A e \in Downloads : e # d => PathsOf(d) \cap PathsOf(e) = {} /\ PathsOf(e) \subseteq Paths
  BY <1>0, PathFacts
<1>3. Full(d)' = Full(d) /\ PathsOf(d)' = PathsOf(d)
  BY <1>1 DEF Full, PathsOf, Paths
<1>4. /\ lock' \in [Paths -> [by : Downloads \cup Processes, age : Nat] \cup {None}]
      /\ \A p \in Locking(d) : lock'[p] = None
      /\ \A p \in Paths : lock'[p] # None => lock'[p] = lock[p] /\ lock[p].by # d
      /\ \A e \in Downloads : e # d => \A p \in PathsOf(e) : lock'[p] = lock[p]
  BY <1>1, ReturnedLocks
<1>5. Fresh(d) \in [owner : Downloads, left : 0 .. Ttl] /\ Fresh(d) # None /\ Fresh(d).left = Ttl
  BY DEF Fresh, LeaseAssumption
<1>6. DiskType'
  BY <1>0, <1>1, <1>4, <1>5 DEF DiskType
<1>7. /\ at'[d] = "ready" /\ timer'[d] = 0
      /\ \A e \in Downloads : e # d => at'[e] = at[e] /\ timer'[e] = timer[e]
  BY <1>0, <1>1 DEF DiskType
<1>8. /\ Locking(d) = {Full(d)} /\ Locking(d)' = {}
      /\ Ahead(d) = {Full(d)} /\ Ahead(d)' = {Full(d)}
  BY <1>1, <1>2, <1>3, <1>7 DEF Locking, Ahead, Making
<1>9. /\ marker'[Full(d)] = Fresh(d)
      /\ \A e \in Downloads : e # d => \A p \in PathsOf(e) : marker'[p] = marker[p]
  BY <1>0, <1>1, <1>2 DEF DiskType
<1>10. Untouched(d)'
  BY <1>7 DEF Untouched
<1>11. LocksAreYoung(d)'
  BY <1>3, <1>4, <1>7, <1>8 DEF LocksAreYoung, Making, LeaseAssumption
<1>12. LocksAreHeld(d)'
  BY <1>0, <1>2, <1>3, <1>4, <1>8 DEF Safe, LocksAreHeld
<1>13. JanitorsBehave(d)'
  <2>1. \A w \in Processes : ~(janitor[w].at \in {"inside", "delete"} /\ janitor[w].path = Full(d))
    BY <1>0, <1>2, <1>8 DEF Safe, LocksAreHeld, JanitorsBehave, LeaseAssumption
  <2>. QED
    BY <1>0, <1>1, <1>8, <2>1 DEF Safe, JanitorsBehave
<1>14. NeededAreLeased(d)'
  BY <1>0, <1>1, <1>3, <1>5, <1>7, <1>9 DEF Safe, NeededAreLeased, Leased, LeaseAssumption
<1>. QED
  BY <1>1, <1>4, <1>6, <1>7, <1>9, <1>10, <1>11, <1>12, <1>13, <1>14, OnlyMine DEF Safe

(* A failure, a timeout or a cancellation, or the last user leaves.          *)
LEMMA LeaveInv ==
  ASSUME LeaseAssumption, LeaseInv, NEW d \in Downloads, Leave(d)
  PROVE  LeaseInv'
BY AbandonInv DEF Leave

(* _finish_release deletes what leases it can, and the download is over.     *)
LEMMA FinishReleaseInv ==
  ASSUME LeaseAssumption, LeaseInv, NEW d \in Downloads, FinishRelease(d)
  PROVE  LeaseInv'
<1>0. DiskType
  BY DEF LeaseInv
<1>1. /\ marker' = [p \in Paths |->
            IF p \in PathsOf(d) /\ lock[p] = None THEN None ELSE marker[p]]
      /\ at' = [e \in Downloads |-> IF e = d THEN "over" ELSE at[e]]
      /\ leg' = [e \in Downloads |-> IF e = d THEN 1 ELSE leg[e]]
      /\ timer' = [e \in Downloads |-> IF e = d THEN 0 ELSE timer[e]]
      /\ UNCHANGED <<file, lock, tmp, janitor>>
  BY DEF FinishRelease, Forget
<1>2. DiskType'
  BY <1>0, <1>1 DEF DiskType
<1>3. /\ at'[d] = "over"
      /\ \A e \in Downloads : e # d =>
            at'[e] = at[e] /\ leg'[e] = leg[e] /\ timer'[e] = timer[e]
  BY <1>1
<1>4. \A e \in Downloads : e # d => \A p \in PathsOf(e) : marker'[p] = marker[p]
  BY <1>1 DEF PathsOf
<1>5. Safe(d)'
  BY <1>1, <1>3, GoneIsSafe
<1>. QED
  BY <1>1, <1>2, <1>3, <1>4, <1>5, OnlyMine

(* The rest of a process's downloads are a sum of bytes.                     *)
LEMMA OthersInv ==
  ASSUME LeaseInv, NEW w \in Processes, Others(w)
  PROVE  LeaseInv'
<1>1. UNCHANGED <<file, marker, lock, tmp, at, leg, timer, janitor>>
  BY DEF Others, disk
<1>2. DiskType'
  BY <1>1 DEF LeaseInv, DiskType
<1>3. \A e \in Downloads : Safe(e)'
  BY <1>1, Elsewhere DEF LeaseInv
<1>. QED
  BY <1>2, <1>3 DEF LeaseInv

-----------------------------------------------------------------------------
(* The steps of a janitor.                                                   *)

\* A janitor changes nothing of where the downloads are.
NoDownloadMoves == UNCHANGED <<at, leg, timer>>

(* Where the downloads stay, so do the paths that matter to them.            *)
LEMMA PathsStay ==
  ASSUME DiskType, NoDownloadMoves, NEW d \in Downloads
  PROVE  /\ Part(d)' = Part(d) /\ Full(d)' = Full(d) /\ Source(d)' = Source(d)
         /\ PathsOf(d)' = PathsOf(d) /\ Ahead(d)' = Ahead(d) /\ Locking(d)' = Locking(d)
         /\ Part(d) \in PathsOf(d) /\ Full(d) \in PathsOf(d) /\ Source(d) \in PathsOf(d)
         /\ PathsOf(d) \subseteq Paths
         /\ Locking(d) \subseteq Ahead(d) /\ Ahead(d) \subseteq PathsOf(d)
<1>1. /\ Part(d)' = Part(d) /\ Full(d)' = Full(d) /\ Source(d)' = Source(d)
      /\ PathsOf(d)' = PathsOf(d)
  BY DEF NoDownloadMoves, Part, Full, Source, PathsOf, Paths
<1>2. /\ Part(d) \in PathsOf(d) /\ Full(d) \in PathsOf(d) /\ Source(d) \in PathsOf(d)
      /\ PathsOf(d) \subseteq Paths
  BY PathFacts
<1>3. Ahead(d)' = Ahead(d) /\ Ahead(d) \subseteq PathsOf(d)
  BY <1>1 DEF Ahead, NoDownloadMoves
<1>4. Locking(d)' = Locking(d)
  BY <1>1 DEF Locking, NoDownloadMoves
<1>5. Locking(d) \subseteq Ahead(d)
  BY <1>2 DEF Locking, Ahead, Making
<1>. QED
  BY <1>1, <1>2, <1>3, <1>4, <1>5

(* No janitor finds a stale lock on a path that is ahead of its download.    *)
LEMMA LocksAheadAreFresh ==
  ASSUME LeaseAssumption, LeaseInv, NEW d \in Downloads, NEW p \in Ahead(d), lock[p] # None
  PROVE  lock[p].age <= MaxAge
<1>1. p \in Paths /\ p \in PathsOf(d) /\ at[d] \in {"new", "ready", "renewing"} \cup Making
  BY DEF Ahead, PathsOf
<1>2. lock[p].age \in Nat /\ timer[d] \in Nat
  BY <1>1 DEF LeaseInv, DiskType
<1>3. lock[p].age <= timer[d] /\ (timer[d] <= Deadline \/ timer[d] <= RenewEvery)
  BY <1>1 DEF LeaseInv, Safe, Untouched, LocksAreYoung
<1>. QED
  BY <1>2, <1>3 DEF LeaseAssumption

(* A file that is counted on has an active lease.                            *)
LEMMA LeasedIsActive ==
  ASSUME LeaseAssumption, LeaseInv, NEW p \in Paths, NEW t \in Nat, t < Ttl, Leased(p, t)
  PROVE  Active(p)
BY DEF Leased, Active, LeaseInv, DiskType, LeaseAssumption

(* A janitor finds a name, which is not that of a download to come.          *)
LEMMA FindInv ==
  ASSUME LeaseAssumption, LeaseInv, NEW w \in Processes, NEW p \in Paths,
         NEW what \in {"file", "marker", "lock", "tmp"}, NEW urgent \in BOOLEAN,
         Find(w, p, what, urgent)
  PROVE  LeaseInv'
<1>0. DiskType /\ NoDownloadMoves
  BY DEF LeaseInv, Find, NoDownloadMoves
<1>1. /\ janitor' = [janitor EXCEPT ![w] =
            [at |-> "try", path |-> p, what |-> what, urgent |-> urgent]]
      /\ Here(p, what) /\ UNCHANGED <<file, marker, lock, tmp, at, leg, timer>>
  BY DEF Find, disk
<1>2. DiskType'
  BY <1>0, <1>1 DEF DiskType
<1>3. /\ janitor'[w].at = "try" /\ janitor'[w].path = p
      /\ \A v \in Processes : v # w => janitor'[v] = janitor[v]
  BY <1>0, <1>1 DEF DiskType
<1>4. ASSUME NEW d \in Downloads
      PROVE  Safe(d)'
  <2>0. Safe(d)
    BY <1>4 DEF LeaseInv
  <2>1. /\ Full(d)' = Full(d) /\ Source(d)' = Source(d) /\ Part(d)' = Part(d)
        /\ PathsOf(d)' = PathsOf(d) /\ Ahead(d)' = Ahead(d) /\ Locking(d)' = Locking(d)
    BY <1>0, <1>4, PathsStay
  <2>2. Untouched(d)'
    <3>1. at[d] = "new" => p \notin PathsOf(d)
      BY <1>1, <2>0 DEF Safe, Untouched, Here
    <3>. QED
      BY <1>1, <1>3, <2>0, <2>1, <3>1 DEF Safe, Untouched
  <2>3. LocksAreYoung(d)' /\ LocksAreHeld(d)'
    BY <1>1, <2>0, <2>1 DEF Safe, LocksAreYoung, LocksAreHeld
  <2>4. JanitorsBehave(d)'
    BY <1>1, <1>3, <2>0, <2>1 DEF Safe, JanitorsBehave, Active
  <2>5. NeededAreLeased(d)'
    BY <1>1, <2>0, <2>1 DEF Safe, NeededAreLeased, Leased
  <2>. QED
    BY <2>2, <2>3, <2>4, <2>5 DEF Safe
<1>. QED
  BY <1>2, <1>4 DEF LeaseInv

(* _marker_lock: the lock is taken where it is free, found stale, or waited  *)
(* for once.                                                                 *)
LEMMA TryLockInv ==
  ASSUME LeaseAssumption, LeaseInv, NEW w \in Processes, TryLock(w)
  PROVE  LeaseInv'
<1> DEFINE q == janitor[w].path
<1>0. DiskType /\ NoDownloadMoves
  BY DEF LeaseInv, TryLock, NoDownloadMoves
<1>1. janitor[w].at \in {"try", "retry"} /\ UNCHANGED <<file, marker, tmp, at, leg, timer>>
  BY DEF TryLock, Job
<1>2. /\ q \in Paths
      /\ janitor[w] \in [at : {"try", "stale", "retry", "inside", "delete"}, path : Paths,
                         what : {"file", "marker", "lock", "tmp"}, urgent : BOOLEAN]
  BY <1>0, <1>1 DEF DiskType, Idle
<1>3. \A d \in Downloads : q \in PathsOf(d) => at[d] # "new"
  BY <1>1 DEF LeaseInv, Safe, Untouched
<1>4. CASE /\ lock[q] = None
           /\ lock' = [lock EXCEPT ![q] = [by |-> w, age |-> 0]]
           /\ Turn(w, "inside")
  <2>1. [by |-> w, age |-> 0] \in [by : Downloads \cup Processes, age : Nat]
        /\ [by |-> w, age |-> 0] # None
    BY DEF LeaseAssumption
  <2>2. /\ lock'[q] # None /\ lock'[q].by = w /\ lock'[q].age = 0
        /\ \A p \in Paths : p # q => lock'[p] = lock[p]
    BY <1>0, <1>2, <1>4, <2>1 DEF DiskType
  <2>3. /\ janitor'[w].at = "inside" /\ janitor'[w].path = q
        /\ \A v \in Processes : v # w => janitor'[v] = janitor[v]
    BY <1>0, <1>2, <1>4 DEF DiskType, Turn
  <2>4. DiskType'
    BY <1>0, <1>1, <1>2, <1>4, <2>1 DEF DiskType, Turn
  <2>5. ASSUME NEW d \in Downloads
        PROVE  Safe(d)'
    <3>0. Safe(d) /\ timer[d] \in Nat
      BY <1>0, <2>5 DEF LeaseInv, DiskType
    <3>1. /\ Full(d)' = Full(d) /\ Source(d)' = Source(d) /\ Part(d)' = Part(d)
          /\ PathsOf(d)' = PathsOf(d) /\ Ahead(d)' = Ahead(d) /\ Locking(d)' = Locking(d)
          /\ Full(d) \in PathsOf(d) /\ PathsOf(d) \subseteq Paths
          /\ Locking(d) \subseteq Ahead(d) /\ Ahead(d) \subseteq PathsOf(d)
      BY <1>0, <2>5, PathsStay
    <3>2. Untouched(d)'
      BY <1>1, <1>3, <2>2, <2>3, <3>0, <3>1 DEF Safe, Untouched
    <3>3. LocksAreYoung(d)'
      BY <1>1, <2>2, <3>0, <3>1 DEF Safe, LocksAreYoung
    <3>4. LocksAreHeld(d)'
      BY <1>4, <2>2, <3>0, <3>1 DEF Safe, LocksAreHeld
    <3>5. JanitorsBehave(d)'
      BY <1>1, <1>4, <2>2, <2>3, <3>0, <3>1 DEF Safe, JanitorsBehave, Active
    <3>6. NeededAreLeased(d)'
      BY <1>1, <3>0, <3>1 DEF Safe, NeededAreLeased, Leased
    <3>. QED
      BY <3>2, <3>3, <3>4, <3>5, <3>6 DEF Safe
  <2>. QED
    BY <2>4, <2>5 DEF LeaseInv
<1>5. CASE /\ lock[q] # None /\ lock' = lock
           /\ \/ lock[q].age > MaxAge /\ Turn(w, "stale")
              \/ Turn(w, "retry")
              \/ Rest(w)
  <2>1. DiskType'
    BY <1>0, <1>1, <1>2, <1>5 DEF DiskType, Turn, Rest, Idle
  <2>2. /\ janitor'[w].at \in {"stale", "retry", "idle"}
        /\ janitor'[w].at # "idle" => janitor'[w].path = q
        /\ janitor'[w].at = "stale" => lock[q].age > MaxAge
        /\ \A v \in Processes : v # w => janitor'[v] = janitor[v]
    BY <1>0, <1>2, <1>5 DEF DiskType, Turn, Rest, Idle
  <2>3. ASSUME NEW d \in Downloads
        PROVE  Safe(d)'
    <3>0. Safe(d)
      BY <2>3 DEF LeaseInv
    <3>1. /\ Full(d)' = Full(d) /\ Source(d)' = Source(d) /\ Part(d)' = Part(d)
          /\ PathsOf(d)' = PathsOf(d) /\ Ahead(d)' = Ahead(d) /\ Locking(d)' = Locking(d)
          /\ PathsOf(d) \subseteq Paths /\ Ahead(d) \subseteq PathsOf(d)
      BY <1>0, <2>3, PathsStay
    <3>2. Untouched(d)'
      BY <1>1, <1>3, <1>5, <2>2, <3>0, <3>1 DEF Safe, Untouched
    <3>3. LocksAreYoung(d)' /\ LocksAreHeld(d)'
      BY <1>1, <1>5, <3>0, <3>1 DEF Safe, LocksAreYoung, LocksAreHeld
    <3>4. JanitorsBehave(d)'
      <4>1. janitor'[w].at = "stale" => q \notin Ahead(d)
        <5>1. SUFFICES ASSUME lock[q].age > MaxAge, q \in Ahead(d)
                       PROVE  FALSE
          BY <2>2
        <5>2. lock[q].age \in Nat /\ lock[q].age <= MaxAge
          BY <1>0, <1>2, <1>5, <2>3, <5>1, LocksAheadAreFresh DEF DiskType
        <5>. QED
          BY <5>1, <5>2 DEF LeaseAssumption
      <4>. QED
        BY <1>1, <1>5, <2>2, <3>0, <3>1, <4>1 DEF Safe, JanitorsBehave, Active
    <3>5. NeededAreLeased(d)'
      BY <1>1, <3>0, <3>1 DEF Safe, NeededAreLeased, Leased
    <3>. QED
      BY <3>2, <3>3, <3>4, <3>5 DEF Safe
  <2>. QED
    BY <2>1, <2>3 DEF LeaseInv
<1>. QED
  BY <1>4, <1>5 DEF TryLock, Job

(* The unlink of a stale lock hits no lock on a path that is ahead.          *)
LEMMA BreakLockInv ==
  ASSUME LeaseAssumption, LeaseInv, NEW w \in Processes, BreakLock(w)
  PROVE  LeaseInv'
<1> DEFINE q == janitor[w].path
<1>0. DiskType /\ NoDownloadMoves
  BY DEF LeaseInv, BreakLock, NoDownloadMoves
<1>1. /\ janitor[w].at = "stale" /\ UNCHANGED <<file, marker, tmp, at, leg, timer>>
      /\ lock' = [lock EXCEPT ![q] = None] /\ janitor' = [janitor EXCEPT ![w].at = "retry"]
  BY DEF BreakLock, Job, Turn
<1>2. /\ q \in Paths
      /\ janitor[w] \in [at : {"try", "stale", "retry", "inside", "delete"}, path : Paths,
                         what : {"file", "marker", "lock", "tmp"}, urgent : BOOLEAN]
  BY <1>0, <1>1 DEF DiskType, Idle
<1>3. /\ janitor'[w].at = "retry" /\ janitor'[w].path = q
      /\ \A v \in Processes : v # w => janitor'[v] = janitor[v]
      /\ \A p \in Paths : p # q => lock'[p] = lock[p]
      /\ lock'[q] = None
  BY <1>0, <1>1, <1>2 DEF DiskType
<1>4. DiskType'
  BY <1>0, <1>1, <1>2 DEF DiskType
<1>5. ASSUME NEW d \in Downloads
      PROVE  Safe(d)'
  <2>0. Safe(d)
    BY <1>5 DEF LeaseInv
  <2>1. /\ Full(d)' = Full(d) /\ Source(d)' = Source(d) /\ Part(d)' = Part(d)
        /\ PathsOf(d)' = PathsOf(d) /\ Ahead(d)' = Ahead(d) /\ Locking(d)' = Locking(d)
        /\ Full(d) \in PathsOf(d) /\ PathsOf(d) \subseteq Paths
        /\ Locking(d) \subseteq Ahead(d) /\ Ahead(d) \subseteq PathsOf(d)
    BY <1>0, <1>5, PathsStay
  <2>2. q \notin Ahead(d)
    BY <1>1, <2>0 DEF Safe, JanitorsBehave
  <2>3. Untouched(d)'
    BY <1>1, <1>3, <2>0, <2>1 DEF Safe, Untouched
  <2>4. LocksAreYoung(d)'
    BY <1>1, <1>3, <2>0, <2>1 DEF Safe, LocksAreYoung
  <2>5. LocksAreHeld(d)'
    BY <1>3, <2>0, <2>1, <2>2 DEF Safe, LocksAreHeld
  <2>6. JanitorsBehave(d)'
    BY <1>1, <1>3, <2>0, <2>1, <2>2 DEF Safe, JanitorsBehave, Active
  <2>7. NeededAreLeased(d)'
    BY <1>1, <2>0, <2>1 DEF Safe, NeededAreLeased, Leased
  <2>. QED
    BY <2>3, <2>4, <2>5, <2>6, <2>7 DEF Safe
<1>. QED
  BY <1>4, <1>5 DEF LeaseInv

(* A janitor that is done returns its lock, and no other on a path ahead.    *)
LEMMA UnlockedLocks ==
  ASSUME LeaseAssumption, LeaseInv, NEW w \in Processes, Unlock(w)
  PROVE  /\ lock' \in [Paths -> [by : Downloads \cup Processes, age : Nat] \cup {None}]
         /\ \A p \in Paths : lock'[p] # None => lock'[p] = lock[p]
         /\ \A p \in Paths : lock[p] # None /\ lock[p].by # w => lock'[p] = lock[p]
<1>1. lock' = [p \in Paths |-> IF lock[p] # None /\ lock[p].by = w THEN None ELSE lock[p]]
  BY DEF Unlock
<1>. QED
  BY <1>1 DEF LeaseInv, DiskType

(* What the last step of a janitor's visit does to a download: the lock of   *)
(* the janitor is returned, and what is gone was not counted on.             *)
LEMMA EndOfVisit ==
  ASSUME LeaseAssumption, LeaseInv, NEW w \in Processes, NEW q \in Paths, NEW d \in Downloads,
         NoDownloadMoves, Unlock(w), Rest(w), janitor[w].at \in {"inside", "delete"},
         janitor[w].path = q,
         \A p \in Paths : p # q =>
            file'[p] = file[p] /\ marker'[p] = marker[p] /\ tmp'[p] = tmp[p],
         marker'[q] \in {marker[q], None}, file'[q] \in {file[q], None},
         file'[q] # file[q] \/ marker'[q] # marker[q] =>
            janitor[w].at = "delete" /\ janitor[w].what \in {"file", "marker"}
  PROVE  Safe(d)'
<1>0. DiskType /\ Safe(d) /\ timer[d] \in Nat
  BY DEF LeaseInv, DiskType
<1>1. janitor' = [janitor EXCEPT ![w] = Idle]
  BY DEF Rest
<1>2. /\ janitor'[w].at = "idle" /\ \A v \in Processes : v # w => janitor'[v] = janitor[v]
  BY <1>0, <1>1 DEF DiskType, Idle
<1>3. /\ \A p \in Paths : lock'[p] # None => lock'[p] = lock[p]
      /\ \A p \in Paths : lock[p] # None /\ lock[p].by # w => lock'[p] = lock[p]
  BY UnlockedLocks
<1>4. /\ Full(d)' = Full(d) /\ Source(d)' = Source(d) /\ Part(d)' = Part(d)
      /\ PathsOf(d)' = PathsOf(d) /\ Ahead(d)' = Ahead(d) /\ Locking(d)' = Locking(d)
      /\ Part(d) \in PathsOf(d) /\ Full(d) \in PathsOf(d) /\ Source(d) \in PathsOf(d)
      /\ PathsOf(d) \subseteq Paths
      /\ Locking(d) \subseteq Ahead(d) /\ Ahead(d) \subseteq PathsOf(d)
  BY <1>0, PathsStay
<1>5. UNCHANGED <<at, leg, timer>>
  BY DEF NoDownloadMoves
<1>6. Untouched(d)'
  <2>1. at[d] = "new" => q \notin PathsOf(d)
    BY <1>0 DEF Safe, Untouched
  <2>2. \A p \in PathsOf(d) : p \in Paths
    BY <1>4
  <2>. QED
    BY <1>0, <1>2, <1>3, <1>4, <1>5, <2>1, <2>2 DEF Safe, Untouched
<1>7. LocksAreYoung(d)'
  <2>1. \A p \in Ahead(d) : p \in Paths
    BY <1>4
  <2>. QED
    BY <1>0, <1>3, <1>4, <1>5, <2>1 DEF Safe, LocksAreYoung
<1>8. LocksAreHeld(d)'
  <2>1. \A p \in Locking(d) : p \in Paths /\ lock[p] # None /\ lock[p].by # w
    BY <1>0, <1>4 DEF Safe, LocksAreHeld, LeaseAssumption
  <2>2. \A p \in PathsOf(d) : p \in Paths
    BY <1>4
  <2>. QED
    BY <1>0, <1>3, <1>4, <2>1, <2>2 DEF Safe, LocksAreHeld
<1>9. JanitorsBehave(d)'
  <2>1. ASSUME NEW p \in Ahead(d), NEW v \in Processes
        PROVE  /\ janitor'[v].at = "stale" => janitor'[v].path # p
               /\ janitor'[v].at \in {"inside", "delete"} /\ janitor'[v].path = p =>
                     lock'[p] # None /\ lock'[p].by = v
               /\ janitor'[v].at = "delete" /\ janitor'[v].path = p
                     /\ janitor'[v].what \in {"file", "marker"} => ~Active(p)'
    <3>1. p \in Paths
      BY <1>4, <2>1
    <3>2. CASE v = w
      BY <1>2, <3>2
    <3>3. CASE v # w
      <4>1. janitor'[v] = janitor[v]
        BY <1>2, <3>3, <2>1
      <4>2. Active(p)' => Active(p)
        BY <3>1 DEF Active
      <4>3. janitor[v].at \in {"inside", "delete"} /\ janitor[v].path = p =>
              lock[p] # None /\ lock[p].by = v /\ lock'[p] = lock[p]
        BY <1>0, <1>3, <2>1, <3>1, <3>3 DEF Safe, JanitorsBehave
      <4>. QED
        BY <1>0, <2>1, <4>1, <4>2, <4>3 DEF Safe, JanitorsBehave
    <3>. QED
      BY <3>2, <3>3
  <2>. QED
    BY <1>4, <2>1 DEF JanitorsBehave
<1>10. NeededAreLeased(d)'
  <2>1. ASSUME NEW p \in Ahead(d), NEW t \in Nat, t < Ttl, Leased(p, t)
        PROVE  Leased(p, t)'
    <3>1. p \in Paths
      BY <1>4, <2>1
    <3>2. Active(p)
      BY <2>1, <3>1, LeasedIsActive
    <3>3. file'[p] = file[p] /\ marker'[p] = marker[p]
      BY <1>0, <2>1, <3>1, <3>2 DEF Safe, JanitorsBehave
    <3>. QED
      BY <2>1, <3>3 DEF Leased
  <2>2. at[d] = "promoting" => file'[Part(d)] = file[Part(d)]
    <3>1. SUFFICES ASSUME at[d] = "promoting"
                   PROVE  Part(d) # q
      BY <1>4
    <3>2. lock[Part(d)].by = d /\ Part(d) \in Ahead(d)
      BY <1>0, <1>4, <3>1 DEF Safe, LocksAreHeld, Locking
    <3>. QED
      BY <1>0, <3>2 DEF Safe, JanitorsBehave, LeaseAssumption
  <2>3. at[d] \in {"fetched", "clean", "cleaning", "ready", "renewing"} => Full(d) \in Ahead(d)
    BY <1>4 DEF Ahead, Making
  <2>4. at[d] \in {"binding", "stream", "promoting"} => Source(d) \in Ahead(d)
    BY <1>4 DEF Ahead, Making
  <2>5. at[d] \in {"fetched", "clean", "cleaning"} => Leased(Full(d), 0)'
    BY <1>0, <1>4, <2>1, <2>3 DEF Safe, NeededAreLeased, LeaseAssumption, Leased
  <2>6. at[d] \in {"ready", "renewing"} => Leased(Full(d), timer[d])'
    BY <1>0, <1>4, <1>5, <2>1, <2>3
    DEF Safe, NeededAreLeased, LocksAreYoung, LeaseAssumption, Leased
  <2>7. at[d] \in {"binding", "stream", "promoting"} /\ leg[d] = 2 /\ timer[d] < Deadline
           => Leased(Source(d), timer[d])'
    BY <1>0, <1>4, <1>5, <2>1, <2>4 DEF Safe, NeededAreLeased, LeaseAssumption, Leased
  <2>8. /\ at[d] = "reserved" => leg[d] = 1
        /\ at[d] \in {"clean", "cleaning"} => leg[d] = 2
        /\ at[d] = "promoting" => file'[Part(d)] # None /\ timer[d] < Deadline
    BY <1>0, <2>2 DEF Safe, NeededAreLeased
  <2>. QED
    BY <1>4, <1>5, <2>5, <2>6, <2>7, <2>8 DEF NeededAreLeased, Leased
<1>. QED
  BY <1>6, <1>7, <1>8, <1>9, <1>10 DEF Safe

(* In its locked code a janitor decides to delete only what is not leased.   *)
LEMMA InspectInv ==
  ASSUME LeaseAssumption, LeaseInv, NEW w \in Processes, Inspect(w)
  PROVE  LeaseInv'
<1> DEFINE q == janitor[w].path
<1>0. DiskType /\ NoDownloadMoves
  BY DEF LeaseInv, Inspect, NoDownloadMoves
<1>1. janitor[w].at = "inside" /\ UNCHANGED <<file, marker, tmp, at, leg, timer>>
  BY DEF Inspect, Job
<1>2. /\ q \in Paths
      /\ janitor[w] \in [at : {"try", "stale", "retry", "inside", "delete"}, path : Paths,
                         what : {"file", "marker", "lock", "tmp"}, urgent : BOOLEAN]
  BY <1>0, <1>1 DEF DiskType, Idle
<1>3. CASE Deletable(janitor[w]) /\ Turn(w, "delete") /\ UNCHANGED lock
  <2>1. DiskType'
    BY <1>0, <1>1, <1>2, <1>3 DEF DiskType, Turn
  <2>2. /\ janitor'[w].at = "delete" /\ janitor'[w].path = q /\ janitor'[w].what = janitor[w].what
        /\ \A v \in Processes : v # w => janitor'[v] = janitor[v]
    BY <1>0, <1>2, <1>3 DEF DiskType, Turn
  <2>3. janitor[w].what \in {"file", "marker"} => ~Active(q)
    BY <1>3 DEF Deletable
  <2>4. ASSUME NEW d \in Downloads
        PROVE  Safe(d)'
    <3>0. Safe(d)
      BY <2>4 DEF LeaseInv
    <3>1. /\ Full(d)' = Full(d) /\ Source(d)' = Source(d) /\ Part(d)' = Part(d)
          /\ PathsOf(d)' = PathsOf(d) /\ Ahead(d)' = Ahead(d) /\ Locking(d)' = Locking(d)
      BY <1>0, <2>4, PathsStay
    <3>2. Untouched(d)'
      BY <1>1, <1>3, <2>2, <3>0, <3>1 DEF Safe, Untouched
    <3>3. LocksAreYoung(d)' /\ LocksAreHeld(d)'
      BY <1>1, <1>3, <3>0, <3>1 DEF Safe, LocksAreYoung, LocksAreHeld
    <3>4. JanitorsBehave(d)'
      BY <1>1, <1>3, <2>2, <2>3, <3>0, <3>1 DEF Safe, JanitorsBehave, Active
    <3>5. NeededAreLeased(d)'
      BY <1>1, <3>0, <3>1 DEF Safe, NeededAreLeased, Leased
    <3>. QED
      BY <3>2, <3>3, <3>4, <3>5 DEF Safe
  <2>. QED
    BY <2>1, <2>4 DEF LeaseInv
<1>4. CASE Rest(w) /\ Unlock(w)
  <2>1. DiskType'
    BY <1>0, <1>1, <1>4, UnlockedLocks DEF DiskType, Rest
  <2>2. \A d \in Downloads : Safe(d)'
    BY <1>0, <1>1, <1>2, <1>4, EndOfVisit
  <2>. QED
    BY <2>1, <2>2 DEF LeaseInv
<1>. QED
  BY <1>3, <1>4 DEF Inspect, Job

(* The unlinks of a janitor, and the return of its lock.                     *)
LEMMA DeleteInv ==
  ASSUME LeaseAssumption, LeaseInv, NEW w \in Processes, Delete(w)
  PROVE  LeaseInv'
<1> DEFINE q == janitor[w].path
<1>0. DiskType /\ NoDownloadMoves
  BY DEF LeaseInv, Delete, NoDownloadMoves
<1>1. janitor[w].at = "delete" /\ Unlock(w) /\ Rest(w)
  BY DEF Delete, Job
<1>2. q \in Paths
  BY <1>0, <1>1 DEF DiskType, Idle
<1>3. \/ /\ janitor[w].what = "file" /\ tmp' = tmp
         /\ file' = [file EXCEPT ![q] = None] /\ marker' = [marker EXCEPT ![q] = None]
      \/ /\ janitor[w].what = "marker" /\ marker' = [marker EXCEPT ![q] = None]
         /\ UNCHANGED <<file, tmp>>
      \/ tmp' = [tmp EXCEPT ![q] = None] /\ UNCHANGED <<file, marker>>
      \/ UNCHANGED <<file, marker, tmp>>
  BY DEF Delete, Job
<1>4. /\ marker' \in [Paths -> [owner : Downloads, left : 0 .. Ttl] \cup {None}]
      /\ file' \in [Paths -> [bytes : 0 .. MaxBytes, age : Nat] \cup {None}]
      /\ \A p \in Paths : p # q => file'[p] = file[p] /\ marker'[p] = marker[p]
      /\ marker'[q] \in {marker[q], None} /\ file'[q] \in {file[q], None}
      /\ file'[q] # file[q] \/ marker'[q] # marker[q] => janitor[w].what \in {"file", "marker"}
  BY <1>0, <1>2, <1>3 DEF DiskType
<1>5. \A p \in Paths : p # q => tmp'[p] = tmp[p]
  BY <1>0, <1>2, <1>3 DEF DiskType
<1>6. DiskType'
  BY <1>0, <1>1, <1>2, <1>3, <1>4, UnlockedLocks DEF DiskType, Rest, NoDownloadMoves
<1>7. \A d \in Downloads : Safe(d)'
  BY <1>0, <1>1, <1>2, <1>4, <1>5, EndOfVisit
<1>. QED
  BY <1>6, <1>7 DEF LeaseInv

-----------------------------------------------------------------------------
(* Crashes and time.                                                         *)

(* A crash ends the downloads of its process and leaves the others alone.    *)
LEMMA CrashInv ==
  ASSUME LeaseAssumption, LeaseInv, NEW w \in Processes, Crash(w)
  PROVE  LeaseInv'
<1> DEFINE dying == {d \in Downloads : Home[d] = w /\ at[d] # "new"}
<1>0. DiskType
  BY DEF LeaseInv
<1>1. /\ at' = [d \in Downloads |-> IF d \in dying THEN "over" ELSE at[d]]
      /\ leg' = [d \in Downloads |-> IF d \in dying THEN 1 ELSE leg[d]]
      /\ timer' = [d \in Downloads |-> IF d \in dying THEN 0 ELSE timer[d]]
      /\ UNCHANGED <<file, marker, lock>>
      /\ janitor' = [janitor EXCEPT ![w] = Idle]
  BY DEF Crash, Forget
<1>2. tmp' = [p \in Paths |->
          IF p[1] \in dying /\ at[p[1]] \in {"binding", "promoting", "renewing"}
             /\ lock[p] # None /\ lock[p].by = p[1]
            THEN 0 ELSE tmp[p]]
  BY DEF Crash
<1> HIDE DEF dying
<1>3. \A v \in Processes : janitor'[v] \in {janitor[v], Idle}
  BY <1>0, <1>1 DEF DiskType
<1>4. DiskType'
  <2>1. tmp' \in [Paths -> Nat \cup {None}]
    BY <1>0, <1>2 DEF DiskType
  <2>2. /\ at' \in [Downloads -> {"new", "reserved", "stream", "fetched", "ready",
                                  "releasing", "over"} \cup Sections]
        /\ leg' \in [Downloads -> {1, 2}] /\ timer' \in [Downloads -> Nat]
    BY <1>0, <1>1 DEF DiskType
  <2>3. janitor' \in [Processes -> {Idle} \cup
          [at : {"try", "stale", "retry", "inside", "delete"}, path : Paths,
           what : {"file", "marker", "lock", "tmp"}, urgent : BOOLEAN]]
    BY <1>0, <1>1 DEF DiskType
  <2>. QED
    BY <1>0, <1>1, <2>1, <2>2, <2>3 DEF DiskType
<1>5. ASSUME NEW d \in Downloads
      PROVE  Safe(d)'
  <2>1. CASE d \in dying
    <3>1. at'[d] = "over" /\ lock' = lock
      BY <1>1, <1>5, <2>1
    <3>. QED
      BY <1>5, <3>1, GoneIsSafe
  <2>2. CASE d \notin dying
    <3>1. at'[d] = at[d] /\ leg'[d] = leg[d] /\ timer'[d] = timer[d]
      BY <1>1, <1>5, <2>2
    <3>2. \A p \in PathsOf(d) : p \in Paths /\ p[1] = d
      BY DEF PathsOf
    <3>3. \A p \in PathsOf(d) : tmp'[p] = tmp[p]
      BY <1>2, <2>2, <3>2
    <3>4. Safe(d)
      BY <1>5 DEF LeaseInv
    <3>. QED
      BY <1>0, <1>1, <1>3, <1>5, <3>1, <3>3, <3>4, Elsewhere
  <2>. QED
    BY <2>1, <2>2
<1>. QED
  BY <1>4, <1>5 DEF LeaseInv

(* Ages grow by at most one, and times left shrink by at most one.           *)
LEMMA OneTick ==
  ASSUME LeaseAssumption, NEW a \in Nat
  PROVE  /\ Older(a) \in Nat /\ Older(a) <= a + 1
         /\ Max({0, a - 1}) \in Nat /\ Max({0, a - 1}) <= a /\ Max({0, a - 1}) >= a - 1
<1>1. Old \in Nat
  BY DEF Old, LeaseAssumption
<1>2. \E x \in {Old, a + 1} : \A y \in {Old, a + 1} : x <= y
  <2>1. CASE Old <= a + 1
    BY <1>1, <2>1
  <2>2. CASE a + 1 <= Old
    BY <1>1, <2>2
  <2>. QED
    BY <1>1, <2>1, <2>2
<1>3. Older(a) \in {Old, a + 1} /\ \A y \in {Old, a + 1} : Older(a) <= y
  BY <1>2 DEF Older, Min
<1>4. \E x \in {0, a - 1} : \A y \in {0, a - 1} : x >= y
  <2>1. CASE a - 1 <= 0
    BY <2>1
  <2>2. CASE 0 <= a - 1
    BY <2>2
  <2>. QED
    BY <2>1, <2>2
<1>5. Max({0, a - 1}) \in {0, a - 1} /\ \A y \in {0, a - 1} : Max({0, a - 1}) >= y
  BY <1>4 DEF Max
<1>. QED
  BY <1>1, <1>3, <1>5

(* Time passes: locks and leases age, and so do the downloads under way.     *)
LEMMA TickInv ==
  ASSUME LeaseAssumption, LeaseInv, Tick
  PROVE  LeaseInv'
<1>0. DiskType
  BY DEF LeaseInv
<1>1. /\ InTime
      /\ file' = [p \in Paths |->
            IF file[p] = None THEN None ELSE [file[p] EXCEPT !.age = Older(file[p].age)]]
      /\ lock' = [p \in Paths |->
            IF lock[p] = None THEN None ELSE [lock[p] EXCEPT !.age = Older(lock[p].age)]]
      /\ tmp' = [p \in Paths |-> IF tmp[p] = None THEN None ELSE Older(tmp[p])]
      /\ marker' = [p \in Paths |-> IF marker[p] = None THEN None
                       ELSE [marker[p] EXCEPT !.left = Max({0, marker[p].left - 1})]]
      /\ timer' = [d \in Downloads |->
            IF at[d] \in {"new", "over"} THEN timer[d] ELSE timer[d] + 1]
      /\ UNCHANGED <<at, leg, janitor>>
  BY DEF Tick
<1>2. ASSUME NEW p \in Paths
      PROVE  /\ file'[p] \in [bytes : 0 .. MaxBytes, age : Nat] \cup {None}
             /\ file'[p] = None <=> file[p] = None
  <2>1. CASE file[p] = None
    BY <1>1, <1>2, <2>1
  <2>2. CASE file[p] # None
    <3>1. /\ file[p] \in [bytes : 0 .. MaxBytes, age : Nat]
          /\ file'[p] = [file[p] EXCEPT !.age = Older(file[p].age)]
      BY <1>0, <1>1, <1>2, <2>2 DEF DiskType
    <3>2. file'[p] \in [bytes : 0 .. MaxBytes, age : Nat]
      BY <3>1, OneTick
    <3>3. file'[p] # None
      BY <3>2 DEF LeaseAssumption
    <3>. QED
      BY <2>2, <3>2, <3>3
  <2>. QED
    BY <2>1, <2>2
<1>3. ASSUME NEW p \in Paths
      PROVE  /\ lock'[p] \in [by : Downloads \cup Processes, age : Nat] \cup {None}
             /\ lock'[p] # None => /\ lock[p] # None /\ lock'[p].by = lock[p].by
                                   /\ lock'[p].age <= lock[p].age + 1
                                   /\ lock[p].age \in Nat
  <2>1. CASE lock[p] = None
    BY <1>1, <1>3, <2>1
  <2>2. CASE lock[p] # None
    <3>1. /\ lock[p] \in [by : Downloads \cup Processes, age : Nat]
          /\ lock'[p] = [lock[p] EXCEPT !.age = Older(lock[p].age)]
      BY <1>0, <1>1, <1>3, <2>2 DEF DiskType
    <3>2. Older(lock[p].age) \in Nat /\ Older(lock[p].age) <= lock[p].age + 1
      BY <3>1, OneTick
    <3>. QED
      BY <2>2, <3>1, <3>2
  <2>. QED
    BY <2>1, <2>2
<1>4. ASSUME NEW p \in Paths
      PROVE  /\ marker'[p] \in [owner : Downloads, left : 0 .. Ttl] \cup {None}
             /\ marker'[p] = None <=> marker[p] = None
             /\ marker[p] # None =>
                   marker'[p].left >= marker[p].left - 1 /\ marker[p].left \in Int
  <2>1. CASE marker[p] = None
    BY <1>1, <1>4, <2>1
  <2>2. CASE marker[p] # None
    <3>1. /\ marker[p] \in [owner : Downloads, left : 0 .. Ttl]
          /\ marker'[p] = [marker[p] EXCEPT !.left = Max({0, marker[p].left - 1})]
      BY <1>0, <1>1, <1>4, <2>2 DEF DiskType
    <3>2. marker[p].left \in Nat /\ marker[p].left <= Ttl /\ Ttl \in Nat
      BY <3>1 DEF LeaseAssumption
    <3>3. /\ Max({0, marker[p].left - 1}) \in 0 .. Ttl
          /\ Max({0, marker[p].left - 1}) >= marker[p].left - 1
      BY <3>2, OneTick
    <3>4. marker'[p] \in [owner : Downloads, left : 0 .. Ttl]
      BY <3>1, <3>3
    <3>5. marker'[p] # None
      BY <3>4 DEF LeaseAssumption
    <3>. QED
      BY <2>2, <3>1, <3>2, <3>3, <3>4, <3>5
  <2>. QED
    BY <2>1, <2>2
<1>5. ASSUME NEW p \in Paths
      PROVE  tmp'[p] \in Nat \cup {None} /\ (tmp[p] = None => tmp'[p] = None)
  BY <1>0, <1>1, <1>5, OneTick DEF DiskType
<1>6. DiskType'
  <2>1. timer' \in [Downloads -> Nat]
    BY <1>0, <1>1 DEF DiskType
  <2>2. lock' \in [Paths -> [by : Downloads \cup Processes, age : Nat] \cup {None}]
    BY <1>1, <1>3
  <2>3. file' \in [Paths -> [bytes : 0 .. MaxBytes, age : Nat] \cup {None}]
    BY <1>1, <1>2
  <2>4. marker' \in [Paths -> [owner : Downloads, left : 0 .. Ttl] \cup {None}]
    BY <1>1, <1>4
  <2>5. tmp' \in [Paths -> Nat \cup {None}]
    BY <1>1, <1>5
  <2>. QED
    BY <1>0, <1>1, <2>1, <2>2, <2>3, <2>4, <2>5 DEF DiskType
<1>7. ASSUME NEW d \in Downloads
      PROVE  Safe(d)'
  <2>0. Safe(d) /\ timer[d] \in Nat
    BY <1>0, <1>7 DEF LeaseInv, DiskType
  <2>1. /\ Full(d)' = Full(d) /\ Source(d)' = Source(d) /\ PathsOf(d)' = PathsOf(d)
        /\ Ahead(d)' = Ahead(d) /\ Ahead(d) \subseteq PathsOf(d)
    BY <1>1 DEF Full, Source, PathsOf, Paths, Ahead
  <2>2. /\ Full(d) \in PathsOf(d) /\ Source(d) \in PathsOf(d) /\ PathsOf(d) \subseteq Paths
    BY <1>0, <1>7, PathFacts
  <2>3. \/ at[d] = "new" /\ timer'[d] = timer[d]
        \/ at[d] = "over" /\ timer'[d] = timer[d]
        \/ at[d] \in {"reserved", "stream"} /\ timer[d] < Deadline /\ timer'[d] = timer[d] + 1
        \/ at[d] = "ready" /\ timer[d] < RenewEvery /\ timer'[d] = timer[d] + 1
    BY <1>1, <1>7 DEF InTime
  <2>4. \A w \in Processes : janitor'[w].at = "idle"
    BY <1>1 DEF InTime, Idle
  <2>5. Untouched(d)'
    <3>1. \A p \in PathsOf(d) : p \in Paths
      BY <2>2
    <3>. QED
      BY <1>1, <1>2, <1>3, <1>4, <1>5, <2>0, <2>1, <2>3, <2>4, <3>1 DEF Safe, Untouched
  <2>6. LocksAreYoung(d)'
    <3>1. \A p \in Ahead(d) : p \in Paths
      BY <2>1, <2>2
    <3>2. at[d] = "new" => \A p \in Ahead(d) : lock[p] = None
      BY <2>0, <2>1 DEF Safe, Untouched
    <3>3. at[d] = "over" => Ahead(d) = {}
      BY DEF Ahead, Making
    <3>4. \A p \in Ahead(d) : lock'[p] # None => lock'[p].age <= timer'[d]
      <4>1. ASSUME NEW p \in Ahead(d), lock'[p] # None
            PROVE  lock'[p].age <= timer'[d]
        <5>1. /\ lock[p] # None /\ lock'[p].age <= lock[p].age + 1 /\ lock[p].age \in Nat
              /\ lock'[p].age \in Nat
          BY <1>3, <3>1, <4>1
        <5>2. timer'[d] = timer[d] + 1 /\ lock[p].age <= timer[d]
          BY <2>0, <2>3, <3>2, <3>3, <4>1, <5>1 DEF Safe, LocksAreYoung
        <5>. QED
          BY <2>0, <5>1, <5>2
      <4>. QED
        BY <4>1
    <3>5. /\ at[d] \in Making => timer'[d] <= Deadline
          /\ at[d] \in {"ready", "renewing"} => timer'[d] <= RenewEvery
      BY <2>0, <2>3 DEF Making, LeaseAssumption
    <3>6. at[d] \notin {"promoting", "fetched", "clean", "cleaning"}
      BY <2>3
    <3>. QED
      BY <1>1, <2>1, <3>4, <3>5, <3>6 DEF LocksAreYoung
  <2>7. LocksAreHeld(d)'
    <3>1. Locking(d)' = {}
      BY <1>1, <2>3 DEF Locking
    <3>2. \A p \in PathsOf(d) : lock'[p] # None => lock'[p].by \in {d} \cup Processes
      BY <1>3, <2>0, <2>2 DEF Safe, LocksAreHeld
    <3>. QED
      BY <2>1, <3>1, <3>2 DEF LocksAreHeld
  <2>8. JanitorsBehave(d)'
    BY <2>4 DEF JanitorsBehave
  <2>9. NeededAreLeased(d)'
    <3>1. ASSUME NEW p \in PathsOf(d), Leased(p, timer[d]), timer'[d] = timer[d] + 1
          PROVE  file'[p] # None /\ marker'[p] # None /\ marker'[p].left + timer'[d] >= Ttl
      <4>1. p \in Paths
        BY <2>2, <3>1
      <4>2. /\ file'[p] # None /\ marker'[p] # None /\ marker'[p].left \in Int
            /\ marker'[p].left >= marker[p].left - 1 /\ marker[p].left \in Int
        BY <1>2, <1>4, <3>1, <4>1 DEF Leased
      <4>. QED
        BY <2>0, <3>1, <4>2 DEF Leased, LeaseAssumption
    <3>2. at[d] = "ready" => Leased(Full(d), timer[d])'
      BY <1>1, <2>0, <2>1, <2>2, <2>3, <3>1 DEF Safe, NeededAreLeased, Leased
    <3>3. at[d] = "stream" /\ leg[d] = 2 /\ timer'[d] < Deadline => Leased(Source(d), timer[d])'
      BY <1>1, <2>0, <2>1, <2>2, <2>3, <3>1
      DEF Safe, NeededAreLeased, Leased, LeaseAssumption
    <3>4. at[d] = "reserved" => leg[d] = 1
      BY <2>0 DEF Safe, NeededAreLeased
    <3>. QED
      BY <1>1, <2>3, <3>2, <3>3, <3>4 DEF NeededAreLeased
  <2>. QED
    BY <2>5, <2>6, <2>7, <2>8, <2>9 DEF Safe
<1>. QED
  BY <1>6, <1>7 DEF LeaseInv

-----------------------------------------------------------------------------

(* DiskBudget's leases (resource_budget.py): no janitor, of this or of       *)
(* another process, critical disk or not, removes a file that a download or  *)
(* its user still counts on, and none is in its locked code for a path where *)
(* a download is in its own, whatever crashes, expires or is found stale.    *)
THEOREM LeasesHold == Spec => []FilesStay
<1>1. LeaseAssumption
  BY LeaseAssumption
<1>2. Init => LeaseInv
  BY <1>1, InitLeases
<1>3. LeaseInv /\ [Next]_vars => LeaseInv'
  <2> SUFFICES ASSUME LeaseInv, [Next]_vars PROVE LeaseInv'
    OBVIOUS
  <2>1. ASSUME NEW d \in Downloads, Download(d) PROVE LeaseInv'
    BY <1>1, <2>1, ReserveInv, BindInv, EndBindInv, WriteInv, PromoteInv, EndPromoteInv,
       CleanInv, EndCleanInv, HandInv, RenewInv, EndRenewInv, LeaveInv, FinishReleaseInv
    DEF Download
  <2>2. ASSUME NEW w \in Processes, Visit(w) PROVE LeaseInv'
    BY <1>1, <2>2, TryLockInv, BreakLockInv, InspectInv, DeleteInv DEF Visit
  <2>3. ASSUME NEW w \in Processes, NEW p \in Paths,
               NEW what \in {"file", "marker", "lock", "tmp"}, NEW urgent \in BOOLEAN,
               Find(w, p, what, urgent)
        PROVE  LeaseInv'
    BY <1>1, <2>3, FindInv
  <2>4. ASSUME NEW w \in Processes, Others(w) \/ Crash(w) PROVE LeaseInv'
    BY <1>1, <2>4, OthersInv, CrashInv
  <2>5. CASE Tick
    BY <1>1, <2>5, TickInv
  <2>6. CASE UNCHANGED vars
    <3>1. UNCHANGED <<file, marker, lock, tmp, at, leg, timer, janitor>>
      BY <2>6 DEF vars
    <3>2. DiskType'
      BY <3>1 DEF LeaseInv, DiskType
    <3>3. \A e \in Downloads : Safe(e)'
      BY <3>1, Elsewhere DEF LeaseInv
    <3>. QED
      BY <3>2, <3>3 DEF LeaseInv
  <2>. QED
    BY <2>1, <2>2, <2>3, <2>4, <2>5, <2>6 DEF Next
<1>4. LeaseInv => FilesStay
  BY <1>1, SafeImpliesFilesStay
<1>. QED
  BY <1>2, <1>3, <1>4, PTL DEF Spec
=============================================================================
