----------------------------- MODULE MediaLeases -----------------------------
(***************************************************************************)
(* Media files on the shared volume: DiskBudget and DiskReservation of     *)
(* app/core/resource_budget.py as MediaTransport uses them for one source  *)
(* and an optional transform, and the janitor of app/tasks/janitor.py.     *)
(*                                                                         *)
(* A download writes to "part" and promotes it to "full", once for the     *)
(* source (leg 1) and once for the transform (leg 2); names are random, so *)
(* its paths are its own.  A path may have a file, a lease, a lock and a   *)
(* temporary of the lease.  The code that holds locks does not await, but  *)
(* the janitors are threads, some of them in other processes: a download   *)
(* takes its locks in one step and uses and returns them in the next, and  *)
(* a janitor's steps are single system calls.  A release, whose locks are  *)
(* held for one unlink each, is a single step.                             *)
(***************************************************************************)
EXTENDS Integers, FiniteSets, FiniteSetsExt

CONSTANTS
    Downloads,
    Transforms,   \* the downloads that need a transform
    Processes,    \* each has a janitor
    Home,         \* the process of each download
    None,
    Disk,         \* bytes on the volume
    MaxBytes,     \* transport.max_bytes
    Ttl,          \* lease_ttl
    Deadline,     \* materialization_timeout
    RenewEvery,   \* lease_renew_interval
    MaxAge,       \* MAX_TEMP_AGE_SECONDS
    MaxCrashes    \* bound

ASSUME LeaseAssumption ==
    /\ IsFiniteSet(Downloads) /\ Transforms \subseteq Downloads
    /\ IsFiniteSet(Processes) /\ Home \in [Downloads -> Processes]
    /\ None \notin Downloads \cup Processes /\ Downloads \cap Processes = {}
    /\ None \notin [bytes : Nat, age : Nat] \cup [owner : Downloads, left : Nat]
          \cup [by : Downloads \cup Processes, age : Nat]
    /\ {Disk, MaxBytes, Ttl, Deadline, RenewEvery, MaxAge} \subseteq Nat \ {0}
    /\ MaxCrashes \in Nat
    /\ Deadline <= Ttl /\ Deadline <= MaxAge /\ RenewEvery < Ttl /\ RenewEvery <= MaxAge

VARIABLES
    file,      \* bytes and age of each file, or None
    marker,    \* owner of each lease and its time to live, or None
    lock,      \* holder and age of each lock, or None
    tmp,       \* age of each lease temporary, or None
    at,        \* where each download is
    leg,       \* 1, or 2 for the transform
    size,      \* reservation.size_bytes
    timer,     \* time since the download began, or since the last renewal
    reserved,  \* each process's budget._reserved_bytes
    others,    \* what other downloads of a process have reserved
    janitor,   \* what each janitor is doing
    crashes

disk == <<file, marker, lock, tmp>>
vars == <<file, marker, lock, tmp, at, leg, size, timer, reserved, others, janitor,
          crashes>>

Paths == Downloads \X {1, 2} \X {"part", "full"}
PathsOf(d) == {p \in Paths : p[1] = d}
Part(d) == <<d, leg[d], "part">>
Full(d) == <<d, leg[d], "full">>
Source(d) == <<d, 1, "full">>

Old == MaxAge + 1
Sections == {"binding", "promoting", "clean", "cleaning", "renewing"}
Idle == [at |-> "idle"]

(* Every variable keeps its type.                                             *)
TypeOK ==
    /\ file \in [Paths -> [bytes : 0 .. MaxBytes, age : 0 .. Old] \cup {None}]
    /\ marker \in [Paths -> [owner : Downloads, left : 0 .. Ttl] \cup {None}]
    /\ lock \in [Paths -> [by : Downloads \cup Processes, age : 0 .. Old] \cup {None}]
    /\ tmp \in [Paths -> 0 .. Old \cup {None}]
    /\ at \in [Downloads -> {"new", "reserved", "stream", "fetched", "ready",
                             "releasing", "over"} \cup Sections]
    /\ leg \in [Downloads -> {1, 2}]
    /\ size \in [Downloads -> 0 .. 2 * MaxBytes]
    /\ timer \in [Downloads -> 0 .. Ttl]
    /\ reserved \in [Processes -> 0 .. Disk]
    /\ others \in [Processes -> 0 .. Disk]
    /\ janitor \in [Processes -> {Idle} \cup
          [at : {"try", "stale", "retry", "inside", "delete"}, path : Paths,
           what : {"file", "marker", "lock", "tmp"}, urgent : BOOLEAN]]
    /\ crashes \in 0 .. MaxCrashes

Init ==
    /\ file = [p \in Paths |-> None]
    /\ marker = [p \in Paths |-> None]
    /\ lock = [p \in Paths |-> None]
    /\ tmp = [p \in Paths |-> None]
    /\ at = [d \in Downloads |-> "new"]
    /\ leg = [d \in Downloads |-> 1]
    /\ size = [d \in Downloads |-> 0]
    /\ timer = [d \in Downloads |-> 0]
    /\ reserved = [w \in Processes |-> 0]
    /\ others = [w \in Processes |-> 0]
    /\ janitor = [w \in Processes |-> Idle]
    /\ crashes = 0

Go(d, place) == at' = [at EXCEPT ![d] = place]

Bytes(p) == IF file[p] = None THEN 0 ELSE file[p].bytes
RealFree == Disk - MapThenSumSet(Bytes, Paths)

\* Nobody else of the process runs while a download is in its locked code.
LoopIsFree(d) == \A e \in Downloads \ {d} : Home[e] = Home[d] => at[e] \notin Sections

-----------------------------------------------------------------------------
(* DiskBudget. *)

Available(w) == Max({0, RealFree - reserved[w]})

\* reserve, with the declared size, or with the largest one if there is none.
Reserve(d) ==
    /\ at[d] = "new" /\ LoopIsFree(d)
    /\ \E n \in 0 .. MaxBytes :
          \/ /\ n <= Available(Home[d])
             /\ reserved' = [reserved EXCEPT ![Home[d]] = @ + n]
             /\ size' = [size EXCEPT ![d] = n]
             /\ Go(d, "reserved")
          \/ /\ n > Available(Home[d])
             /\ Go(d, "over")
             /\ UNCHANGED <<reserved, size>>
    /\ UNCHANGED <<disk, leg, timer, others, janitor, crashes>>

\* The other downloads of the process, as a whole; what they write they have
\* reserved, so it is counted once here.
Others(w) ==
    /\ \E d \in Downloads : Home[d] = w /\ at[d] # "over"
    /\ \A d \in Downloads : Home[d] = w => at[d] \notin Sections
    /\ \/ /\ Available(w) > 0
          /\ others' = [others EXCEPT ![w] = @ + 1]
          /\ reserved' = [reserved EXCEPT ![w] = @ + 1]
       \/ /\ others[w] > 0
          /\ others' = [others EXCEPT ![w] = 0]
          /\ reserved' = [reserved EXCEPT ![w] = Max({0, @ - others[w]})]
    /\ UNCHANGED <<disk, at, leg, size, timer, janitor, crashes>>

CanGrow(d, n) == n - size[d] <= Available(Home[d])

Grow(d, n) ==
    /\ size' = [size EXCEPT ![d] = Max({@, n})]
    /\ reserved' = [reserved EXCEPT ![Home[d]] = @ + Max({0, n - size[d]})]

-----------------------------------------------------------------------------
(* Leases, on the download's side. *)

\* The reservation and the item are gone.
Forget(D) ==
    /\ at' = [d \in Downloads |-> IF d \in D THEN "over" ELSE at[d]]
    /\ leg' = [d \in Downloads |-> IF d \in D THEN 1 ELSE leg[d]]
    /\ size' = [d \in Downloads |-> IF d \in D THEN 0 ELSE size[d]]
    /\ timer' = [d \in Downloads |-> IF d \in D THEN 0 ELSE timer[d]]

\* Fault: a release that meets a busy lock keeps its share of the budget.
FinishReleaseIfFree(d) ==
    LET mine == {p \in PathsOf(d) : marker[p] # None}
        busy == {p \in mine : lock[p] # None} IN
    /\ at[d] = "releasing" /\ LoopIsFree(d)
    /\ marker' = [p \in Paths |-> IF p \in mine \ busy THEN None ELSE marker[p]]
    /\ reserved' = IF busy = {} THEN [reserved EXCEPT ![Home[d]] = @ - size[d]] ELSE reserved
    /\ Forget({d})
    /\ UNCHANGED <<file, lock, tmp, others, janitor, crashes>>

\* _finish_release, in its own task: a lease whose lock is busy is left to expire.
FinishRelease(d) ==
    /\ at[d] = "releasing" /\ LoopIsFree(d)
    /\ marker' = [p \in Paths |->
          IF p \in PathsOf(d) /\ lock[p] = None THEN None ELSE marker[p]]
    /\ reserved' = [reserved EXCEPT ![Home[d]] = Max({0, @ - size[d]})]
    /\ Forget({d})
    /\ UNCHANGED <<file, lock, tmp, others, janitor, crashes>>

\* Every error path removes the files, then releases the reservation.
Abandon(d) ==
    /\ file' = [p \in Paths |-> IF p \in PathsOf(d) THEN None ELSE file[p]]
    /\ Go(d, "releasing")

\* _marker_lock of each path: all of them, or the operation fails.
TakeFree(d, paths, section) ==
    /\ \A p \in paths : lock[p] = None
    /\ lock' = [p \in Paths |-> IF p \in paths THEN [by |-> d, age |-> 0] ELSE lock[p]]
    /\ Go(d, section)
    /\ UNCHANGED file

TakeLocks(d, paths, section) ==
    \/ TakeFree(d, paths, section)
    \/ /\ \E p \in paths : lock[p] # None
       /\ Abandon(d)
       /\ UNCHANGED lock

\* A lock that somebody else has put there meanwhile is left alone.
ReturnLocks(d) ==
    lock' = [p \in Paths |-> IF lock[p] # None /\ lock[p].by = d THEN None ELSE lock[p]]

Fresh(d) == [owner |-> d, left |-> Ttl]

\* bind, of a name that is new and so has no lock; in leg 2 after growing the
\* reservation for inputs and output.
Bind(d) ==
    /\ LoopIsFree(d) /\ timer[d] < Deadline
    /\ \/ /\ at[d] = "reserved"
          /\ TakeFree(d, {Part(d)}, "binding")
          /\ UNCHANGED <<size, reserved, leg>>
       \/ LET n == Bytes(Source(d)) + MaxBytes IN
          /\ at[d] = "fetched" /\ d \in Transforms /\ leg[d] = 1
          /\ \/ /\ CanGrow(d, n)
                /\ Grow(d, n)
                /\ leg' = [leg EXCEPT ![d] = 2]
                /\ TakeFree(d, {<<d, 2, "part">>}, "binding")
             \/ /\ ~CanGrow(d, n)
                /\ Abandon(d)
                /\ UNCHANGED <<size, reserved, leg, lock>>
    /\ UNCHANGED <<marker, tmp, timer, others, janitor, crashes>>

EndBind(d) ==
    /\ at[d] = "binding"
    /\ marker' = [marker EXCEPT ![Part(d)] = Fresh(d)]
    /\ ReturnLocks(d)
    /\ Go(d, "stream")
    /\ UNCHANGED <<file, tmp, leg, size, timer, reserved, others, janitor, crashes>>

\* One chunk, reserved before it is written; or the transform's output, for
\* which all is reserved.
Write(d) ==
    LET n == Bytes(Part(d)) + 1 IN
    /\ at[d] = "stream" /\ LoopIsFree(d) /\ timer[d] < Deadline
    /\ \/ /\ n <= MaxBytes /\ (leg[d] = 2 \/ CanGrow(d, n))
          /\ IF leg[d] = 1 THEN Grow(d, n) ELSE UNCHANGED <<size, reserved>>
          /\ file' = [file EXCEPT ![Part(d)] = [bytes |-> n, age |-> 0]]
          /\ UNCHANGED at
       \/ /\ n > MaxBytes \/ (leg[d] = 1 /\ ~CanGrow(d, n))
          /\ Abandon(d)
          /\ UNCHANGED <<size, reserved>>
    /\ UNCHANGED <<marker, lock, tmp, leg, timer, others, janitor, crashes>>

\* promote, with both locks.
Promote(d) ==
    /\ at[d] = "stream" /\ LoopIsFree(d) /\ timer[d] < Deadline
    /\ Bytes(Part(d)) > 0
    /\ TakeLocks(d, {Part(d), Full(d)}, "promoting")
    /\ UNCHANGED <<marker, tmp, leg, size, timer, reserved, others, janitor, crashes>>

\* The new lease, the rename, and the end of the old lease.
EndPromote(d) ==
    /\ at[d] = "promoting"
    /\ marker' = [marker EXCEPT ![Full(d)] = Fresh(d), ![Part(d)] = None]
    /\ file' = [file EXCEPT ![Full(d)] = file[Part(d)], ![Part(d)] = None]
    /\ ReturnLocks(d)
    /\ Go(d, IF leg[d] = 1 THEN "fetched" ELSE "clean")
    /\ UNCHANGED <<tmp, leg, size, timer, reserved, others, janitor, crashes>>

\* After a transform its input is removed and unbound.
Clean(d) ==
    /\ at[d] = "clean"
    /\ \/ /\ lock[Source(d)] = None
          /\ lock' = [lock EXCEPT ![Source(d)] = [by |-> d, age |-> 0]]
          /\ file' = [file EXCEPT ![Source(d)] = None]
          /\ Go(d, "cleaning")
       \/ /\ lock[Source(d)] # None
          /\ Abandon(d)
          /\ UNCHANGED lock
    /\ UNCHANGED <<marker, tmp, leg, size, timer, reserved, others, janitor, crashes>>

EndClean(d) ==
    /\ at[d] = "cleaning"
    /\ marker' = [marker EXCEPT ![Source(d)] = None]
    /\ ReturnLocks(d)
    /\ Go(d, "fetched")
    /\ UNCHANGED <<file, tmp, leg, size, timer, reserved, others, janitor, crashes>>

\* The item goes to its users, who renew its lease at once and then in a loop.
Hand(d) ==
    /\ at[d] = "fetched" /\ (d \in Transforms => leg[d] = 2)
    /\ timer[d] < Deadline
    /\ Go(d, "ready")
    /\ timer' = [timer EXCEPT ![d] = 0]
    /\ UNCHANGED <<disk, leg, size, reserved, others, janitor, crashes>>

Renew(d) ==
    /\ at[d] = "ready" /\ LoopIsFree(d)
    /\ TakeLocks(d, {Full(d)}, "renewing")
    /\ UNCHANGED <<marker, tmp, leg, size, timer, reserved, others, janitor, crashes>>

\* Fault: the lease is written back with the time it had left.
EndRenewUnchanged(d) ==
    /\ at[d] = "renewing"
    /\ ReturnLocks(d)
    /\ timer' = [timer EXCEPT ![d] = 0]
    /\ Go(d, "ready")
    /\ UNCHANGED <<file, marker, tmp, leg, size, reserved, others, janitor, crashes>>

\* renew refuses a lease that is somebody else's and writes one that is gone.
EndRenew(d) ==
    /\ at[d] = "renewing"
    /\ marker' = [marker EXCEPT ![Full(d)] = Fresh(d)]
    /\ ReturnLocks(d)
    /\ timer' = [timer EXCEPT ![d] = 0]
    /\ Go(d, "ready")
    /\ UNCHANGED <<file, tmp, leg, size, reserved, others, janitor, crashes>>

\* A failure, a timeout or a cancellation at an await, or the last user leaves.
Leave(d) ==
    /\ at[d] \in {"reserved", "stream", "fetched", "ready"} /\ LoopIsFree(d)
    /\ Abandon(d)
    /\ UNCHANGED <<marker, lock, tmp, leg, size, timer, reserved, others, janitor, crashes>>

-----------------------------------------------------------------------------
(* The janitor. *)

Job(w) == janitor[w]
Turn(w, place) == janitor' = [janitor EXCEPT ![w].at = place]
Rest(w) == janitor' = [janitor EXCEPT ![w] = Idle]

Here(p, what) ==
    CASE what = "file" -> file[p] # None
      [] what = "marker" -> marker[p] # None
      [] what = "lock" -> lock[p] # None
      [] what = "tmp" -> tmp[p] # None

\* A name in the listing, of a regular pass or of the purge that follows a
\* critical reading of the disk, which may be out of date by now.
Find(w, p, what, urgent) ==
    /\ janitor[w] = Idle /\ Here(p, what)
    /\ urgent => what = "file"
    /\ janitor' = [janitor EXCEPT ![w] =
          [at |-> "try", path |-> p, what |-> what, urgent |-> urgent]]
    /\ UNCHANGED <<disk, at, leg, size, timer, reserved, others, crashes>>

\* _marker_lock: a fresh lock is respected, one that goes before its age is
\* read is tried again, and the second attempt is the last.
TryLock(w) ==
    LET p == Job(w).path
        first == Job(w).at = "try" IN
    /\ Job(w).at \in {"try", "retry"}
    /\ \/ /\ lock[p] = None
          /\ lock' = [lock EXCEPT ![p] = [by |-> w, age |-> 0]]
          /\ Turn(w, "inside")
       \/ /\ lock[p] # None
          /\ \/ first /\ lock[p].age > MaxAge /\ Turn(w, "stale")
             \/ first /\ Turn(w, "retry")
             \/ (first => lock[p].age <= MaxAge) /\ Rest(w)
          /\ UNCHANGED lock
    /\ UNCHANGED <<file, marker, tmp, at, leg, size, timer, reserved, others, crashes>>

\* The unlink removes whatever lock is there by now.
BreakLock(w) ==
    /\ Job(w).at = "stale"
    /\ lock' = [lock EXCEPT ![Job(w).path] = None]
    /\ Turn(w, "retry")
    /\ UNCHANGED <<file, marker, tmp, at, leg, size, timer, reserved, others, crashes>>

Active(p) == marker[p] # None /\ marker[p].left > 0

Deletable(j) ==
    CASE j.what = "file" ->
            /\ file[j.path] # None
            /\ j.urgent \/ file[j.path].age > MaxAge
            /\ ~Active(j.path)
      [] j.what = "marker" -> ~Active(j.path)
      [] j.what = "lock" -> FALSE
      [] j.what = "tmp" -> tmp[j.path] # None /\ tmp[j.path] > MaxAge

Unlock(w) ==
    lock' = [p \in Paths |-> IF lock[p] # None /\ lock[p].by = w THEN None ELSE lock[p]]

Inspect(w) ==
    /\ Job(w).at = "inside"
    /\ \/ Deletable(Job(w)) /\ Turn(w, "delete") /\ UNCHANGED lock
       \/ ~Deletable(Job(w)) /\ Rest(w) /\ Unlock(w)
    /\ UNCHANGED <<file, marker, tmp, at, leg, size, timer, reserved, others, crashes>>

\* A file that cannot be removed keeps its lease, too.
Delete(w) ==
    LET p == Job(w).path IN
    /\ Job(w).at = "delete"
    /\ \/ /\ Job(w).what = "file"
          /\ file' = [file EXCEPT ![p] = None]
          /\ marker' = [marker EXCEPT ![p] = None]
          /\ UNCHANGED tmp
       \/ /\ Job(w).what = "marker"
          /\ marker' = [marker EXCEPT ![p] = None]
          /\ UNCHANGED <<file, tmp>>
       \/ /\ Job(w).what = "tmp"
          /\ tmp' = [tmp EXCEPT ![p] = None]
          /\ UNCHANGED <<file, marker>>
       \/ UNCHANGED <<file, marker, tmp>>
    /\ Unlock(w)
    /\ Rest(w)
    /\ UNCHANGED <<at, leg, size, timer, reserved, others, crashes>>

-----------------------------------------------------------------------------

\* A process dies: its locks and a half-written lease stay behind.
Crash(w) ==
    LET dying == {d \in Downloads : Home[d] = w /\ at[d] # "new"} IN
    /\ crashes < MaxCrashes /\ crashes' = crashes + 1
    /\ janitor' = [janitor EXCEPT ![w] = Idle]
    /\ Forget(dying)
    /\ reserved' = [reserved EXCEPT ![w] = 0]
    /\ tmp' = [p \in Paths |->
          IF p[1] \in dying /\ at[p[1]] \in {"binding", "promoting", "renewing"}
             /\ lock[p] # None /\ lock[p].by = p[1]
            THEN 0 ELSE tmp[p]]
    /\ others' = [others EXCEPT ![w] = 0]
    /\ UNCHANGED <<file, marker, lock>>

\* Locked code and a janitor's single visit are short; a download is over at
\* its deadline, and a renewal is never late.
InTime ==
    /\ \A w \in Processes : janitor[w] = Idle
    /\ \A d \in Downloads :
          \/ at[d] \in {"new", "over"}
          \/ at[d] \in {"reserved", "stream"} /\ timer[d] < Deadline
          \/ at[d] = "ready" /\ timer[d] < RenewEvery

Older(a) == Min({Old, a + 1})

Tick ==
    /\ InTime
    /\ file' = [p \in Paths |->
          IF file[p] = None THEN None ELSE [file[p] EXCEPT !.age = Older(@)]]
    /\ lock' = [p \in Paths |->
          IF lock[p] = None THEN None ELSE [lock[p] EXCEPT !.age = Older(@)]]
    /\ tmp' = [p \in Paths |-> IF tmp[p] = None THEN None ELSE Older(tmp[p])]
    /\ marker' = [p \in Paths |->
          IF marker[p] = None THEN None ELSE [marker[p] EXCEPT !.left = Max({0, @ - 1})]]
    /\ timer' = [d \in Downloads |->
          IF at[d] \in {"new", "over"} THEN timer[d] ELSE timer[d] + 1]
    /\ UNCHANGED <<at, leg, size, reserved, others, janitor, crashes>>

Download(d) ==
    \/ Reserve(d) \/ Bind(d) \/ EndBind(d) \/ Write(d) \/ Promote(d) \/ EndPromote(d)
    \/ Clean(d) \/ EndClean(d) \/ Hand(d) \/ Renew(d) \/ EndRenew(d) \/ Leave(d)
    \/ FinishRelease(d)

Visit(w) == TryLock(w) \/ BreakLock(w) \/ Inspect(w) \/ Delete(w)

Next ==
    \/ \E d \in Downloads : Download(d)
    \/ \E w \in Processes :
          \/ \E p \in Paths, what \in {"file", "marker", "lock", "tmp"}, urgent \in BOOLEAN :
                Find(w, p, what, urgent)
          \/ Visit(w) \/ Others(w) \/ Crash(w)
    \/ Tick

Spec == Init /\ [][Next]_vars

-----------------------------------------------------------------------------
(* Properties. *)

\* The files a download, or a user of its item, still counts on.
Needed(d) ==
    CASE at[d] \in {"stream", "promoting"} /\ timer[d] < Deadline ->
            IF leg[d] = 2 THEN {Source(d)} ELSE {}
      [] at[d] \in {"clean", "cleaning", "fetched", "ready", "renewing"} -> {Full(d)}
      [] OTHER -> {}

(* A janitor, of this or of another process, critical disk or not, never      *)
(* removes a file that a download or a user still counts on.                  *)
NeededFilesStay == \A d \in Downloads : \A p \in Needed(d) : file[p] # None

\* The paths whose locks a download works under.
Locking(d) ==
    CASE at[d] = "binding" -> {Part(d)}
      [] at[d] = "promoting" -> {Part(d), Full(d)}
      [] at[d] = "cleaning" -> {Source(d)}
      [] at[d] = "renewing" -> {Full(d)}
      [] OTHER -> {}

(* While a download changes leases no janitor is in its locked code for the   *)
(* same path: breaking stale locks never breaks one that is in use by a       *)
(* download, even if two janitors see the same stale lock.                    *)
OwnersExcludeJanitors ==
    \A d \in Downloads : \A w \in Processes :
        Job(w).at \in {"inside", "delete"} => Job(w).path \notin Locking(d)

(* A file stays while somebody needs it, under a lock that holds.             *)
FilesStay == NeededFilesStay /\ OwnersExcludeJanitors

(* The budget is the sum of the reservations that are not released, whatever  *)
(* fails, is cancelled, grows or meets a busy lock on its way.                *)
BudgetIsExact ==
    \A w \in Processes :
        reserved[w] = others[w] + MapThenSumSet(LAMBDA d : size[d],
            {d \in Downloads : Home[d] = w /\ at[d] \notin {"new", "over"}})

(* All that is reserved and not yet written still fits on the disk.           *)
ReservedBytesFit ==
    LET unwritten(d) == size[d] - MapThenSumSet(Bytes, PathsOf(d))
        elsewhere(w) == others[w]
    IN  MapThenSumSet(unwritten, {d \in Downloads : at[d] \notin {"new", "over"}})
          + MapThenSumSet(elsewhere, Processes) <= RealFree

(* The promised bytes are known, and there is room for them.                  *)
BudgetHolds == TypeOK /\ BudgetIsExact /\ ReservedBytesFit

=============================================================================
