-------------------------- MODULE ProcessSupervisor --------------------------
(***************************************************************************)
(* ProcessSupervisor of app/core/process.py on a POSIX system: how calls   *)
(* of run and open get their slots, start a process group, and take it     *)
(* down again on return, failure, cancellation or cancel_owner.            *)
(*                                                                         *)
(* A step is what a task does between two awaits.  The supervisor's lock   *)
(* is never held across an await, so it never makes anyone wait.  What     *)
(* runs under asyncio.shield goes on when its caller is cancelled: `down`  *)
(* is the teardown of a handle under the handle's lock, `end` the closing  *)
(* work of _finish and of _start's error path.  A caller whose last await  *)
(* is such work has "left": it may go before the work is done.             *)
(***************************************************************************)
EXTENDS Integers, Sequences, FiniteSets

CONSTANTS
    Calls,         \* calls of run and open
    Owners,        \* request tokens, or the tasks that stand for them
    OwnerOf,       \* the owner of each call
    Opens,         \* the calls of open; the others are calls of run
    Inner,         \* the call that a call's body may make (a pipe), or None
    None,
    MaxProcesses,  \* workload slots; there are twice as many process slots
    MaxCancels     \* bound: cancellations of single calls

\* What the constants must satisfy.
SupervisorAssumption ==
    /\ IsFiniteSet(Calls)
    /\ OwnerOf \in [Calls -> Owners]
    /\ Opens \subseteq Calls
    /\ None \notin Calls /\ Inner \in [Calls -> Calls \cup {None}]
    /\ MaxProcesses \in Nat \ {0}
    /\ MaxCancels \in Nat

VARIABLES
    workload,    \* self._workload_slots
    process,     \* self._process_slots
    refs,        \* self._owner_slot_refs
    generation,  \* self._owner_generation, 1 once the owner is cancelled
    registered,  \* the handles in self._by_owner
    at,          \* where each call is
    born,        \* the generation each call was made in
    tree,        \* each call's process group
    down,        \* handle.cancel: not begun, working, done, or interrupted
    end,         \* the shielded closing work of each call
    reap,        \* handles that cancel_owner is taking down
    cancels      \* cancellations of calls so far

slots == <<workload, process, refs>>
vars == <<workload, process, refs, generation, registered, at, born, tree,
          down, end, reap, cancels>>

Places == {"new", "called", "workload", "process", "spawning", "aborting",
           "running", "cancelling", "flushing", "left"}

Semaphore(n) == [free : 0 .. n, waiting : Seq(Calls), granted : SUBSET Calls]

(* Every variable keeps its type, and no semaphore exceeds its capacity.      *)
TypeOK ==
    /\ workload \in Semaphore(MaxProcesses)
    /\ process \in Semaphore(2 * MaxProcesses)
    /\ refs \in [Owners -> 0 .. Cardinality(Calls)]
    /\ generation \in [Owners -> 0 .. 1]
    /\ registered \subseteq Calls
    /\ at \in [Calls -> Places]
    /\ born \in [Calls -> 0 .. 1]
    /\ tree \in [Calls -> {"none", "alive", "exited", "dead"}]
    /\ down \in [Calls -> {"no", "working", "done", "interrupted"}]
    /\ end \in [Calls -> {"no", "owner", "closing", "done"}]
    /\ reap \subseteq Calls
    /\ cancels \in 0 .. MaxCancels

Init ==
    /\ workload = [free |-> MaxProcesses, waiting |-> << >>, granted |-> {}]
    /\ process = [free |-> 2 * MaxProcesses, waiting |-> << >>, granted |-> {}]
    /\ refs = [o \in Owners |-> 0]
    /\ generation = [o \in Owners |-> 0]
    /\ registered = {}
    /\ at = [c \in Calls |-> "new"]
    /\ born = [c \in Calls |-> 0]
    /\ tree = [c \in Calls |-> "none"]
    /\ down = [c \in Calls |-> "no"]
    /\ end = [c \in Calls |-> "no"]
    /\ reap = {}
    /\ cancels = 0

-----------------------------------------------------------------------------
(* asyncio.Semaphore: first come first served; a waiter cancelled after it  *)
(* was granted passes the slot on.                                          *)

CanTake(s) == s.free > 0 /\ s.waiting = << >>
Take(s) == [s EXCEPT !.free = @ - 1]
Await(s, c) == [s EXCEPT !.waiting = Append(@, c)]
Give(s) ==
    IF s.waiting = << >>
      THEN [s EXCEPT !.free = @ + 1]
      ELSE [s EXCEPT !.waiting = Tail(@), !.granted = @ \cup {Head(s.waiting)}]
Resume(s, c) == [s EXCEPT !.granted = @ \ {c}]
\* A waiter leaves the deque, where it stands once.
Without(q, c) ==
    LET i == CHOOSE i \in DOMAIN q : q[i] = c
    IN  SubSeq(q, 1, i - 1) \o SubSeq(q, i + 1, Len(q))
Quit(s, c) ==
    IF c \in s.granted
      THEN Give(Resume(s, c))
      ELSE [s EXCEPT !.waiting = Without(@, c)]

Cancelled(c) == generation[OwnerOf[c]] # born[c]

Go(c, place) == at' = [at EXCEPT ![c] = place]

-----------------------------------------------------------------------------
(* _start: two slots, two looks at the owner's generation. *)

\* The second process of a pipe is started in the body of the first.
Call(c) ==
    /\ at[c] = "new"
    /\ \A e \in Calls : Inner[e] = c => at[e] = "running"
    /\ born' = [born EXCEPT ![c] = generation[OwnerOf[c]]]
    /\ Go(c, "called")
    /\ UNCHANGED <<slots, generation, registered, tree, down, end, reap, cancels>>

\* Fault: the error path forgets the owner's slot.
GiveUpKeepingSlot(c) == end' = [end EXCEPT ![c] = "done"] /\ Go(c, "left")

\* The error path of _start before there is a handle: the owner's slot goes
\* back in a shielded task.
GiveUp(c) == end' = [end EXCEPT ![c] = "owner"] /\ Go(c, "left")

\* With its owner's slot: a process slot, and the first look at the generation.
Admit(c) ==
    \/ /\ CanTake(process) /\ ~Cancelled(c)
       /\ process' = Take(process)
       /\ Go(c, "spawning")
       /\ UNCHANGED end
    \/ /\ CanTake(process) /\ Cancelled(c)
       /\ GiveUp(c)
       /\ UNCHANGED process
    \/ /\ ~CanTake(process)
       /\ process' = Await(process, c)
       /\ Go(c, "process")
       /\ UNCHANGED end

\* Fault: a process in the body of another asks for a workload slot of its own.
AcquireOwnerSlotAgain(c) ==
    /\ at[c] = "called"
    /\ \/ /\ CanTake(workload)
          /\ workload' = Take(workload)
          /\ refs' = [refs EXCEPT ![OwnerOf[c]] = @ + 1]
          /\ Admit(c)
       \/ /\ ~CanTake(workload)
          /\ workload' = Await(workload, c)
          /\ Go(c, "workload")
          /\ UNCHANGED <<refs, process, end>>
    /\ UNCHANGED <<generation, registered, born, tree, down, reap, cancels>>

\* An owner takes one workload slot, however many processes it runs.
AcquireOwnerSlot(c) ==
    LET o == OwnerOf[c] IN
    /\ at[c] = "called"
    /\ \/ /\ refs[o] > 0 \/ CanTake(workload)
          /\ workload' = IF refs[o] > 0 THEN workload ELSE Take(workload)
          /\ refs' = [refs EXCEPT ![o] = @ + 1]
          /\ Admit(c)
       \/ /\ refs[o] = 0 /\ ~CanTake(workload)
          /\ workload' = Await(workload, c)
          /\ Go(c, "workload")
          /\ UNCHANGED <<refs, process, end>>
    /\ UNCHANGED <<generation, registered, born, tree, down, reap, cancels>>

\* Two calls of one owner may have waited: the second gives its slot back.
ResumeWorkload(c) ==
    LET o == OwnerOf[c] IN
    /\ at[c] = "workload" /\ c \in workload.granted
    /\ refs' = [refs EXCEPT ![o] = @ + 1]
    /\ workload' = IF refs[o] > 0 THEN Give(Resume(workload, c)) ELSE Resume(workload, c)
    /\ Admit(c)
    /\ UNCHANGED <<generation, registered, born, tree, down, reap, cancels>>

ResumeProcess(c) ==
    /\ at[c] = "process" /\ c \in process.granted
    /\ \/ /\ ~Cancelled(c)
          /\ process' = Resume(process, c)
          /\ Go(c, "spawning")
          /\ UNCHANGED end
       \/ /\ Cancelled(c)
          /\ process' = Give(Resume(process, c))
          /\ GiveUp(c)
    /\ UNCHANGED <<workload, refs, generation, registered, born, tree, down,
                   reap, cancels>>

SpawnFails(c) ==
    /\ at[c] = "spawning"
    /\ process' = Give(process)
    /\ GiveUp(c)
    /\ UNCHANGED <<workload, refs, generation, registered, born, tree, down,
                   reap, cancels>>

\* The second look, after which cancel_owner finds the handle.
Spawned(c) ==
    /\ at[c] = "spawning"
    /\ tree' = [tree EXCEPT ![c] = "alive"]
    /\ \/ /\ ~Cancelled(c)
          /\ registered' = registered \cup {c}
          /\ Go(c, "running")
          /\ UNCHANGED down
       \/ /\ Cancelled(c)
          /\ down' = [down EXCEPT ![c] = "working"]
          /\ Go(c, "aborting")
          /\ UNCHANGED registered
    /\ UNCHANGED <<slots, generation, born, end, reap, cancels>>

-----------------------------------------------------------------------------
(* Taking a process group down. *)

\* The leader exits; what it started may live on in its group.
LeaderExits(c) ==
    /\ tree[c] = "alive"
    /\ tree' = [tree EXCEPT ![c] = "exited"]
    /\ UNCHANGED <<slots, generation, registered, at, born, down, end, reap, cancels>>

\* handle.cancel is idempotent, whoever calls it: only the first call works.
StartCancel(C) ==
    down' = [c \in Calls |-> IF c \in C /\ down[c] = "no" THEN "working" ELSE down[c]]

TornDown(c) == down[c] \in {"done", "interrupted"}

\* _terminate_group, then _cleanup_cancelled_paths.
TearDown(c) ==
    /\ down[c] = "working"
    /\ tree' = [tree EXCEPT ![c] = "dead"]
    /\ down' = [down EXCEPT ![c] = "done"]
    /\ UNCHANGED <<slots, generation, registered, at, born, end, reap, cancels>>

\* _finish up to its first await; later calls of it do nothing.
Finish(c) ==
    /\ end' = [end EXCEPT ![c] = IF @ = "no" THEN "closing" ELSE @]
    /\ registered' = registered \ {c}

ReleaseOwnerSlot(c) ==
    LET o == OwnerOf[c] IN
    /\ refs' = [refs EXCEPT ![o] = @ - 1]
    /\ workload' = IF refs[o] = 1 THEN Give(workload) ELSE workload

\* The rest of _finish: kill what is left of the group, after a teardown that
\* holds the handle's lock, then give both slots back.
Close(c) ==
    /\ \/ /\ end[c] = "closing"
          /\ down[c] # "working"
          /\ tree' = [tree EXCEPT ![c] = "dead"]
          /\ process' = Give(process)
       \/ /\ end[c] = "owner"
          /\ UNCHANGED <<process, tree>>
    /\ ReleaseOwnerSlot(c)
    /\ end' = [end EXCEPT ![c] = "done"]
    /\ UNCHANGED <<generation, registered, at, born, down, reap, cancels>>

-----------------------------------------------------------------------------
(* The ways out of a call. *)

Aborted(c) ==
    /\ at[c] = "aborting" /\ TornDown(c)
    /\ Finish(c)
    /\ Go(c, "left")
    /\ UNCHANGED <<slots, generation, born, tree, down, reap, cancels>>

\* run: communicate returns once the process has ended.
Communicated(c) ==
    /\ at[c] = "running" /\ c \notin Opens /\ tree[c] # "alive"
    /\ Finish(c)
    /\ Go(c, "left")
    /\ UNCHANGED <<slots, generation, born, tree, down, reap, cancels>>

InBody(c) == Inner[c] # None /\ at[Inner[c]] \notin {"new", "left"}

\* The end of an open body, or of a run that failed or was timed out: the
\* process is cancelled, by open only if it has not exited.
BodyEnds(c) ==
    /\ at[c] = "running" /\ ~InBody(c)
    /\ \/ /\ c \in Opens /\ tree[c] # "alive"
          /\ Go(c, "flushing")
          /\ UNCHANGED down
       \/ /\ c \in Opens => tree[c] = "alive"
          /\ StartCancel({c})
          /\ Go(c, "cancelling")
    /\ UNCHANGED <<slots, generation, registered, born, tree, end, reap, cancels>>

CancelDone(c) ==
    /\ at[c] = "cancelling" /\ TornDown(c)
    /\ \/ c \in Opens /\ Go(c, "flushing") /\ UNCHANGED <<end, registered>>
       \/ c \notin Opens /\ Finish(c) /\ Go(c, "left")
    /\ UNCHANGED <<slots, generation, born, tree, down, reap, cancels>>

\* open waits a moment for the rest of stderr.
Flushed(c) ==
    /\ at[c] = "flushing"
    /\ Finish(c)
    /\ Go(c, "left")
    /\ UNCHANGED <<slots, generation, born, tree, down, reap, cancels>>

-----------------------------------------------------------------------------
(* Cancellation of a call, where it awaits. *)

CancelWaiting(c) ==
    \/ /\ at[c] = "called" /\ c \notin Opens
       /\ Go(c, "left")
       /\ UNCHANGED <<slots, end>>
    \/ /\ at[c] = "workload"
       /\ workload' = Quit(workload, c)
       /\ Go(c, "left")
       /\ UNCHANGED <<process, refs, end>>
    \/ /\ at[c] = "process"
       /\ process' = Quit(process, c)
       /\ GiveUp(c)
       /\ UNCHANGED <<workload, refs>>
    \/ /\ at[c] = "spawning"
       /\ process' = Give(process)
       /\ GiveUp(c)
       /\ UNCHANGED <<workload, refs>>

\* Cancelled in its own teardown: run still finishes, open does not.
CancelTeardown(c) ==
    \/ /\ at[c] = "aborting"
       /\ down' = [down EXCEPT ![c] = IF TornDown(c) THEN @ ELSE "interrupted"]
       /\ Finish(c)
       /\ Go(c, "left")
    \/ /\ at[c] = "cancelling" /\ c \notin Opens
       /\ Finish(c)
       /\ Go(c, "left")
       /\ UNCHANGED down
    \/ /\ at[c] \in {"cancelling", "flushing"} /\ c \in Opens
       /\ Go(c, "left")
       /\ UNCHANGED <<end, registered, down>>

Cancel(c) ==
    /\ cancels < MaxCancels /\ cancels' = cancels + 1
    /\ \/ CancelWaiting(c) /\ UNCHANGED <<registered, tree, down>>
       \/ CancelTeardown(c) /\ UNCHANGED <<slots, tree>>
    /\ UNCHANGED <<generation, born, reap>>

\* The owner's tasks are cancelled too: those are the Cancel steps above.  An
\* open reads the generation and asks for its slot in one step, a run may be
\* awaited later than it is made.
CancelOwner(o) ==
    /\ generation[o] = 0
    /\ \A c \in Opens : OwnerOf[c] = o => at[c] # "called"
    /\ generation' = [generation EXCEPT ![o] = 1]
    /\ LET mine == {c \in registered : OwnerOf[c] = o}
       IN  reap' = reap \cup mine /\ StartCancel(mine)
    /\ UNCHANGED <<slots, registered, at, born, tree, end, cancels>>

Reap(c) ==
    /\ c \in reap /\ TornDown(c)
    /\ reap' = reap \ {c}
    /\ Finish(c)
    /\ UNCHANGED <<slots, generation, at, born, tree, down, cancels>>

-----------------------------------------------------------------------------

Starting(c) ==
    \/ AcquireOwnerSlot(c) \/ ResumeWorkload(c) \/ ResumeProcess(c)
    \/ Spawned(c) \/ SpawnFails(c)

Ending(c) ==
    Aborted(c) \/ Communicated(c) \/ BodyEnds(c) \/ CancelDone(c) \/ Flushed(c)

Shielded(c) == TearDown(c) \/ Close(c) \/ Reap(c)

Next ==
    \/ \E c \in Calls :
          \/ Call(c) \/ Starting(c) \/ Ending(c) \/ Shielded(c)
          \/ LeaderExits(c) \/ Cancel(c)
    \/ \E o \in Owners : CancelOwner(o)

Spec == Init /\ [][Next]_vars

-----------------------------------------------------------------------------
(* Properties. *)

HasProcessSlot(c) == at[c] = "spawning" \/ (tree[c] # "none" /\ end[c] # "done")
HasOwnerSlot(c) == at[c] = "process" \/ end[c] = "owner" \/ HasProcessSlot(c)

(* Each slot is free, granted or in use by exactly one owner or process, and  *)
(* each owner's reference count is the number of its calls that use the slot: *)
(* no order of launches, failures, cancellations and teardowns loses a slot   *)
(* or returns one twice.                                                      *)
SlotsAddUp ==
    /\ \A o \in Owners :
          refs[o] = Cardinality({c \in Calls : OwnerOf[c] = o /\ HasOwnerSlot(c)})
    /\ MaxProcesses = workload.free + Cardinality(workload.granted)
                        + Cardinality({o \in Owners : refs[o] > 0})
    /\ 2 * MaxProcesses = process.free + Cardinality(process.granted)
                        + Cardinality({c \in Calls : HasProcessSlot(c)})

(* A slot is not returned while any process of its group may live: the        *)
(* limits bound what really runs, interrupted teardowns included.             *)
LimitsHold ==
    LET living == {c \in Calls : tree[c] \in {"alive", "exited"}}
    IN  /\ Cardinality(living) + process.free + Cardinality(process.granted)
              <= 2 * MaxProcesses
        /\ Cardinality({OwnerOf[c] : c \in living}) + workload.free
              + Cardinality(workload.granted) <= MaxProcesses

\* Calls that are over and whose slots nobody but a cancel_owner returns.
Leaked == {c \in Calls : at[c] = "left" /\ c \in registered /\ c \notin reap}

(* Slots outlive their call in one case only: a call of open cancelled once   *)
(* more while it takes its process down.  A call of run never leaks, and      *)
(* neither does a launch that fails or is cancelled at any of its awaits.     *)
OnlyOpenLeaks == Leaked # {} => Leaked \subseteq Opens /\ cancels > 0

(* The slots bound what really runs, and come back.                           *)
SlotsAreKept == TypeOK /\ SlotsAddUp /\ LimitsHold /\ OnlyOpenLeaks

(* cancel_owner reaches every process of the owner's earlier calls: one that  *)
(* was waiting for a slot, being spawned, running or already finishing when   *)
(* the owner was cancelled is being killed as soon as it exists.              *)
CancelReachesAll ==
    \A c \in Calls :
        Cancelled(c) /\ tree[c] \in {"alive", "exited"} =>
            down[c] = "working" \/ end[c] = "closing"

(* While a call has not ended some task can go on, unless a leaked slot is    *)
(* missing: owners that hold slots and wait for more do not block each other, *)
(* and no waiter is forgotten.  As a call never goes back, all calls end.     *)
NobodyIsStuck ==
    \/ \A c \in Calls : at[c] \in {"new", "left"}
    \/ Leaked # {}
    \/ \E c \in Calls : ENABLED (Starting(c) \/ Ending(c) \/ Shielded(c))

=============================================================================
