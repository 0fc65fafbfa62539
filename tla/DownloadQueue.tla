--------------------------- MODULE DownloadQueue ---------------------------
(***************************************************************************)
(* The fair queue of download slots of app/core/download_queue.py, used by *)
(* every heavy handler.  A step is what one asyncio task does between two  *)
(* awaits.  All bookkeeping is done under the queue's asyncio.Lock, which  *)
(* is first come first served; only the "queue full" answer is awaited     *)
(* with the lock held.  A caller can be cancelled at every await.          *)
(***************************************************************************)
EXTENDS Integers, Sequences, FiniteSets, SequencesExt

CONSTANTS
    Tasks,      \* callers; each asks once and releases once
    Slots,      \* initial value of the semaphore
    MaxQueue,   \* max_queue_size
    Free        \* the lock has no holder

\* What the theorems assume of the constants.
QueueAssumption ==
    IsFiniteSet(Tasks) /\ Slots \in Nat /\ MaxQueue \in Nat /\ Free \notin Tasks

VARIABLES
    sem,      \* free slots of the semaphore
    waiters,  \* self._waiters
    waiter,   \* each waiter's state
    at,       \* where each caller is
    lock,     \* holder of the queue lock across an await
    lockq     \* the operations waiting for the lock, first come first served

vars == <<sem, waiters, waiter, at, lock, lockq>>

Places == {"new", "entering", "refusing", "queued", "timedout", "withdrawing",
           "holding", "left", "cancelled"}
Ops == {"enter", "withdraw", "release"}

(* Every variable keeps its type, and the queue its configured bound.         *)
TypeOK ==
    /\ sem \in 0 .. Slots
    /\ waiters \in Seq(Tasks) /\ Len(waiters) <= MaxQueue
    /\ waiter \in [Tasks -> {"none", "waiting", "granted", "cancelled"}]
    /\ at \in [Tasks -> Places]
    /\ lock \in Tasks \cup {Free}
    /\ lockq \in Seq(Tasks \X Ops)

Init ==
    /\ sem = Slots
    /\ waiters = << >>
    /\ waiter = [t \in Tasks |-> "none"]
    /\ at = [t \in Tasks |-> "new"]
    /\ lock = Free
    /\ lockq = << >>

-----------------------------------------------------------------------------
(* What each operation does with the lock. *)

\* _handoff_locked: the oldest waiter gets the slot, or the semaphore does.
\* Only waiters in state "waiting" are in the list.
Handoff ==
    \/ /\ waiters # << >>
       /\ waiter' = [waiter EXCEPT ![Head(waiters)] = "granted"]
       /\ waiters' = Tail(waiters)
       /\ UNCHANGED sem
    \/ /\ waiters = << >>
       /\ sem' = sem + 1
       /\ UNCHANGED <<waiters, waiter>>

\* The locked part of _acquire.
Enter(t) ==
    \/ /\ sem > 0
       /\ sem' = sem - 1
       /\ at' = [at EXCEPT ![t] = "holding"]
       /\ UNCHANGED <<waiters, waiter, lock>>
    \/ /\ sem = 0 /\ Len(waiters) >= MaxQueue
       /\ lock' = t
       /\ at' = [at EXCEPT ![t] = "refusing"]
       /\ UNCHANGED <<sem, waiters, waiter>>
    \/ /\ sem = 0 /\ Len(waiters) < MaxQueue
       /\ waiters' = Append(waiters, t)
       /\ waiter' = [waiter EXCEPT ![t] = "waiting"]
       /\ at' = [at EXCEPT ![t] = "queued"]
       /\ UNCHANGED <<sem, lock>>

\* _withdraw: leave the list, or pass on a slot granted in the same moment.
Withdraw(t) ==
    /\ \/ /\ waiter[t] = "waiting"
          /\ waiter' = [waiter EXCEPT ![t] = "cancelled"]
          /\ \E i \in DOMAIN waiters : waiters[i] = t /\ waiters' = RemoveAt(waiters, i)
          /\ UNCHANGED sem
       \/ /\ waiter[t] = "granted" /\ waiters # << >>
          /\ waiter' = [waiter EXCEPT ![t] = "cancelled", ![Head(waiters)] = "granted"]
          /\ waiters' = Tail(waiters)
          /\ UNCHANGED sem
       \/ /\ waiter[t] = "granted" /\ waiters = << >>
          /\ waiter' = [waiter EXCEPT ![t] = "cancelled"]
          /\ sem' = sem + 1
          /\ UNCHANGED waiters
    /\ at' = [at EXCEPT ![t] = "left"]
    /\ UNCHANGED lock

Locked(t, op) ==
    \/ op = "enter" /\ Enter(t)
    \/ op = "withdraw" /\ Withdraw(t)
    \/ op = "release" /\ Handoff /\ UNCHANGED <<at, lock>>

\* A task that comes to the lock goes on at once if nobody holds or awaits it.
Arrive(t, op, place) ==
    \/ /\ lock = Free /\ lockq = << >>
       /\ Locked(t, op)
       /\ UNCHANGED lockq
    \/ /\ lock # Free \/ lockq # << >>
       /\ lockq' = Append(lockq, <<t, op>>)
       /\ at' = [at EXCEPT ![t] = place]
       /\ UNCHANGED <<sem, waiters, waiter, lock>>

-----------------------------------------------------------------------------
(* Steps of a caller. *)

Acquire(t) ==
    /\ at[t] = "new"
    /\ Arrive(t, "enter", "entering")

\* disk_critical: turned away before the queue is looked at.
Maintenance(t) ==
    /\ at[t] = "new"
    /\ at' = [at EXCEPT ![t] = "left"]
    /\ UNCHANGED <<sem, waiters, waiter, lock, lockq>>

LockGranted ==
    /\ lock = Free /\ lockq # << >>
    /\ Locked(Head(lockq)[1], Head(lockq)[2])
    /\ lockq' = Tail(lockq)

\* The answer "queue full" is delivered, or its sender cancelled.
Refused(t) ==
    /\ at[t] = "refusing"
    /\ lock' = Free
    /\ at' = [at EXCEPT ![t] = "left"]
    /\ UNCHANGED <<sem, waiters, waiter, lockq>>

Granted(t) ==
    /\ at[t] = "queued" /\ waiter[t] = "granted"
    /\ at' = [at EXCEPT ![t] = "holding"]
    /\ UNCHANGED <<sem, waiters, waiter, lock, lockq>>

\* The timeout may win against a grant of the same moment.
Timeout(t) ==
    /\ at[t] = "queued"
    /\ Arrive(t, "withdraw", "timedout")

\* DownloadLease.release: its own task, which no caller can cancel.
Release(t) ==
    /\ at[t] = "holding"
    /\ \/ /\ lock = Free /\ lockq = << >>
          /\ Handoff
          /\ UNCHANGED <<lock, lockq>>
       \/ /\ lock # Free \/ lockq # << >>
          /\ lockq' = Append(lockq, <<t, "release">>)
          /\ UNCHANGED <<sem, waiters, waiter, lock>>
    /\ at' = [at EXCEPT ![t] = "left"]

\* Cancelled while waiting for a slot: withdraw, shielded.
CancelQueued(t) ==
    /\ at[t] = "queued"
    /\ Arrive(t, "withdraw", "withdrawing")

\* Cancelled while waiting for the lock: to enter, or, after a timeout, to
\* withdraw.  That withdrawal is not shielded.
CancelAtLock(t) ==
    /\ at[t] \in {"entering", "timedout"}
    /\ at' = [at EXCEPT ![t] = "cancelled"]
    /\ \E i \in DOMAIN lockq : lockq[i][1] = t /\ lockq' = RemoveAt(lockq, i)
    /\ UNCHANGED <<sem, waiters, waiter, lock>>

Next ==
    \/ \E t \in Tasks :
          \/ Acquire(t) \/ Maintenance(t) \/ Refused(t) \/ Granted(t)
          \/ Timeout(t) \/ Release(t) \/ CancelQueued(t) \/ CancelAtLock(t)
    \/ LockGranted

Spec == Init /\ [][Next]_vars

CallerGoesOn(t) == Granted(t) \/ Refused(t) \/ Release(t)

\* The event loop resumes every task that can go on, and downloads end.
FairSpec ==
    /\ Spec
    /\ WF_vars(LockGranted)
    /\ \A t \in Tasks : WF_vars(CallerGoesOn(t))

-----------------------------------------------------------------------------
(* Properties. *)

\* The callers to which a slot taken from the semaphore belongs.
Owning ==
    {t \in Tasks :
        \/ at[t] = "holding"
        \/ at[t] \in {"queued", "timedout", "withdrawing"} /\ waiter[t] = "granted"
        \/ \E i \in DOMAIN lockq : lockq[i] = <<t, "release">>}

(* Every slot is free, held, on its way to a caller that is still there, or   *)
(* on its way back: no timeout, cancellation or release race loses one.       *)
NoSlotLost == sem + Cardinality(Owning) = Slots

Lost == {t \in Tasks : at[t] = "cancelled" /\ waiter[t] = "granted"}

(* A slot goes missing in one way only: granted to a caller cancelled in the  *)
(* withdrawal after its timeout, the one await that nothing shields.  Every   *)
(* other race of grants, timeouts, cancellations and releases keeps all slots.*)
LostOnlyByTimeout == sem + Cardinality(Owning) + Cardinality(Lost) = Slots

(* Never more downloads at a time than there are slots.                       *)
AtMostSlots == Cardinality({t \in Tasks : at[t] = "holding"}) + sem <= Slots

(* No slot is idle while a caller queues for it, in whatever order releases,  *)
(* timeouts, cancellations and new arrivals reach the lock.                   *)
NoIdleSlot == sem > 0 => waiters = << >>

(* Slots are lost in that one way only, never too many in use, and never idle *)
(* while a caller queues (DownloadQueue._acquire, _withdraw, release).        *)
SlotsAreKept == TypeOK /\ AtMostSlots /\ NoIdleSlot /\ LostOnlyByTimeout

\* The caller queues, and no slot was lost: as long as the downloads before it
\* end it is served, even if its timeout never fires.
Waits(t) == at[t] = "queued" /\ Lost = {}

=============================================================================
