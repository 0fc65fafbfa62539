---------------------------- MODULE SingleFlight ----------------------------
(***************************************************************************)
(* SingleFlightGroup of app/services/media/singleflight.py for one key:    *)
(* concurrent callers share one factory task, the last one to leave an     *)
(* unfinished task cancels it and waits until it has unwound.  The group's *)
(* lock is never held across an await, so do's and _unsubscribe's locked   *)
(* parts are single steps.  Reentry from inside a factory, which raises    *)
(* before the group is touched, is left out.                               *)
(***************************************************************************)
EXTENDS Integers, FiniteSets

CONSTANTS
    Callers,   \* each calls do once
    Flights,   \* identities of _Flight objects; one per caller is enough
    None       \* the group has no flight for the key

\* What the theorems ask of the constants: finitely many callers at a time,
\* and a None that is no flight.
FlightAssumption == IsFiniteSet(Callers) /\ None \notin Flights

VARIABLES
    current,   \* self._flights.get(key)
    task,      \* the factory task of each flight
    subs,      \* flight.subscribers
    at,        \* where each caller is
    mine       \* the flight each caller holds

vars == <<current, task, subs, at, mine>>

(* Every variable keeps its type.                                             *)
TypeOK ==
    /\ current \in Flights \cup {None}
    /\ task \in [Flights -> {"unused", "running", "cancelling", "cancelled", "done"}]
    /\ subs \in [Flights -> 0 .. Cardinality(Callers)]
    /\ at \in [Callers -> {"new", "waiting", "leaving", "joining", "left"}]
    /\ mine \in [Callers -> Flights \cup {None}]

Init ==
    /\ current = None
    /\ task = [f \in Flights |-> "unused"]
    /\ subs = [f \in Flights |-> 0]
    /\ at = [c \in Callers |-> "new"]
    /\ mine = [c \in Callers |-> None]

\* Task.done()
Ended(f) == task[f] \in {"cancelled", "done"}

-----------------------------------------------------------------------------

\* do, up to the await of the shared task.
Subscribe(c, f) ==
    /\ at[c] = "new"
    /\ \/ /\ current = None /\ task[f] = "unused"
          /\ current' = f
          /\ task' = [task EXCEPT ![f] = "running"]
       \/ /\ current = f
          /\ UNCHANGED <<current, task>>
    /\ subs' = [subs EXCEPT ![f] = @ + 1]
    /\ at' = [at EXCEPT ![c] = "waiting"]
    /\ mine' = [mine EXCEPT ![c] = f]

\* The shared task ends, or the caller alone is cancelled (shield); both
\* lead to the uninterruptible unsubscribe.
Wake(c) ==
    /\ at[c] = "waiting" /\ Ended(mine[c])
    /\ at' = [at EXCEPT ![c] = "leaving"]
    /\ UNCHANGED <<current, task, subs, mine>>

CancelCaller(c) ==
    /\ at[c] = "waiting"
    /\ at' = [at EXCEPT ![c] = "leaving"]
    /\ UNCHANGED <<current, task, subs, mine>>

\* Fault: a leaving caller cancels the task whoever else waits for it.
UnsubscribeCancels(c) ==
    LET f == mine[c] IN
    /\ at[c] = "leaving"
    /\ subs' = [subs EXCEPT ![f] = @ - 1]
    /\ current' = None
    /\ task' = [task EXCEPT ![f] = IF Ended(f) THEN @ ELSE "cancelling"]
    /\ at' = [at EXCEPT ![c] = IF Ended(f) THEN "left" ELSE "joining"]
    /\ UNCHANGED mine

\* _unsubscribe: counted off, and with the last subscriber the flight is
\* forgotten and an unfinished task cancelled.  Its early return for a flight
\* that is no longer registered is never taken (HoldersHoldCurrent).
Unsubscribe(c) ==
    LET f == mine[c] IN
    /\ at[c] = "leaving"
    /\ \/ /\ current = f /\ subs[f] > 1
          /\ subs' = [subs EXCEPT ![f] = @ - 1]
          /\ at' = [at EXCEPT ![c] = "left"]
          /\ UNCHANGED <<current, task>>
       \/ /\ current = f /\ subs[f] = 1
          /\ subs' = [subs EXCEPT ![f] = 0]
          /\ current' = None
          /\ \/ /\ Ended(f)
                /\ at' = [at EXCEPT ![c] = "left"]
                /\ UNCHANGED task
             \/ /\ ~Ended(f)
                /\ task' = [task EXCEPT ![f] = "cancelling"]
                /\ at' = [at EXCEPT ![c] = "joining"]
    /\ UNCHANGED mine

Joined(c) ==
    /\ at[c] = "joining" /\ Ended(mine[c])
    /\ at' = [at EXCEPT ![c] = "left"]
    /\ UNCHANGED <<current, task, subs, mine>>

\* The factory returns or raises; a cancelled one unwinds, and may still
\* finish in the normal way.
FactoryEnds(f) ==
    /\ \/ task[f] = "running" /\ task' = [task EXCEPT ![f] = "done"]
       \/ task[f] = "cancelling" /\ \E end \in {"done", "cancelled"} :
             task' = [task EXCEPT ![f] = end]
    /\ UNCHANGED <<current, subs, at, mine>>

CallerStep(c) == Wake(c) \/ Unsubscribe(c) \/ Joined(c)

Next ==
    \/ \E c \in Callers :
          \/ \E f \in Flights : Subscribe(c, f)
          \/ Wake(c) \/ CancelCaller(c) \/ Unsubscribe(c) \/ Joined(c)
    \/ \E f \in Flights : FactoryEnds(f)

Spec == Init /\ [][Next]_vars

\* Resolvers and downloads run under deadlines, so every factory ends.
FairSpec ==
    /\ Spec
    /\ \A c \in Callers : WF_vars(Wake(c)) /\ WF_vars(Unsubscribe(c)) /\ WF_vars(Joined(c))
    /\ \A f \in Flights : WF_vars(FactoryEnds(f))

-----------------------------------------------------------------------------
(* Properties. *)

Subscribed(f) == {c \in Callers : mine[c] = f /\ at[c] \in {"waiting", "leaving"}}

(* The subscriber count of the registered flight is the number of callers     *)
(* that still hold it: no interleaving of leaving callers loses one.          *)
CountIsExact == current # None => subs[current] = Cardinality(Subscribed(current))

(* A flight is unregistered only once nobody holds it, so every holder's      *)
(* flight is the registered one and `current is not flight` never holds.      *)
HoldersHoldCurrent ==
    \A c \in Callers : at[c] \in {"waiting", "leaving"} => mine[c] = current

(* A caller is never made to wait on a task that someone else's cancellation  *)
(* has killed: one caller's cancellation is not shared with the others.       *)
CancellationIsPrivate ==
    \A c \in Callers :
        at[c] = "waiting" => task[mine[c]] \notin {"cancelling", "cancelled"}

(* A factory runs uncancelled only while it is the registered flight and some *)
(* caller holds it: no work goes on for nobody, and none is duplicated by a   *)
(* second registered flight.                                                  *)
NoDetachedWork ==
    \A f \in Flights : task[f] = "running" => current = f /\ Subscribed(f) # {}

(* Callers share one task and no fate: the count is exact, the flight they    *)
(* hold is the registered one, nobody else's cancellation reaches a waiting   *)
(* caller, and no task runs for nobody (SingleFlightGroup.do, _unsubscribe).  *)
FlightIsShared ==
    /\ TypeOK
    /\ CountIsExact
    /\ HoldersHoldCurrent
    /\ CancellationIsPrivate
    /\ NoDetachedWork

\* The caller of do has not returned.
Waits(c) == at[c] \in {"waiting", "leaving", "joining"}

=============================================================================
