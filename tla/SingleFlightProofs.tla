--------------------------- MODULE SingleFlightProofs ---------------------------
(***************************************************************************)
(* SingleFlightGroup (app/services/media/singleflight.py) serves any       *)
(* number of callers: the theorems about SingleFlight.                     *)
(*                                                                         *)
(* The argument.  The registered flight is held by somebody and neither    *)
(* unused nor cancelled, every other flight is held by nobody and does not *)
(* run, and whoever waits or leaves holds the registered one.  So the last *)
(* holder to leave, and only the last one, sees the count at 1.            *)
(***************************************************************************)
EXTENDS SingleFlight, FiniteSetTheorems, TLAPS

\* A caller that has joined holds a flight, also after it left.
HoldersHaveFlight == \A c \in Callers : at[c] # "new" => mine[c] \in Flights

\* The registered flight is alive and held.
RegisteredLives ==
    current # None => task[current] \in {"running", "done"} /\ Subscribed(current) # {}

\* Every other flight is counted down to nothing, and does not run.
OthersRest == \A f \in Flights : f # current => subs[f] = 0 /\ task[f] # "running"

FlightInv ==
    /\ TypeOK
    /\ CountIsExact
    /\ HoldersHoldCurrent
    /\ HoldersHaveFlight
    /\ RegisteredLives
    /\ OthersRest

-----------------------------------------------------------------------------

(* There are finitely many subscribers, at most all callers.                 *)
LEMMA SubscribedFinite ==
  ASSUME FlightAssumption, NEW f
  PROVE  /\ IsFiniteSet(Subscribed(f))
         /\ Cardinality(Subscribed(f)) \in 0 .. Cardinality(Callers)
<1>1. Subscribed(f) \subseteq Callers
  BY DEF Subscribed
<1>2. IsFiniteSet(Subscribed(f)) /\ Cardinality(Subscribed(f)) <= Cardinality(Callers)
  BY <1>1, FS_Subset DEF FlightAssumption
<1>3. Cardinality(Subscribed(f)) \in Nat /\ Cardinality(Callers) \in Nat
  BY <1>2, FS_CardinalityType DEF FlightAssumption
<1>. QED
  BY <1>2, <1>3

(* do: a caller joins the registered flight, or registers an unused one.     *)
LEMMA SubscribeInv ==
  ASSUME FlightAssumption, FlightInv, NEW c \in Callers, NEW f \in Flights, Subscribe(c, f)
  PROVE  FlightInv'
<1> USE DEF FlightInv
<1>1. /\ at' = [at EXCEPT ![c] = "waiting"] /\ mine' = [mine EXCEPT ![c] = f]
      /\ subs' = [subs EXCEPT ![f] = subs[f] + 1]
      /\ at[c] = "new" /\ current' = f /\ f # None
  BY DEF Subscribe, FlightAssumption
<1>2. task' \in [Flights -> {"unused", "running", "cancelling", "cancelled", "done"}]
      /\ task'[f] \in {"running", "done"}
      /\ \A g \in Flights : g # f => task'[g] = task[g]
  BY <1>1 DEF Subscribe, TypeOK, RegisteredLives
<1>3. subs[f] = Cardinality(Subscribed(f))
  <2>1. CASE current = f
    BY <1>1, <2>1 DEF CountIsExact
  <2>2. CASE current = None
    <3>1. Subscribed(f) = {}
      BY <1>1, <2>2 DEF Subscribed, HoldersHoldCurrent
    <3>. QED
      BY <1>1, <2>2, <3>1, FS_EmptySet DEF OthersRest
  <2>. QED
    BY <2>1, <2>2 DEF Subscribe
<1>4. Subscribed(f)' = Subscribed(f) \cup {c} /\ c \notin Subscribed(f)
  BY <1>1 DEF Subscribed, TypeOK
<1>5. subs'[f] = Cardinality(Subscribed(f)')
  <2>1. Cardinality(Subscribed(f)') = Cardinality(Subscribed(f)) + 1
    BY <1>4, SubscribedFinite, FS_AddElement
  <2>. QED
    BY <1>1, <1>3, <2>1 DEF TypeOK
<1>6. Cardinality(Subscribed(f)') \in 0 .. Cardinality(Callers)
  <2>1. Subscribed(f)' \subseteq Callers
    BY DEF Subscribed
  <2>. QED
    BY <2>1, FS_Subset, FS_CardinalityType DEF FlightAssumption
<1>7. TypeOK'
  BY <1>1, <1>2, <1>5, <1>6 DEF TypeOK
<1>8. CountIsExact'
  BY <1>1, <1>5 DEF CountIsExact
<1>9. \A d \in Callers : d # c /\ at[d] \in {"waiting", "leaving"} => mine[d] = f
  BY <1>1 DEF Subscribe, HoldersHoldCurrent, HoldersHaveFlight, FlightAssumption
<1>10. HoldersHoldCurrent' /\ HoldersHaveFlight'
  BY <1>1, <1>9 DEF HoldersHoldCurrent, HoldersHaveFlight, TypeOK
<1>11. RegisteredLives'
  BY <1>1, <1>2, <1>4 DEF RegisteredLives
<1>12. OthersRest'
  BY <1>1, <1>2 DEF OthersRest, Subscribe, TypeOK, FlightAssumption
<1>. QED
  BY <1>7, <1>8, <1>10, <1>11, <1>12

(* A caller goes on from an await without touching the group.                *)
LEMMA MoveInv ==
  ASSUME FlightInv, NEW c \in Callers, Wake(c) \/ CancelCaller(c) \/ Joined(c)
  PROVE  FlightInv'
<1> USE DEF FlightInv
<1>1. /\ UNCHANGED <<current, task, subs, mine>>
      /\ at' \in [Callers -> {"new", "waiting", "leaving", "joining", "left"}]
      /\ \A d \in Callers : /\ at'[d] \in {"waiting", "leaving"} <=> at[d] \in {"waiting", "leaving"}
                            /\ at'[d] = "new" <=> at[d] = "new"
  BY DEF Wake, CancelCaller, Joined, TypeOK
<1>2. \A f : Subscribed(f)' = Subscribed(f)
  BY <1>1 DEF Subscribed
<1>3. TypeOK'
  BY <1>1 DEF TypeOK
<1>4. CountIsExact' /\ RegisteredLives'
  BY <1>1, <1>2 DEF CountIsExact, RegisteredLives
<1>5. HoldersHoldCurrent' /\ HoldersHaveFlight' /\ OthersRest'
  BY <1>1 DEF HoldersHoldCurrent, HoldersHaveFlight, OthersRest
<1>. QED
  BY <1>3, <1>4, <1>5

(* _unsubscribe: one holder less, and with the last one the flight goes.     *)
LEMMA UnsubscribeInv ==
  ASSUME FlightAssumption, FlightInv, NEW c \in Callers, Unsubscribe(c)
  PROVE  FlightInv'
<1> DEFINE f == mine[c]
<1> USE DEF FlightInv
<1>1. /\ at[c] = "leaving" /\ f \in Flights /\ current = f /\ f # None /\ mine' = mine
      /\ at' \in [Callers -> {"new", "waiting", "leaving", "joining", "left"}]
      /\ at'[c] \in {"joining", "left"}
      /\ \A d \in Callers : d # c => at'[d] = at[d]
  BY DEF Unsubscribe, HoldersHaveFlight, TypeOK, FlightAssumption
<1>2. Subscribed(f)' = Subscribed(f) \ {c} /\ c \in Subscribed(f)
  BY <1>1 DEF Subscribed
<1>3. subs[f] = Cardinality(Subscribed(f))
  BY <1>1 DEF CountIsExact
<1>4. Cardinality(Subscribed(f)') = Cardinality(Subscribed(f)) - 1
  BY <1>2, SubscribedFinite, FS_RemoveElement
<1>5. Cardinality(Subscribed(f)) \in 0 .. Cardinality(Callers) /\ Cardinality(Callers) \in Nat
  BY SubscribedFinite, FS_CardinalityType DEF FlightAssumption
<1>6. HoldersHaveFlight'
  BY <1>1 DEF HoldersHaveFlight
<1>7. CASE subs[f] > 1
  <2>1. UNCHANGED <<current, task>> /\ subs' = [subs EXCEPT ![f] = subs[f] - 1]
    BY <1>7 DEF Unsubscribe
  <2>2. TypeOK'
    BY <1>1, <1>3, <1>5, <1>7, <2>1 DEF TypeOK
  <2>3. CountIsExact'
    BY <1>1, <1>3, <1>4, <2>1 DEF CountIsExact, TypeOK
  <2>4. HoldersHoldCurrent' /\ OthersRest'
    BY <1>1, <2>1 DEF HoldersHoldCurrent, OthersRest, TypeOK
  <2>5. Subscribed(f)' # {}
    <3>1. Cardinality({}) = 0
      BY FS_EmptySet
    <3>2. Cardinality(Subscribed(f)') # 0
      BY <1>3, <1>4, <1>5, <1>7
    <3>. QED
      BY <3>1, <3>2, Zenon
  <2>6. RegisteredLives'
    BY <1>1, <2>1, <2>5 DEF RegisteredLives
  <2>. QED
    BY <1>6, <2>2, <2>3, <2>4, <2>6
<1>8. CASE subs[f] = 1
  <2>1. /\ current' = None /\ subs' = [subs EXCEPT ![f] = 0]
        /\ (task' = task /\ Ended(f)) \/ task' = [task EXCEPT ![f] = "cancelling"]
    BY <1>8 DEF Unsubscribe
  <2>2. TypeOK'
    BY <1>1, <1>5, <2>1 DEF TypeOK
  <2>3. Subscribed(f)' = {}
    <3>1. Cardinality(Subscribed(f)') = 0 /\ IsFiniteSet(Subscribed(f)')
      BY <1>2, <1>3, <1>4, <1>8, SubscribedFinite, FS_RemoveElement
    <3>. QED
      BY <3>1, FS_EmptySet
  <2>4. \A d \in Callers : at'[d] \notin {"waiting", "leaving"}
    BY <1>1, <2>3 DEF Subscribed, HoldersHoldCurrent
  <2>5. OthersRest'
    BY <1>1, <2>1 DEF OthersRest, TypeOK, Ended
  <2>. QED
    BY <1>6, <2>1, <2>2, <2>4, <2>5 DEF CountIsExact, HoldersHoldCurrent, RegisteredLives
<1>. QED
  BY <1>7, <1>8 DEF Unsubscribe

(* A factory ends: in the normal way while it is registered, or after its    *)
(* last subscriber cancelled it.                                             *)
LEMMA FactoryInv ==
  ASSUME FlightInv, NEW f \in Flights, FactoryEnds(f)
  PROVE  FlightInv'
<1> USE DEF FlightInv
<1>1. /\ UNCHANGED <<current, subs, at, mine>>
      /\ task' \in [Flights -> {"unused", "running", "cancelling", "cancelled", "done"}]
      /\ \A g \in Flights : \/ task'[g] = task[g]
                            \/ task[g] = "running" /\ task'[g] = "done"
                            \/ task[g] = "cancelling" /\ task'[g] # "running"
  BY DEF FactoryEnds, TypeOK
<1>2. \A g : Subscribed(g)' = Subscribed(g)
  BY <1>1 DEF Subscribed
<1>3. TypeOK'
  BY <1>1 DEF TypeOK
<1>4. RegisteredLives'
  BY <1>1, <1>2 DEF RegisteredLives, TypeOK
<1>5. OthersRest'
  BY <1>1 DEF OthersRest
<1>6. CountIsExact' /\ HoldersHoldCurrent' /\ HoldersHaveFlight'
  BY <1>1, <1>2 DEF CountIsExact, HoldersHoldCurrent, HoldersHaveFlight
<1>. QED
  BY <1>3, <1>4, <1>5, <1>6

(* The empty group satisfies the invariant.                                  *)
LEMMA InitFlightInv ==
  ASSUME FlightAssumption
  PROVE  Init => FlightInv
<1>1. Cardinality(Callers) \in Nat
  BY FS_CardinalityType DEF FlightAssumption
<1>. QED
  BY <1>1 DEF Init, FlightInv, TypeOK, CountIsExact, HoldersHoldCurrent, HoldersHaveFlight,
              RegisteredLives, OthersRest, Subscribed

(* Every step keeps it.                                                      *)
LEMMA NextFlightInv ==
  ASSUME FlightAssumption
  PROVE  FlightInv /\ [Next]_vars => FlightInv'
<1>1. ASSUME FlightInv, UNCHANGED vars PROVE FlightInv'
  BY <1>1 DEF FlightInv, vars, TypeOK, CountIsExact, HoldersHoldCurrent, HoldersHaveFlight,
              RegisteredLives, OthersRest, Subscribed
<1>. QED
  BY <1>1, SubscribeInv, MoveInv, UnsubscribeInv, FactoryInv DEF Next

(* What the invariant says of callers and factories.                         *)
LEMMA FlightInvShares ==
  ASSUME FlightAssumption
  PROVE  FlightInv => FlightIsShared
<1> SUFFICES ASSUME FlightInv PROVE CancellationIsPrivate /\ NoDetachedWork
  BY DEF FlightInv, FlightIsShared
<1>1. ASSUME NEW c \in Callers, at[c] = "waiting"
      PROVE  task[mine[c]] \notin {"cancelling", "cancelled"}
  <2>1. mine[c] = current /\ mine[c] \in Flights
    BY <1>1 DEF FlightInv, HoldersHoldCurrent, HoldersHaveFlight
  <2>. QED
    BY <2>1 DEF FlightAssumption, FlightInv, RegisteredLives
<1>2. ASSUME NEW f \in Flights, task[f] = "running"
      PROVE  current = f /\ Subscribed(f) # {}
  BY <1>2 DEF FlightInv, OthersRest, RegisteredLives, FlightAssumption
<1>. QED
  BY <1>1, <1>2 DEF CancellationIsPrivate, NoDetachedWork

(* Callers share one task and no fate, however many there are and however    *)
(* they join, leave and are cancelled: the subscriber count is exact, the    *)
(* last one and nobody else cancels an unfinished task, and no task runs for *)
(* nobody (SingleFlightGroup.do, _unsubscribe).                              *)
THEOREM FlightsAreShared ==
  ASSUME FlightAssumption
  PROVE  Spec => []FlightIsShared
<1>1. Spec => []FlightInv
  BY InitFlightInv, NextFlightInv, PTL DEF Spec
<1>. QED
  BY <1>1, FlightInvShares, PTL

=============================================================================
