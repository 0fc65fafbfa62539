--------------------------- MODULE SharedMediaProofs ---------------------------
(***************************************************************************)
(* MediaPipeline.open_materialized (app/services/media/pipeline.py) shares *)
(* one file among any number of callers: the theorems about SharedMedia.   *)
(*                                                                         *)
(* The argument.  Where a factory is says which of its flight's files are  *)
(* held (FilesFit).  Publication gives the file to the key or, overtaken   *)
(* by a flight that was cancelled while it published, to nobody (Kept),    *)
(* and from then on only the last user takes it back.  Everybody in the    *)
(* single flight is counted, so the last user is the last one who could    *)
(* still be handed the file.  What the single flight itself does is taken  *)
(* from SingleFlightProofs.                                                *)
(***************************************************************************)
EXTENDS SharedMedia, FiniteSetTheorems, TLAPS

FlightProofs == INSTANCE SingleFlightProofs

\* Where a factory is says whether its flight's task works.
StageFits(f) ==
    /\ task[f] = "unused" <=> stage[f] = "unused"
    /\ Works(f) <=> stage[f] \notin {"unused", "over"}

\* The lanes of a flight are in use while its factory races two routes.
LanesFit(f) ==
    \A k \in Lanes :
        /\ stage[f] = "race" => lanes[<<f, k>>] \in {"working", "checking", "ok", "failed"}
        /\ stage[f] = "settle" => lanes[<<f, k>>] \in {"stopping", "ok", "failed"}
        /\ stage[f] \notin {"race", "settle"} => lanes[<<f, k>>] = "idle"

\* The files of a flight that are held, by where its factory is.
FilesFit(f) ==
    /\ stage[f] \in {"unused", "resolve", "fetch", "failed"} =>
          \A k \in Lanes : <<f, k>> \notin live
    /\ stage[f] \in {"check", "join", "store", "publish"} =>
          won[f] \in Lanes /\ \A k \in Lanes : <<f, k>> \in live <=> k = won[f]
    /\ stage[f] = "check" => won[f] = 1
    /\ stage[f] = "published" => won[f] \in Lanes
    /\ stage[f] \in {"race", "settle"} =>
          \A k \in Lanes :
             /\ <<f, k>> \in live => lanes[<<f, k>>] \in {"checking", "ok", "stopping"}
             /\ lanes[<<f, k>>] \in {"checking", "ok"} => <<f, k>> \in live
    /\ stage[f] = "settle" /\ won[f] # 0 => lanes[<<f, won[f]>>] = "ok"

PrefetchFits(f) == prefetch[f] = "running" => stage[f] \in {"fetch", "check", "failed", "join"}

WorkFits(f) == StageFits(f) /\ LanesFit(f) /\ FilesFit(f) /\ PrefetchFits(f)

\* Publication has dealt with the flight's file.
Out(f) == stage[f] \in {"published", "over"}

\* The file is in somebody's hands: the key's, or nobody's any more.
Kept(i) == i \in refused \/ (ready # None /\ ready.item = i)

\* A file that outlived publication is kept, and so is every file handed out
\* or about to be.
FilesKept ==
    /\ \A i \in Files : i \in live /\ Out(i[1]) => Kept(i)
    /\ \A i \in Files : Kept(i) => i \in live /\ Out(i[1]) /\ won[i[1]] = i[2]
    /\ ready # None => ready.item \notin refused
    /\ \A c \in Callers : user[c] = "using" => has[c] \in Files /\ Kept(has[c])
    /\ \A c \in Callers :
          user[c] = "sharing" /\ Out(mine[c]) /\ won[mine[c]] # 0 =>
             Kept(<<mine[c], won[mine[c]]>>)

\* A caller in the single flight shares, and has one.
SharersFit ==
    \A c \in Callers :
        /\ at[c] \in {"waiting", "leaving", "joining"} => user[c] = "sharing"
        /\ user[c] = "sharing" => mine[c] \in Flights

\* Whoever cancelled a task still waits for its end.
CancellersJoin ==
    \A f \in Flights : task[f] = "cancelling" => \E c \in Callers : at[c] = "joining" /\ mine[c] = f

\* Some flight was cancelled.
Cancelled == \E f \in Flights : task[f] \in {"cancelling", "cancelled"}

\* Publication can be overtaken, or was, by a cancelled flight only.
OvertakenByCancelled ==
    /\ ready # None => Cancelled \/ \A f \in Flights : Works(f) => f = ready.item[1]
    /\ refused # {} => Cancelled

SharedType ==
    /\ platform \in Platforms
    /\ pending \in Nat
    /\ ready \in {None} \cup [item : Files, users : Nat \ {0}]
    /\ user \in [Callers -> {"out", "sharing", "using", "releasing", "done"}]
    /\ cancelled \subseteq Callers
    /\ has \in [Callers -> Files \cup {None}]
    /\ stage \in [Flights -> Stages]
    /\ left \in [Flights -> 0 .. MaxRoutes]
    /\ prefetch \in [Flights -> {"none", "running", "used"}]
    /\ lanes \in [Files -> {"idle", "working", "checking", "ok", "failed", "stopping"}]
    /\ won \in [Flights -> Lanes \cup {0}]
    /\ live \subseteq Files /\ refused \subseteq Files

\* The single flight's own invariant holds of the flight under the open.
SharedInv ==
    /\ SharedType
    /\ FlightProofs!FlightInv
    /\ \A f \in Flights : WorkFits(f)
    /\ FilesKept
    /\ SharersFit
    /\ CancellersJoin
    /\ OvertakenByCancelled
    /\ UsersAreCounted

-----------------------------------------------------------------------------
(* The single flight. *)

(* Flight and FlightProofs are two instances of one specification.           *)
LEMMA SameFlight ==
  /\ \A c, f : Flight!Subscribe(c, f) <=> FlightProofs!Subscribe(c, f)
  /\ \A c : Flight!Wake(c) <=> FlightProofs!Wake(c)
  /\ \A c : Flight!CancelCaller(c) <=> FlightProofs!CancelCaller(c)
  /\ \A c : Flight!Unsubscribe(c) <=> FlightProofs!Unsubscribe(c)
  /\ \A c : Flight!Joined(c) <=> FlightProofs!Joined(c)
  /\ \A f : Flight!FactoryEnds(f) <=> FlightProofs!FactoryEnds(f)
  /\ Flight!Init <=> FlightProofs!Init
<1>1. \A c, f : Flight!Subscribe(c, f) <=> FlightProofs!Subscribe(c, f)
  BY DEF Flight!Subscribe, FlightProofs!Subscribe
<1>2. \A c : Flight!Wake(c) <=> FlightProofs!Wake(c)
  BY DEF Flight!Wake, FlightProofs!Wake, Flight!Ended, FlightProofs!Ended
<1>3. \A c : Flight!CancelCaller(c) <=> FlightProofs!CancelCaller(c)
  BY DEF Flight!CancelCaller, FlightProofs!CancelCaller
<1>4. \A c : Flight!Unsubscribe(c) <=> FlightProofs!Unsubscribe(c)
  BY DEF Flight!Unsubscribe, FlightProofs!Unsubscribe, Flight!Ended, FlightProofs!Ended
<1>5. \A c : Flight!Joined(c) <=> FlightProofs!Joined(c)
  BY DEF Flight!Joined, FlightProofs!Joined, Flight!Ended, FlightProofs!Ended
<1>6. \A f : Flight!FactoryEnds(f) <=> FlightProofs!FactoryEnds(f)
  BY DEF Flight!FactoryEnds, FlightProofs!FactoryEnds
<1>7. Flight!Init <=> FlightProofs!Init
  BY DEF Flight!Init, FlightProofs!Init
<1>. QED
  BY <1>1, <1>2, <1>3, <1>4, <1>5, <1>6, <1>7

(* Callers are finitely many, and None is no flight.                         *)
LEMMA FlightAssumed == FlightProofs!FlightAssumption /\ IsFiniteSet(Callers) /\ Flights = Callers
<1>1. FlightProofs!IsFiniteSet(Callers) <=> IsFiniteSet(Callers)
  BY DEF FlightProofs!IsFiniteSet, IsFiniteSet
<1>. QED
  BY <1>1, SharedAssumption DEF FlightProofs!FlightAssumption

(* What the open uses of the single flight.                                  *)
LEMMA FlightFacts ==
  ASSUME FlightProofs!FlightInv
  PROVE  /\ current \in Flights \cup {None} /\ None \notin Flights
         /\ task \in [Flights -> {"unused", "running", "cancelling", "cancelled", "done"}]
         /\ at \in [Callers -> {"new", "waiting", "leaving", "joining", "left"}]
         /\ mine \in [Callers -> Flights \cup {None}]
         /\ \A c \in Callers : at[c] # "new" => mine[c] \in Flights
         /\ \A c \in Callers : at[c] \in {"waiting", "leaving"} => mine[c] = current
         /\ \A f \in Flights : task[f] = "running" => f = current
         /\ current # None => /\ task[current] \in {"running", "done"}
                              /\ \E c \in Callers : at[c] \in {"waiting", "leaving"} /\ mine[c] = current
  BY SharedAssumption
  DEF FlightProofs!FlightInv, FlightProofs!TypeOK, FlightProofs!HoldersHaveFlight,
      FlightProofs!HoldersHoldCurrent, FlightProofs!OthersRest, FlightProofs!RegisteredLives,
      FlightProofs!Subscribed

(* A step of the flight keeps the flight's invariant.                        *)
LEMMA FlightKeeps ==
  ASSUME FlightProofs!FlightInv,
         \/ UNCHANGED flightVars
         \/ \E f \in Flights : Flight!FactoryEnds(f)
         \/ \E c \in Callers :
               \/ \E f \in Flights : Flight!Subscribe(c, f)
               \/ Flight!Wake(c) \/ Flight!CancelCaller(c) \/ Flight!Unsubscribe(c)
               \/ Flight!Joined(c)
  PROVE  FlightProofs!FlightInv'
<1>1. [FlightProofs!Next]_(FlightProofs!vars)
  BY SameFlight DEF FlightProofs!Next, FlightProofs!vars, flightVars
<1>. QED
  BY <1>1, FlightAssumed, FlightProofs!NextFlightInv

(* A caller's step in the flight: nobody joins, tasks are cancelled at most,  *)
(* and whoever cancels one waits for its end.                                *)
LEMMA CallerMoves ==
  ASSUME SharedInv, NEW c \in Callers,
         \/ Flight!Wake(c) \/ Flight!CancelCaller(c) \/ Flight!Unsubscribe(c) \/ Flight!Joined(c)
  PROVE  /\ FlightProofs!FlightInv' /\ mine' = mine
         /\ \A d \in Callers : at'[d] \in {"waiting", "leaving", "joining"} =>
                                  at[d] \in {"waiting", "leaving", "joining"}
         /\ \A f \in Flights : /\ task'[f] = "unused" <=> task[f] = "unused"
                               /\ Works(f)' <=> Works(f)
         /\ CancellersJoin'
         /\ Cancelled => Cancelled'
<1>0. CancellersJoin /\ FlightProofs!FlightInv
  BY DEF SharedInv
<1>1. FlightProofs!FlightInv'
  BY <1>0, FlightKeeps
<1>2. /\ task \in [Flights -> {"unused", "running", "cancelling", "cancelled", "done"}]
      /\ at \in [Callers -> {"new", "waiting", "leaving", "joining", "left"}]
      /\ at[c] # "new" => mine[c] \in Flights
      /\ at[c] = "leaving" => mine[c] = current
      /\ current # None => task[current] \in {"running", "done"}
      /\ None \notin Flights
  BY <1>0, FlightFacts
<1>3. CASE Flight!Wake(c) \/ Flight!CancelCaller(c) \/ Flight!Joined(c)
  <2>1. /\ UNCHANGED <<current, task, subs, mine>> /\ at[c] \in {"waiting", "joining"}
        /\ at' = [at EXCEPT ![c] = at'[c]] /\ at'[c] \in {"leaving", "left"}
        /\ at[c] = "joining" => task[mine[c]] \in {"cancelled", "done"}
        /\ at'[c] = "leaving" => at[c] = "waiting"
    BY <1>2, <1>3 DEF Flight!Wake, Flight!CancelCaller, Flight!Joined, Flight!Ended
  <2>2. CancellersJoin'
    BY <1>0, <1>2, <2>1 DEF CancellersJoin
  <2>. QED
    BY <1>1, <1>2, <2>1, <2>2 DEF Works, Cancelled
<1>4. CASE Flight!Unsubscribe(c)
  <2>1. PICK f \in Flights : f = mine[c]
    BY <1>2, <1>4 DEF Flight!Unsubscribe
  <2>2. /\ mine' = mine /\ at[c] = "leaving" /\ current = f
        /\ at' = [at EXCEPT ![c] = at'[c]]
        /\ \/ task' = task /\ at'[c] = "left"
           \/ /\ task[f] \notin {"cancelled", "done"}
              /\ task' = [task EXCEPT ![f] = "cancelling"] /\ at'[c] = "joining"
    BY <1>2, <1>4, <2>1 DEF Flight!Unsubscribe, Flight!Ended
  <2>3. task[f] \in {"running", "done"}
    BY <1>2, <2>2
  <2>4. CancellersJoin'
    BY <1>0, <1>2, <2>1, <2>2 DEF CancellersJoin
  <2>. QED
    BY <1>1, <1>2, <2>1, <2>2, <2>3, <2>4 DEF Works, Cancelled
<1>. QED
  BY <1>3, <1>4

-----------------------------------------------------------------------------
(* A step of a factory. *)

(* Work goes on as it is while nothing of its flight changes; a file that    *)
(* publication dealt with is no longer its factory's.                        *)
LEMMA WorkFrame ==
  ASSUME NEW f \in Flights, WorkFits(f), won[f] \in Lanes \cup {0},
         stage'[f] = stage[f], won'[f] = won[f], prefetch'[f] = prefetch[f],
         \A k \in Lanes : lanes'[<<f, k>>] = lanes[<<f, k>>],
         Out(f) \/ \A k \in Lanes : <<f, k>> \in live' <=> <<f, k>> \in live,
         task'[f] = "unused" <=> task[f] = "unused",
         Works(f)' <=> Works(f)
  PROVE  WorkFits(f)'
<1>1. StageFits(f)'
  BY DEF WorkFits, StageFits
<1>2. LanesFit(f)'
  BY DEF WorkFits, LanesFit
<1>3. FilesFit(f)'
  BY DEF WorkFits, FilesFit, Out, Lanes
<1>4. PrefetchFits(f)'
  BY DEF WorkFits, PrefetchFits
<1>. QED
  BY <1>1, <1>2, <1>3, <1>4 DEF WorkFits

\* A factory's step before publication: it touches its own flight alone, and
\* when it raises it leaves no file.
Moves(f) ==
    /\ UNCHANGED <<userVars, platform, refused>>
    /\ stage[f] \notin {"unused", "published", "over"}
    /\ stage'[f] \in Stages \ {"unused", "published"}
    /\ stage' = [stage EXCEPT ![f] = stage'[f]]
    /\ won'[f] \in Lanes \cup {0} /\ won' = [won EXCEPT ![f] = won'[f]]
    /\ left' \in [Flights -> 0 .. MaxRoutes]
    /\ prefetch'[f] \in {"none", "running", "used"}
    /\ prefetch' = [prefetch EXCEPT ![f] = prefetch'[f]]
    /\ lanes' \in [Files -> {"idle", "working", "checking", "ok", "failed", "stopping"}]
    /\ live' \subseteq Files
    /\ \A i \in Files : i[1] # f => lanes'[i] = lanes[i] /\ (i \in live' <=> i \in live)
    /\ \/ stage'[f] # "over" /\ UNCHANGED flightVars
       \/ /\ stage'[f] = "over" /\ won'[f] = 0
          /\ \A k \in Lanes : <<f, k>> \notin live'
          /\ Flight!FactoryEnds(f)
          /\ task'[f] = "cancelled" <=> task[f] = "cancelling"

(* A factory that ends leaves the other tasks alone, and the record that its  *)
(* flight was cancelled.                                                     *)
LEMMA EndOfTask ==
  ASSUME FlightProofs!FlightInv, CancellersJoin, NEW f \in Flights, Flight!FactoryEnds(f),
         task'[f] = "cancelled" <=> task[f] = "cancelling"
  PROVE  /\ FlightProofs!FlightInv'
         /\ UNCHANGED <<current, subs, at, mine>>
         /\ task' = [task EXCEPT ![f] = task'[f]]
         /\ task[f] \in {"running", "cancelling"} /\ task'[f] \in {"done", "cancelled"}
         /\ CancellersJoin'
         /\ Cancelled => Cancelled'
<1>1. FlightProofs!FlightInv'
  BY FlightKeeps
<1>2. task \in [Flights -> {"unused", "running", "cancelling", "cancelled", "done"}]
  BY FlightFacts
<1>3. /\ UNCHANGED <<current, subs, at, mine>>
      /\ task' = [task EXCEPT ![f] = task'[f]]
      /\ task[f] \in {"running", "cancelling"} /\ task'[f] \in {"done", "cancelled"}
  BY <1>2 DEF Flight!FactoryEnds
<1>4. CancellersJoin'
  BY <1>2, <1>3 DEF CancellersJoin
<1>5. Cancelled => Cancelled'
  BY <1>2, <1>3 DEF Cancelled
<1>. QED
  BY <1>1, <1>3, <1>4, <1>5

(* Before publication a factory's step disturbs nothing but its own work.    *)
LEMMA MovesKeep ==
  ASSUME SharedInv, NEW f \in Flights, Moves(f), WorkFits(f)'
  PROVE  SharedInv'
<1>0. /\ SharedType /\ FlightProofs!FlightInv /\ \A g \in Flights : WorkFits(g)
      /\ FilesKept /\ SharersFit /\ CancellersJoin /\ OvertakenByCancelled /\ UsersAreCounted
  BY DEF SharedInv
<1>1. /\ UNCHANGED <<pending, ready, user, cancelled, has, platform, refused>>
      /\ stage[f] \notin {"unused", "published", "over"}
      /\ stage'[f] \in Stages \ {"unused", "published"}
      /\ stage' = [stage EXCEPT ![f] = stage'[f]]
      /\ won'[f] \in Lanes \cup {0} /\ won' = [won EXCEPT ![f] = won'[f]]
      /\ prefetch'[f] \in {"none", "running", "used"}
      /\ prefetch' = [prefetch EXCEPT ![f] = prefetch'[f]]
      /\ \A i \in Files : i[1] # f => lanes'[i] = lanes[i] /\ (i \in live' <=> i \in live)
      /\ stage'[f] = "over" => won'[f] = 0 /\ \A k \in Lanes : <<f, k>> \notin live'
  BY DEF Moves, userVars
<1>2. /\ stage \in [Flights -> Stages] /\ won \in [Flights -> Lanes \cup {0}]
      /\ prefetch \in [Flights -> {"none", "running", "used"}]
      /\ task \in [Flights -> {"unused", "running", "cancelling", "cancelled", "done"}]
      /\ refused \subseteq Files /\ ready \in {None} \cup [item : Files, users : Nat \ {0}]
  BY <1>0, FlightFacts DEF SharedType
<1>3. /\ FlightProofs!FlightInv' /\ UNCHANGED <<current, subs, at, mine>>
      /\ \A g \in Flights : g # f => task'[g] = task[g]
      /\ \A g \in Flights : Works(g)' => Works(g)
      /\ CancellersJoin' /\ (Cancelled => Cancelled')
  <2>1. CASE UNCHANGED flightVars
    BY <1>0, <2>1, FlightKeeps DEF flightVars, Works, CancellersJoin, Cancelled
  <2>2. CASE /\ Flight!FactoryEnds(f)
             /\ task'[f] = "cancelled" <=> task[f] = "cancelling"
    BY <1>0, <1>2, <2>2, EndOfTask DEF Works
  <2>. QED
    BY <2>1, <2>2 DEF Moves
<1>4. SharedType'
  BY <1>0, <1>1, <1>2 DEF SharedType, Moves
<1>5. \A g \in Flights : WorkFits(g)'
  <2>1. ASSUME NEW g \in Flights, g # f PROVE WorkFits(g)'
    <3>1. \A k \in Lanes : <<g, k>> \in Files /\ <<g, k>>[1] = g
      BY DEF Files
    <3>2. /\ \A k \in Lanes : lanes'[<<g, k>>] = lanes[<<g, k>>]
          /\ \A k \in Lanes : <<g, k>> \in live' <=> <<g, k>> \in live
      BY <1>1, <2>1, <3>1
    <3>3. /\ stage'[g] = stage[g] /\ won'[g] = won[g] /\ prefetch'[g] = prefetch[g]
          /\ task'[g] = task[g]
      BY <1>1, <1>2, <1>3, <2>1
    <3>. QED
      BY <1>0, <1>2, <3>2, <3>3, WorkFrame DEF Works
  <2>. QED
    BY <2>1
<1>6. FilesKept'
  <2>1. /\ \A i \in Files : i[1] \in Flights /\ i[2] \in Lanes /\ i = <<i[1], i[2]>>
        /\ \A i \in Files : Kept(i)' <=> Kept(i)
        /\ \A g \in Flights : Out(g)' => (g = f /\ stage'[f] = "over") \/ (g # f /\ Out(g))
        /\ \A g \in Flights : Out(g) => g # f /\ Out(g)'
    BY <1>1, <1>2 DEF Files, Kept, Out
  <2>2. \A i \in Files : i \in live' /\ Out(i[1])' => Kept(i)'
    <3>1. ASSUME NEW i \in Files, i \in live', Out(i[1])' PROVE Kept(i)
      <4>1. i[1] # f
        BY <1>1, <2>1, <3>1
      <4>. QED
        BY <1>0, <1>1, <2>1, <3>1, <4>1 DEF FilesKept
    <3>. QED
      BY <2>1, <3>1
  <2>3. \A i \in Files : Kept(i)' => i \in live' /\ Out(i[1])' /\ won'[i[1]] = i[2]
    BY <1>0, <1>1, <1>2, <2>1 DEF FilesKept
  <2>4. \A c \in Callers : user'[c] = "using" => has'[c] \in Files /\ Kept(has[c])'
    BY <1>0, <1>1, <2>1 DEF FilesKept
  <2>5. (\A c \in Callers :
           user[c] = "sharing" /\ Out(mine[c]) /\ won[mine[c]] # 0 =>
              Kept(<<mine[c], won[mine[c]]>>))'
    <3>1. ASSUME NEW c \in Callers, user[c] = "sharing", (Out(mine[c]) /\ won[mine[c]] # 0)'
          PROVE  Kept(<<mine[c], won[mine[c]]>>)'
      <4>1. PICK g \in Flights : g = mine[c]
        BY <1>0, <3>1 DEF SharersFit
      <4>2. mine'[c] = g
        BY <1>3, <4>1
      <4>3. Out(g)' /\ won'[g] # 0
        BY <3>1, <4>2
      <4>4. g # f /\ Out(g) /\ won'[g] = won[g]
        BY <1>1, <1>2, <2>1, <4>3
      <4>5. Kept(<<g, won[g]>>)
        BY <1>0, <3>1, <4>1, <4>3, <4>4 DEF FilesKept
      <4>. QED
        BY <1>1, <4>2, <4>4, <4>5 DEF Kept
    <3>. QED
      BY <1>1, <1>3, <3>1
  <2>6. has' = has /\ ready' = ready /\ refused' = refused
    BY <1>1
  <2>. QED
    BY <1>0, <2>2, <2>3, <2>4, <2>5, <2>6 DEF FilesKept
<1>7. SharersFit'
  BY <1>0, <1>1, <1>3 DEF SharersFit
<1>8. OvertakenByCancelled'
  BY <1>0, <1>1, <1>3 DEF OvertakenByCancelled
<1>9. UsersAreCounted'
  BY <1>0, <1>1 DEF UsersAreCounted, Registered
<1>. QED
  BY <1>3, <1>4, <1>5, <1>6, <1>7, <1>8, <1>9 DEF SharedInv

\* Beside a factory's step: the users, and what belongs to other flights.
Beside(f) ==
    /\ UNCHANGED <<userVars, platform, refused>>
    /\ lanes' \in [Files -> {"idle", "working", "checking", "ok", "failed", "stopping"}]
    /\ live' \subseteq Files
    /\ \A i \in Files : i[1] # f => lanes'[i] = lanes[i] /\ (i \in live' <=> i \in live)

(* Where a factory is says that its task is there.                           *)
LEMMA WorkFacts ==
  ASSUME SharedInv, NEW f \in Flights
  PROVE  /\ stage \in [Flights -> Stages] /\ won \in [Flights -> Lanes \cup {0}]
         /\ left \in [Flights -> 0 .. MaxRoutes]
         /\ prefetch \in [Flights -> {"none", "running", "used"}]
         /\ lanes \in [Files -> {"idle", "working", "checking", "ok", "failed", "stopping"}]
         /\ live \subseteq Files
         /\ task \in [Flights -> {"unused", "running", "cancelling", "cancelled", "done"}]
         /\ StageFits(f) /\ LanesFit(f) /\ FilesFit(f) /\ PrefetchFits(f)
         /\ \A k \in Lanes : <<f, k>> \in Files /\ <<f, k>>[1] = f
         /\ \A i \in Files : i[1] \in Flights /\ i[2] \in Lanes /\ i = <<i[1], i[2]>>
  BY FlightFacts DEF SharedInv, SharedType, WorkFits, Files

(* A factory that goes on.                                                   *)
LEMMA GoMoves ==
  ASSUME SharedInv, NEW f \in Flights, NEW s \in Stages \ {"unused", "published", "over"},
         Go(f, s), Beside(f),
         stage[f] \notin {"unused", "published", "over"},
         won'[f] \in Lanes \cup {0}, won' = [won EXCEPT ![f] = won'[f]],
         left' \in [Flights -> 0 .. MaxRoutes],
         prefetch'[f] \in {"none", "running", "used"},
         prefetch' = [prefetch EXCEPT ![f] = prefetch'[f]],
         (LanesFit(f) /\ FilesFit(f) /\ PrefetchFits(f))'
  PROVE  SharedInv'
<1>1. stage'[f] = s /\ stage' = [stage EXCEPT ![f] = s] /\ UNCHANGED flightVars
  BY WorkFacts DEF Go
<1>2. Moves(f)
  BY <1>1 DEF Moves, Beside
<1>3. StageFits(f)'
  BY <1>1, WorkFacts DEF StageFits, Works, flightVars
<1>. QED
  BY <1>2, <1>3, MovesKeep DEF WorkFits

(* A factory that raises leaves no file and no lane at work.                 *)
LEMMA RaiseMoves ==
  ASSUME SharedInv, NEW f \in Flights, Raise(f), Beside(f),
         stage[f] \notin {"unused", "published", "over"},
         \A k \in Lanes : <<f, k>> \notin live' /\ lanes'[<<f, k>>] = "idle"
  PROVE  SharedInv'
<1>1. /\ stage'[f] = "over" /\ stage' = [stage EXCEPT ![f] = "over"]
      /\ won'[f] = 0 /\ won' = [won EXCEPT ![f] = 0]
      /\ left' = [left EXCEPT ![f] = 0]
      /\ prefetch'[f] = "none" /\ prefetch' = [prefetch EXCEPT ![f] = "none"]
      /\ Flight!FactoryEnds(f)
      /\ task'[f] = "cancelled" <=> task[f] = "cancelling"
  BY WorkFacts DEF Raise, Over
<1>2. left' \in [Flights -> 0 .. MaxRoutes]
  BY <1>1, WorkFacts, SharedAssumption
<1>3. Moves(f)
  BY <1>1, <1>2 DEF Moves, Beside, Stages
<1>4. task'[f] \in {"done", "cancelled"}
  BY <1>1, WorkFacts DEF Flight!FactoryEnds
<1>5. StageFits(f)' /\ PrefetchFits(f)'
  BY <1>1, <1>4 DEF StageFits, PrefetchFits, Works
<1>6. LanesFit(f)' /\ FilesFit(f)'
  BY <1>1 DEF LanesFit, FilesFit
<1>. QED
  BY <1>3, <1>5, <1>6, MovesKeep DEF WorkFits

(* resolve finds candidates or raises (MediaPipeline.resolve).               *)
LEMMA ResolveKeeps ==
  ASSUME SharedInv, NEW f \in Flights, Resolve(f)
  PROVE  SharedInv'
<1>1. /\ stage[f] = "resolve" /\ UNCHANGED <<userVars, platform, lanes, live, refused>>
      /\ (Go(f, "fetch") /\ UNCHANGED <<won, left, prefetch>>) \/ Raise(f)
  BY DEF Resolve
<1>2. Beside(f)
  BY <1>1, WorkFacts DEF Beside
<1>3. \A k \in Lanes : <<f, k>> \notin live' /\ lanes'[<<f, k>>] = "idle"
  BY <1>1, WorkFacts DEF FilesFit, LanesFit
<1>4. CASE Go(f, "fetch") /\ UNCHANGED <<won, left, prefetch>>
  <2>1. stage'[f] = "fetch"
    BY <1>4, WorkFacts DEF Go
  <2>2. (LanesFit(f) /\ FilesFit(f) /\ PrefetchFits(f))'
    BY <1>3, <2>1 DEF LanesFit, FilesFit, PrefetchFits
  <2>. QED
    BY <1>1, <1>2, <1>4, <2>2, WorkFacts, GoMoves DEF Stages
<1>. QED
  BY <1>1, <1>2, <1>3, <1>4, RaiseMoves

(* transport.materialize makes the file or raises.                           *)
LEMMA FetchKeeps ==
  ASSUME SharedInv, NEW f \in Flights, Fetch(f)
  PROVE  SharedInv'
<1>1. /\ stage[f] = "fetch" /\ UNCHANGED <<userVars, platform, left, lanes, refused>>
      /\ Prefetch(f)
      /\ \/ Go(f, "check") /\ live' = live \cup {<<f, 1>>} /\ won' = [won EXCEPT ![f] = 1]
         \/ Go(f, "failed") /\ UNCHANGED <<live, won>>
  BY DEF Fetch
<1>2. Beside(f)
  BY <1>1, WorkFacts DEF Beside, Lanes
<1>3. prefetch'[f] \in {"none", "running", "used"} /\ prefetch' = [prefetch EXCEPT ![f] = prefetch'[f]]
  BY <1>1, WorkFacts DEF Prefetch
<1>4. PICK s \in {"check", "failed"} :
         /\ Go(f, s)
         /\ s = "check" => live' = live \cup {<<f, 1>>} /\ won' = [won EXCEPT ![f] = 1]
         /\ s = "failed" => UNCHANGED <<live, won>>
  BY <1>1
<1>5. stage'[f] = s
  BY <1>4, WorkFacts DEF Go
<1>6. /\ won'[f] \in Lanes \cup {0} /\ won' = [won EXCEPT ![f] = won'[f]]
      /\ s = "check" => won'[f] = 1
  BY <1>4, WorkFacts DEF Lanes
<1>7. FilesFit(f)'
  BY <1>1, <1>4, <1>5, <1>6, WorkFacts DEF FilesFit, Lanes
<1>8. LanesFit(f)' /\ PrefetchFits(f)'
  BY <1>1, <1>5, WorkFacts DEF LanesFit, PrefetchFits
<1>. QED
  BY <1>1, <1>2, <1>3, <1>4, <1>6, <1>7, <1>8, WorkFacts, GoMoves DEF Stages

(* artifact_validator takes the file or deletes it.                          *)
LEMMA CheckKeeps ==
  ASSUME SharedInv, NEW f \in Flights, Check(f)
  PROVE  SharedInv'
<1>1. /\ stage[f] = "check" /\ UNCHANGED <<userVars, platform, left, prefetch, lanes, refused>>
      /\ \/ Go(f, IF prefetch[f] = "running" THEN "join" ELSE "store") /\ UNCHANGED <<won, live>>
         \/ Go(f, "failed") /\ won' = [won EXCEPT ![f] = 0] /\ live' = live \ {<<f, 1>>}
  BY DEF Check
<1>2. Beside(f)
  BY <1>1, WorkFacts DEF Beside, Lanes
<1>3. PICK s \in {"join", "store", "failed"} :
         /\ Go(f, s)
         /\ s \in {"join", "store"} => UNCHANGED <<won, live>>
         /\ prefetch[f] = "running" => s \in {"join", "failed"}
         /\ s = "failed" => won' = [won EXCEPT ![f] = 0] /\ live' = live \ {<<f, 1>>}
  BY <1>1
<1>4. stage'[f] = s
  BY <1>3, WorkFacts DEF Go
<1>5. won'[f] \in Lanes \cup {0} /\ won' = [won EXCEPT ![f] = won'[f]]
  BY <1>3, WorkFacts DEF Lanes
<1>6. FilesFit(f)'
  <2>0. FilesFit(f)
    BY WorkFacts
  <2>1. won[f] = 1 /\ \A k \in Lanes : <<f, k>> \in live <=> k = 1
    BY <1>1, <2>0 DEF FilesFit
  <2>. QED
    BY <1>3, <1>4, <1>5, <2>1, WorkFacts DEF FilesFit, Lanes
<1>7. LanesFit(f)' /\ PrefetchFits(f)'
  BY <1>1, <1>3, <1>4, WorkFacts DEF LanesFit, PrefetchFits
<1>. QED
  BY <1>1, <1>2, <1>3, <1>5, <1>6, <1>7, WorkFacts, GoMoves DEF Stages

(* The next candidate, a reserve provider, the prefetched resolution or the  *)
(* error (the failure paths of _materialize_uncached).                       *)
LEMMA RetryKeeps ==
  ASSUME SharedInv, NEW f \in Flights, Retry(f)
  PROVE  SharedInv'
<1>1. /\ stage[f] = "failed" /\ UNCHANGED <<userVars, platform, lanes, live, refused>>
      /\ \/ Reserve(f) /\ Go(f, "fetch") /\ UNCHANGED <<prefetch, won>>
         \/ /\ Go(f, "fetch") /\ prefetch' = [prefetch EXCEPT ![f] = "used"]
            /\ UNCHANGED <<left, won>>
         \/ Raise(f)
  BY DEF Retry
<1>2. Beside(f)
  BY <1>1, WorkFacts DEF Beside
<1>3. \A k \in Lanes : <<f, k>> \notin live' /\ lanes'[<<f, k>>] = "idle"
  BY <1>1, WorkFacts DEF FilesFit, LanesFit
<1>4. CASE ~Raise(f)
  <2>1. /\ Go(f, "fetch") /\ won' = won
        /\ prefetch'[f] \in {"none", "running", "used"}
        /\ prefetch' = [prefetch EXCEPT ![f] = prefetch'[f]]
    BY <1>1, <1>4, WorkFacts
  <2>2. left' \in [Flights -> 0 .. MaxRoutes]
    BY <1>1, <1>4, WorkFacts, SharedAssumption DEF Reserve
  <2>3. stage'[f] = "fetch"
    BY <2>1, WorkFacts DEF Go
  <2>4. (LanesFit(f) /\ FilesFit(f) /\ PrefetchFits(f))'
    BY <1>3, <2>3 DEF LanesFit, FilesFit, PrefetchFits
  <2>. QED
    BY <1>1, <1>2, <2>1, <2>2, <2>4, WorkFacts, GoMoves DEF Stages
<1>. QED
  BY <1>1, <1>2, <1>3, <1>4, RaiseMoves

(* The prefetch is joined, and the metadata stored, before publication.      *)
LEMMA StoreKeeps ==
  ASSUME SharedInv, NEW f \in Flights, JoinPrefetch(f) \/ Store(f)
  PROVE  SharedInv'
<1>1. PICK s \in {"store", "publish"} :
         /\ stage[f] \in {"join", "store"} /\ Go(f, s)
         /\ UNCHANGED <<userVars, platform, left, lanes, won, live, refused>>
         /\ \/ stage[f] = "join" /\ prefetch' = [prefetch EXCEPT ![f] = "used"]
            \/ stage[f] = "store" /\ prefetch' = prefetch
  BY DEF JoinPrefetch, Store
<1>2. Beside(f)
  BY <1>1, WorkFacts DEF Beside
<1>3. stage'[f] = s
  BY <1>1, WorkFacts DEF Go
<1>4. /\ prefetch'[f] \in {"none", "used"}
      /\ prefetch' = [prefetch EXCEPT ![f] = prefetch'[f]]
  BY <1>1, WorkFacts DEF PrefetchFits
<1>5. (LanesFit(f) /\ FilesFit(f) /\ PrefetchFits(f))'
  BY <1>1, <1>3, <1>4, WorkFacts DEF LanesFit, FilesFit, PrefetchFits
<1>. QED
  BY <1>1, <1>2, <1>4, <1>5, WorkFacts, GoMoves DEF Stages

(* A cancelled factory deletes the file it holds.                            *)
LEMMA UnwindKeeps ==
  ASSUME SharedInv, NEW f \in Flights, Unwind(f)
  PROVE  SharedInv'
<1>1. /\ stage[f] \in {"resolve", "fetch", "check", "failed", "join", "store"} /\ Raise(f)
      /\ live' = live \ {<<f, k>> : k \in Lanes}
      /\ UNCHANGED <<userVars, platform, lanes, refused>>
  BY DEF Unwind
<1>2. Beside(f)
  BY <1>1, WorkFacts DEF Beside
<1>3. \A k \in Lanes : <<f, k>> \notin live' /\ lanes'[<<f, k>>] = "idle"
  BY <1>1, WorkFacts DEF LanesFit
<1>. QED
  BY <1>1, <1>2, <1>3, RaiseMoves

(* A route's attempt: resolution, download, validation, and the file of a    *)
(* stopped one deleted (race_materializations).                              *)
LEMMA LaneStepKeeps ==
  ASSUME SharedInv, NEW i \in Files, LaneStep(i)
  PROVE  SharedInv'
<1>1. PICK f \in Flights, k \in Lanes : i = <<f, k>>
  BY DEF Files
<1>2. /\ UNCHANGED <<flightVars, userVars, platform, stage, prefetch, won, refused>>
      /\ lanes[i] \in {"working", "checking", "stopping"}
      /\ lanes'[i] \in {"working", "checking", "ok", "failed"}
      /\ lanes[i] = "stopping" => lanes'[i] = "failed"
      /\ lanes' = [lanes EXCEPT ![i] = lanes'[i]]
      /\ live' \in {live, live \cup {i}, live \ {i}}
      /\ i \in live' => lanes'[i] \in {"checking", "ok"} \/ (i \in live /\ lanes[i] = "working")
      /\ lanes'[i] = "ok" => lanes[i] = "checking" /\ live' = live
      /\ lanes'[i] = "checking" => i \in live'
      /\ left' = left \/ (left[i[1]] > 0 /\ left' = [left EXCEPT ![i[1]] = @ - 1])
  BY WorkFacts DEF LaneStep
<1>3. stage[f] \in {"race", "settle"} /\ (stage[f] = "settle" => lanes[i] = "stopping")
  BY <1>1, <1>2, WorkFacts DEF LanesFit
<1>4. left' \in [Flights -> 0 .. MaxRoutes]
  BY <1>1, <1>2, WorkFacts, SharedAssumption
<1>5. \A j \in Files : j # i => lanes'[j] = lanes[j] /\ (j \in live' <=> j \in live)
  BY <1>2, WorkFacts
<1>6. Moves(f)
  BY <1>1, <1>2, <1>3, <1>4, <1>5, WorkFacts DEF Moves, Stages
<1>7. StageFits(f)' /\ PrefetchFits(f)'
  BY <1>2, WorkFacts DEF StageFits, PrefetchFits, Works, flightVars
<1>8. /\ \A m \in Lanes : m # k => lanes'[<<f, m>>] = lanes[<<f, m>>]
      /\ \A m \in Lanes : m # k => (<<f, m>> \in live' <=> <<f, m>> \in live)
  BY <1>1, <1>5, WorkFacts
<1>9. LanesFit(f)'
  <2>1. LanesFit(f)
    BY WorkFacts
  <2>2. ASSUME NEW m \in Lanes
        PROVE  \/ m = k /\ lanes'[<<f, m>>] \in {"working", "checking", "ok", "failed"}
               \/ m # k /\ lanes'[<<f, m>>] = lanes[<<f, m>>]
    BY <1>1, <1>2, <1>8
  <2>3. stage[f] = "settle" => lanes'[<<f, k>>] = "failed"
    BY <1>1, <1>2, <1>3
  <2>4. stage' = stage
    BY <1>2
  <2>. QED
    BY <1>3, <2>1, <2>2, <2>3, <2>4 DEF LanesFit
<1>10. FilesFit(f)'
  <2>1. FilesFit(f) /\ won[f] \in Lanes \cup {0}
    BY WorkFacts
  <2>2. /\ <<f, k>> \in live => lanes[<<f, k>>] \in {"checking", "ok", "stopping"}
        /\ lanes[<<f, k>>] \in {"checking", "ok"} => <<f, k>> \in live
    BY <1>3, <2>1 DEF FilesFit
  <2>3. /\ <<f, k>> \in live' => lanes'[<<f, k>>] \in {"checking", "ok", "stopping"}
        /\ lanes'[<<f, k>>] \in {"checking", "ok"} => <<f, k>> \in live'
    BY <1>1, <1>2, <2>2
  <2>4. stage' = stage /\ won' = won
    BY <1>2
  <2>. QED
    BY <1>1, <1>2, <1>3, <1>8, <2>1, <2>3, <2>4 DEF FilesFit
<1>. QED
  BY <1>6, <1>7, <1>9, <1>10, MovesKeep DEF WorkFits

(* The race is decided and the other lanes are stopped.                      *)
LEMMA DecideKeeps ==
  ASSUME SharedInv, NEW f \in Flights, Decide(f)
  PROVE  SharedInv'
<1>1. /\ stage[f] = "race" /\ Go(f, "settle")
      /\ \/ \E k \in LanesOf(f, {"ok"}) : won' = [won EXCEPT ![f] = k]
         \/ won' = [won EXCEPT ![f] = 0]
      /\ lanes' = [i \in Files |->
            IF i[1] = f /\ lanes[i] \in {"working", "checking"} THEN "stopping" ELSE lanes[i]]
      /\ UNCHANGED <<userVars, platform, left, prefetch, live, refused>>
  BY DEF Decide
<1>2. Beside(f)
  BY <1>1, WorkFacts DEF Beside
<1>3. stage'[f] = "settle"
  BY <1>1, WorkFacts DEF Go
<1>4. /\ won'[f] \in Lanes \cup {0} /\ won' = [won EXCEPT ![f] = won'[f]]
      /\ won'[f] # 0 => lanes[<<f, won'[f]>>] = "ok"
  BY <1>1, WorkFacts DEF LanesOf
<1>5. \A k \in Lanes : lanes'[<<f, k>>] =
         IF lanes[<<f, k>>] \in {"working", "checking"} THEN "stopping" ELSE lanes[<<f, k>>]
  BY <1>1, WorkFacts
<1>6. LanesFit(f)'
  BY <1>1, <1>3, <1>5, WorkFacts DEF LanesFit
<1>7. FilesFit(f)'
  <2>1. FilesFit(f)
    BY WorkFacts
  <2>2. \A k \in Lanes :
           /\ <<f, k>> \in live => lanes[<<f, k>>] \in {"checking", "ok", "stopping"}
           /\ lanes[<<f, k>>] \in {"checking", "ok"} => <<f, k>> \in live
    BY <1>1, <2>1 DEF FilesFit
  <2>. QED
    BY <1>1, <1>3, <1>4, <1>5, <2>2 DEF FilesFit
<1>8. PrefetchFits(f)'
  BY <1>1, <1>3, WorkFacts DEF PrefetchFits
<1>. QED
  BY <1>1, <1>2, <1>4, <1>6, <1>7, <1>8, WorkFacts, GoMoves DEF Stages

(* discard_losers: every file but the winner's is deleted, the winner's too  *)
(* if the race was cancelled meanwhile.                                      *)
LEMMA SettleKeeps ==
  ASSUME SharedInv, NEW f \in Flights, Settle(f)
  PROVE  SharedInv'
<1>1. /\ stage[f] = "settle" /\ lanes' = IdleLanes(f)
      /\ \/ /\ won[f] # 0 /\ Go(f, "store")
            /\ live' = live \ {<<f, k>> : k \in Lanes \ {won[f]}}
            /\ UNCHANGED <<won, left, prefetch>>
         \/ Raise(f) /\ live' = live \ {<<f, k>> : k \in Lanes}
      /\ UNCHANGED <<userVars, platform, refused>>
  BY DEF Settle
<1>2. /\ lanes' \in [Files -> {"idle", "working", "checking", "ok", "failed", "stopping"}]
      /\ \A k \in Lanes : lanes'[<<f, k>>] = "idle"
      /\ \A i \in Files : i[1] # f => lanes'[i] = lanes[i]
  BY <1>1, WorkFacts DEF IdleLanes
<1>3. live' \subseteq Files /\ \A i \in Files : i[1] # f => (i \in live' <=> i \in live)
  BY <1>1, WorkFacts
<1>4. Beside(f)
  BY <1>1, <1>2, <1>3 DEF Beside
<1>5. CASE won[f] # 0 /\ Go(f, "store")
           /\ live' = live \ {<<f, k>> : k \in Lanes \ {won[f]}}
           /\ UNCHANGED <<won, left, prefetch>>
  <2>1. stage'[f] = "store"
    BY <1>5, WorkFacts DEF Go
  <2>2. FilesFit(f) /\ won[f] \in Lanes
    BY <1>5, WorkFacts
  <2>3. <<f, won[f]>> \in live
    BY <1>1, <1>5, <2>2 DEF FilesFit
  <2>4. \A k \in Lanes : <<f, k>> \in live' <=> k = won[f]
    BY <1>5, <2>2, <2>3
  <2>5. FilesFit(f)'
    BY <1>5, <2>1, <2>2, <2>4 DEF FilesFit
  <2>6. LanesFit(f)' /\ PrefetchFits(f)'
    BY <1>1, <1>2, <1>5, <2>1, WorkFacts DEF LanesFit, PrefetchFits
  <2>. QED
    BY <1>1, <1>4, <1>5, <2>5, <2>6, WorkFacts, GoMoves DEF Stages
<1>6. CASE Raise(f) /\ live' = live \ {<<f, k>> : k \in Lanes}
  BY <1>1, <1>2, <1>4, <1>6, RaiseMoves
<1>. QED
  BY <1>1, <1>5, <1>6

-----------------------------------------------------------------------------
(* Publication. *)

(* A working factory has somebody in its flight, who is counted.             *)
LEMMA SomebodyWaits ==
  ASSUME SharedInv, NEW f \in Flights, Works(f)
  PROVE  /\ \E c \in Callers : user[c] = "sharing" /\ mine[c] = f
         /\ IsFiniteSet(Registered) /\ Cardinality(Registered) \in Nat \ {0}
<1>1. SharersFit /\ CancellersJoin /\ FlightProofs!FlightInv
  BY DEF SharedInv
<1>2. \E c \in Callers : at[c] \in {"waiting", "leaving", "joining"} /\ mine[c] = f
  <2>1. CASE task[f] = "running"
    BY <1>1, <2>1, FlightFacts
  <2>2. CASE task[f] = "cancelling"
    BY <1>1, <2>2 DEF CancellersJoin
  <2>. QED
    BY <2>1, <2>2 DEF Works
<1>3. PICK c \in Callers : user[c] = "sharing" /\ mine[c] = f
  BY <1>1, <1>2 DEF SharersFit
<1>4. IsFiniteSet(Registered)
  BY FlightAssumed, FS_Subset DEF Registered
<1>5. Registered # {}
  BY <1>3 DEF Registered
<1>. QED
  BY <1>3, <1>4, <1>5, FS_CardinalityType, FS_EmptySet

(* _publish_materialization gives the file to the key, or to nobody if the   *)
(* key has one; then a cancelled flight was overtaken.                       *)
LEMMA PublishKeeps ==
  ASSUME SharedInv, NEW f \in Flights, Publish(f)
  PROVE  SharedInv'
<1>0. /\ SharedType /\ FlightProofs!FlightInv /\ \A g \in Flights : WorkFits(g)
      /\ FilesKept /\ SharersFit /\ CancellersJoin /\ OvertakenByCancelled /\ UsersAreCounted
  BY DEF SharedInv
<1>1. PICK i \in Files : i = <<f, won[f]>> /\ i[1] = f /\ i[2] = won[f]
  <2>1. stage[f] = "publish" /\ FilesFit(f)
    BY WorkFacts DEF Publish
  <2>2. won[f] \in Lanes
    BY <2>1 DEF FilesFit
  <2>3. <<f, won[f]>> \in Files
    BY <2>2 DEF Files
  <2>. QED
    BY <2>3
<1>2. /\ stage[f] = "publish" /\ UNCHANGED flightVars
      /\ stage' = [stage EXCEPT ![f] = "published"] /\ stage'[f] = "published"
      /\ UNCHANGED <<platform, user, cancelled, has, left, prefetch, lanes, won, live>>
      /\ \/ /\ ready = None /\ ready' = [item |-> i, users |-> pending]
            /\ pending' = 0 /\ refused' = refused
         \/ /\ ready # None /\ refused' = refused \cup {i}
            /\ UNCHANGED <<ready, pending>>
  BY <1>1, WorkFacts DEF Publish, Go
<1>3. /\ UNCHANGED <<current, task, subs, at, mine>>
      /\ UNCHANGED <<user, has, live, won, lanes, prefetch>>
  BY <1>2 DEF flightVars
<1>4. /\ Works(f) /\ won[f] \in Lanes /\ i \in live
      /\ \A j \in Files : j[1] = f /\ j \in live => j = i
  <2>1. StageFits(f) /\ FilesFit(f)
    BY WorkFacts
  <2>2. won[f] \in Lanes /\ \A k \in Lanes : <<f, k>> \in live <=> k = won[f]
    BY <1>2, <2>1 DEF FilesFit
  <2>3. Works(f)
    BY <1>2, <2>1 DEF StageFits
  <2>. QED
    BY <1>1, <2>2, <2>3, WorkFacts
<1>5. /\ refused \subseteq Files /\ pending \in Nat
      /\ ready # None => ready \in [item : Files, users : Nat \ {0}]
      /\ ready # None => ready.item \in Files
      /\ stage \in [Flights -> Stages] /\ won \in [Flights -> Lanes \cup {0}]
  BY <1>0 DEF SharedType
<1>6. ~Kept(i)
  BY <1>0, <1>1, <1>2 DEF FilesKept, Out
<1>7. pending # 0 \/ ready # None
  BY <1>0, <1>4, SomebodyWaits DEF UsersAreCounted
<1>8. /\ ready = None => /\ ready' \in [item : Files, users : Nat \ {0}] /\ ready' # None
                         /\ ready'.item = i /\ ready'.users = pending
  <2>1. SUFFICES ASSUME ready = None
                 PROVE  /\ ready' \in [item : Files, users : Nat \ {0}] /\ ready' # None
                        /\ ready'.item = i /\ ready'.users = pending
    OBVIOUS
  <2>2. ready' = [item |-> i, users |-> pending] /\ pending \in Nat \ {0}
    BY <1>2, <1>5, <1>7, <2>1
  <2>3. ready' \in [item : Flights \X {1, 2}, users : Nat]
    BY <2>2 DEF Files, Lanes
  <2>. QED
    BY <2>2, <2>3, SharedAssumption
<1>9. \A j \in Files : Kept(j)' <=> Kept(j) \/ j = i
  BY <1>2, <1>8 DEF Kept
<1>10. \A g \in Flights : Out(g)' <=> Out(g) \/ g = f
  BY <1>2, <1>5 DEF Out
<1>11. ready' # None /\ ready'.item \in Files /\ ready'.item \notin refused'
  <2>1. CASE ready = None
    BY <1>2, <1>6, <1>8, <2>1 DEF Kept
  <2>2. CASE ready # None
    <3>1. ready.item \notin refused /\ ready.item # i
      BY <1>0, <1>6, <2>2 DEF FilesKept, Kept
    <3>. QED
      BY <1>2, <1>5, <2>2, <3>1
  <2>. QED
    BY <2>1, <2>2
<1>12. SharedType'
  <2>1. ready' \in {None} \cup [item : Files, users : Nat \ {0}]
    BY <1>2, <1>5, <1>8
  <2>2. /\ pending' \in Nat /\ refused' \subseteq Files
        /\ stage' \in [Flights -> Stages]
    BY <1>2, <1>5 DEF Stages
  <2>. QED
    BY <1>0, <1>2, <2>1, <2>2 DEF SharedType
<1>13. FilesKept'
  <2>1. (\A j \in Files : j \in live /\ Out(j[1]) => Kept(j))'
    BY <1>0, <1>3, <1>4, <1>9, <1>10, WorkFacts DEF FilesKept
  <2>2. (\A j \in Files : Kept(j) => j \in live /\ Out(j[1]) /\ won[j[1]] = j[2])'
    BY <1>0, <1>1, <1>3, <1>4, <1>9, <1>10, WorkFacts DEF FilesKept
  <2>3. (\A c \in Callers : user[c] = "using" => has[c] \in Files /\ Kept(has[c]))'
    BY <1>0, <1>3, <1>9 DEF FilesKept
  <2>4. (\A c \in Callers :
           user[c] = "sharing" /\ Out(mine[c]) /\ won[mine[c]] # 0 =>
              Kept(<<mine[c], won[mine[c]]>>))'
    <3>1. ASSUME NEW c \in Callers, user[c] = "sharing", NEW g \in Flights, g = mine[c],
                 Out(g)', won[g] # 0
          PROVE  Kept(<<g, won[g]>>)'
      <4>1. <<g, won[g]>> \in Files
        BY <1>5, <3>1 DEF Files
      <4>2. CASE g = f
        BY <1>1, <1>3, <1>9, <4>1, <4>2
      <4>3. CASE g # f
        <5>1. Kept(<<g, won[g]>>)
          BY <1>0, <1>10, <3>1, <4>3 DEF FilesKept
        <5>. QED
          BY <1>3, <1>9, <4>1, <5>1
      <4>. QED
        BY <4>2, <4>3
    <3>2. \A c \in Callers : user[c] = "sharing" => mine[c] \in Flights
      BY <1>0 DEF SharersFit
    <3>. QED
      BY <1>3, <3>1, <3>2
  <2>. QED
    BY <1>11, <2>1, <2>2, <2>3, <2>4 DEF FilesKept
<1>14. \A g \in Flights : WorkFits(g)'
  <2>1. WorkFits(f)'
    <3>1. StageFits(f) /\ LanesFit(f) /\ PrefetchFits(f)
      BY WorkFacts
    <3>. QED
      BY <1>2, <1>3, <1>4, <3>1
      DEF WorkFits, StageFits, LanesFit, FilesFit, PrefetchFits, Works
  <2>2. ASSUME NEW g \in Flights, g # f PROVE WorkFits(g)'
    <3>1. stage'[g] = stage[g]
      BY <1>2, <1>5, <2>2
    <3>. QED
      BY <1>0, <1>3, <1>5, <3>1, WorkFrame DEF Works
  <2>. QED
    BY <2>1, <2>2
<1>15. OvertakenByCancelled'
  <2>1. Cancelled' <=> Cancelled
    BY <1>3 DEF Cancelled
  <2>2. CASE ready = None
    <3>1. Cancelled \/ \A g \in Flights : Works(g) => g = f
      BY <1>0, <1>4, FlightFacts DEF Cancelled, Works
    <3>2. \A g \in Flights : Works(g)' <=> Works(g)
      BY <1>3 DEF Works
    <3>3. refused' = refused /\ ready'.item[1] = f
      BY <1>1, <1>2, <1>8, <2>2
    <3>. QED
      BY <1>0, <2>1, <3>1, <3>2, <3>3 DEF OvertakenByCancelled
  <2>3. CASE ready # None
    <3>1. ready.item[1] # f
      BY <1>0, <1>2, <1>5, <2>3 DEF FilesKept, Kept, Out
    <3>2. Cancelled
      BY <1>0, <1>4, <2>3, <3>1 DEF OvertakenByCancelled
    <3>. QED
      BY <2>1, <3>2 DEF OvertakenByCancelled
  <2>. QED
    BY <2>2, <2>3
<1>16. UsersAreCounted'
  <2>1. Registered' = Registered
    BY <1>3 DEF Registered
  <2>. QED
    BY <1>0, <1>2, <1>8, <2>1 DEF UsersAreCounted
<1>17. FlightProofs!FlightInv' /\ SharersFit' /\ CancellersJoin'
  BY <1>0, <1>2, <1>3, FlightKeeps DEF SharersFit, CancellersJoin
<1>. QED
  BY <1>12, <1>13, <1>14, <1>15, <1>16, <1>17 DEF SharedInv

(* The factory returns the published file, or raises the cancellation it has *)
(* outlasted: the file is in other hands already.                            *)
LEMMA FinishKeeps ==
  ASSUME SharedInv, NEW f \in Flights, Finish(f)
  PROVE  SharedInv'
<1>0. /\ SharedType /\ FlightProofs!FlightInv /\ \A g \in Flights : WorkFits(g)
      /\ FilesKept /\ SharersFit /\ CancellersJoin /\ OvertakenByCancelled /\ UsersAreCounted
  BY DEF SharedInv
<1>1. /\ stage[f] = "published" /\ stage' = [stage EXCEPT ![f] = "over"]
      /\ stage'[f] = "over" /\ left' = [left EXCEPT ![f] = 0]
      /\ prefetch' = [prefetch EXCEPT ![f] = prefetch'[f]]
      /\ prefetch'[f] \in {"none", "running"} /\ (prefetch'[f] = "running" => prefetch[f] = "running")
      /\ Flight!FactoryEnds(f) /\ (task'[f] = "cancelled" <=> task[f] = "cancelling")
      /\ UNCHANGED <<userVars, platform, lanes, won, live, refused>>
  BY WorkFacts DEF Finish, Over
<1>2. /\ FlightProofs!FlightInv' /\ UNCHANGED <<current, subs, at, mine>>
      /\ task' = [task EXCEPT ![f] = task'[f]]
      /\ task[f] \in {"running", "cancelling"} /\ task'[f] \in {"done", "cancelled"}
      /\ CancellersJoin' /\ (Cancelled => Cancelled')
  BY <1>0, <1>1, EndOfTask
<1>3. UNCHANGED <<pending, ready, user, cancelled, has, platform, lanes, won, live, refused, mine, at>>
  BY <1>1, <1>2 DEF userVars
<1>4. SharedType'
  BY <1>0, <1>1, <1>3, WorkFacts, SharedAssumption DEF SharedType, Stages
<1>5. \A g \in Flights : WorkFits(g)'
  <2>1. WorkFits(f)'
    <3>1. StageFits(f) /\ LanesFit(f) /\ PrefetchFits(f)
      BY WorkFacts
    <3>. QED
      BY <1>1, <1>2, <1>3, <3>1
      DEF WorkFits, StageFits, LanesFit, FilesFit, PrefetchFits, Works
  <2>2. ASSUME NEW g \in Flights, g # f PROVE WorkFits(g)'
    <3>1. stage'[g] = stage[g] /\ prefetch'[g] = prefetch[g] /\ task'[g] = task[g]
      BY <1>1, <1>2, <2>2, WorkFacts
    <3>. QED
      BY <1>0, <1>3, <3>1, WorkFrame, WorkFacts DEF Works
  <2>. QED
    BY <2>1, <2>2
<1>6. FilesKept'
  <2>1. \A g : Out(g)' <=> Out(g)
    BY <1>1, WorkFacts DEF Out
  <2>2. \A j : Kept(j)' <=> Kept(j)
    BY <1>3 DEF Kept
  <2>. QED
    BY <1>0, <1>3, <2>1, <2>2 DEF FilesKept
<1>7. OvertakenByCancelled'
  <2>1. \A g \in Flights : Works(g)' => Works(g)
    BY <1>2, WorkFacts DEF Works
  <2>. QED
    BY <1>0, <1>2, <1>3, <2>1 DEF OvertakenByCancelled
<1>8. SharersFit' /\ UsersAreCounted'
  BY <1>0, <1>3 DEF SharersFit, UsersAreCounted, Registered
<1>. QED
  BY <1>2, <1>4, <1>5, <1>6, <1>7, <1>8 DEF SharedInv

-----------------------------------------------------------------------------
(* The callers. *)

(* A caller leaves the flight, or is cancelled in it (SingleFlightGroup.do). *)
LEMMA FlightStepKeeps ==
  ASSUME SharedInv, NEW c \in Callers, Cancel(c) \/ Share(c)
  PROVE  SharedInv'
<1>0. /\ SharedType /\ FlightProofs!FlightInv /\ \A g \in Flights : WorkFits(g)
      /\ FilesKept /\ SharersFit /\ CancellersJoin /\ OvertakenByCancelled /\ UsersAreCounted
  BY DEF SharedInv
<1>1. /\ UNCHANGED <<pending, ready, user, has, platform, live, refused>>
      /\ UNCHANGED <<stage, left, prefetch, lanes, won>>
      /\ cancelled' \subseteq Callers
  BY <1>0 DEF Cancel, Share, workVars, userVars, SharedType
<1>2. /\ FlightProofs!FlightInv' /\ mine' = mine
      /\ \A d \in Callers : at'[d] \in {"waiting", "leaving", "joining"} =>
                               at[d] \in {"waiting", "leaving", "joining"}
      /\ \A f \in Flights : /\ task'[f] = "unused" <=> task[f] = "unused"
                            /\ Works(f)' <=> Works(f)
      /\ CancellersJoin'
      /\ Cancelled => Cancelled'
  <2>1. CASE UNCHANGED flightVars
    BY <1>0, <2>1, FlightKeeps DEF flightVars, Works, CancellersJoin, Cancelled
  <2>2. CASE \/ Flight!Wake(c) \/ Flight!CancelCaller(c) \/ Flight!Unsubscribe(c)
             \/ Flight!Joined(c)
    BY <2>2, CallerMoves
  <2>. QED
    BY <2>1, <2>2 DEF Cancel, Share
<1>3. SharedType'
  BY <1>0, <1>1 DEF SharedType
<1>4. \A g \in Flights : WorkFits(g)'
  <2>1. \A g \in Flights : won[g] \in Lanes \cup {0}
    BY <1>0 DEF SharedType
  <2>. QED
    BY <1>0, <1>1, <1>2, <2>1, WorkFrame
<1>5. FilesKept'
  BY <1>0, <1>1, <1>2 DEF FilesKept, Kept, Out
<1>6. SharersFit'
  BY <1>0, <1>1, <1>2 DEF SharersFit
<1>7. OvertakenByCancelled'
  BY <1>0, <1>1, <1>2 DEF OvertakenByCancelled
<1>8. UsersAreCounted'
  BY <1>0, <1>1 DEF UsersAreCounted, Registered
<1>. QED
  BY <1>2, <1>3, <1>4, <1>5, <1>6, <1>7, <1>8 DEF SharedInv

\* A caller's step outside the flight and the factories.
Aside ==
    UNCHANGED <<flightVars, workVars, platform, cancelled, refused>>

(* Outside them, the work and the flight stay as they are; a file somebody   *)
(* took back was the key's.                                                  *)
LEMMA AsideKeeps ==
  ASSUME SharedInv, Aside,
         live' = live \/ (ready # None /\ live' = live \ {ready.item})
  PROVE  /\ FlightProofs!FlightInv'
         /\ \A g \in Flights : WorkFits(g)'
         /\ CancellersJoin'
         /\ Cancelled' <=> Cancelled
         /\ \A g \in Flights : Works(g)' <=> Works(g)
         /\ UNCHANGED <<mine, at, stage, won, refused>>
<1>0. /\ SharedType /\ FlightProofs!FlightInv /\ \A g \in Flights : WorkFits(g)
      /\ FilesKept /\ CancellersJoin
  BY DEF SharedInv
<1>1. /\ UNCHANGED flightVars /\ UNCHANGED <<current, task, subs, at, mine>>
      /\ UNCHANGED <<stage, left, prefetch, lanes, won, refused>>
  BY DEF Aside, flightVars, workVars
<1>2. \A g \in Flights :
         Out(g) \/ \A k \in Lanes : <<g, k>> \in live' <=> <<g, k>> \in live
  <2>1. CASE live' = live
    BY <2>1
  <2>2. CASE ready # None /\ live' = live \ {ready.item}
    <3>1. PICK i \in Files : i = ready.item
      BY <1>0, <2>2 DEF SharedType
    <3>2. Out(i[1])
      BY <1>0, <2>2, <3>1 DEF FilesKept, Kept
    <3>. QED
      BY <2>2, <3>1, <3>2
  <2>. QED
    BY <2>1, <2>2
<1>3. \A g \in Flights : WorkFits(g)'
  <2>1. \A g \in Flights : won[g] \in Lanes \cup {0}
    BY <1>0 DEF SharedType
  <2>. QED
    BY <1>0, <1>1, <1>2, <2>1, WorkFrame DEF Works
<1>. QED
  BY <1>0, <1>1, <1>3, FlightKeeps DEF CancellersJoin, Cancelled, Works

(* do returns the shared file or raises.                                     *)
LEMMA ReturnKeeps ==
  ASSUME SharedInv, NEW c \in Callers, Return(c)
  PROVE  SharedInv'
<1>0. /\ SharedType /\ FilesKept /\ SharersFit /\ OvertakenByCancelled /\ UsersAreCounted
  BY DEF SharedInv
<1>1. PICK f \in Flights : f = mine[c]
  BY <1>0 DEF SharersFit, Return
<1>2. /\ user[c] = "sharing" /\ at[c] = "left"
      /\ \/ /\ stage[f] = "over" /\ won[f] # 0
            /\ user' = [user EXCEPT ![c] = "using"]
            /\ has' = [has EXCEPT ![c] = <<f, won[f]>>]
         \/ /\ user' = [user EXCEPT ![c] = "releasing"] /\ has' = has
      /\ UNCHANGED <<pending, ready, live>> /\ Aside
  BY <1>1 DEF Return, Aside
<1>3. /\ FlightProofs!FlightInv' /\ \A g \in Flights : WorkFits(g)'
      /\ CancellersJoin' /\ (Cancelled' <=> Cancelled)
      /\ \A g \in Flights : Works(g)' <=> Works(g)
      /\ UNCHANGED <<mine, at, stage, won, refused>>
  BY <1>2, AsideKeeps
<1>4. /\ user \in [Callers -> {"out", "sharing", "using", "releasing", "done"}]
      /\ has \in [Callers -> Files \cup {None}] /\ won[f] \in Lanes \cup {0}
  BY <1>0 DEF SharedType
<1>5. user'[c] \in {"using", "releasing"} /\ user' = [user EXCEPT ![c] = user'[c]]
  BY <1>2, <1>4
<1>6. user'[c] = "using" => /\ has'[c] = <<f, won[f]>> /\ has'[c] \in Files
                            /\ Kept(<<f, won[f]>>)
  <2>1. SUFFICES ASSUME user'[c] = "using"
                 PROVE  /\ has'[c] = <<f, won[f]>> /\ has'[c] \in Files /\ Kept(<<f, won[f]>>)
    OBVIOUS
  <2>2. stage[f] = "over" /\ won[f] # 0 /\ has' = [has EXCEPT ![c] = <<f, won[f]>>]
    BY <1>2, <1>4, <2>1
  <2>3. <<f, won[f]>> \in Files
    BY <1>4, <2>2 DEF Files
  <2>4. Kept(<<f, won[f]>>)
    BY <1>0, <1>1, <1>2, <2>2 DEF FilesKept, Out
  <2>. QED
    BY <1>4, <2>2, <2>3, <2>4
<1>7. /\ has' \in [Callers -> Files \cup {None}]
      /\ \A d \in Callers : d # c => has'[d] = has[d]
  BY <1>2, <1>4, <1>6
<1>8. SharedType'
  <2>1. user' \in [Callers -> {"out", "sharing", "using", "releasing", "done"}]
    BY <1>4, <1>5
  <2>2. UNCHANGED <<platform, pending, ready, cancelled, stage, left, prefetch, lanes, won, live, refused>>
    BY <1>2 DEF Aside, workVars
  <2>. QED
    BY <1>0, <1>7, <2>1, <2>2 DEF SharedType
<1>9. FilesKept'
  <2>1. /\ \A j : Kept(j)' <=> Kept(j)
        /\ \A g : Out(g)' <=> Out(g)
    BY <1>2, <1>3 DEF Kept, Out
  <2>2. (\A d \in Callers : user[d] = "using" => has[d] \in Files /\ Kept(has[d]))'
    BY <1>0, <1>4, <1>5, <1>6, <1>7, <2>1 DEF FilesKept
  <2>3. \A d \in Callers : user'[d] = "sharing" => user[d] = "sharing"
    BY <1>4, <1>5
  <2>4. (\A d \in Callers :
           user[d] = "sharing" /\ Out(mine[d]) /\ won[mine[d]] # 0 =>
              Kept(<<mine[d], won[mine[d]]>>))'
    BY <1>0, <1>3, <2>1, <2>3 DEF FilesKept
  <2>. QED
    BY <1>0, <1>2, <1>3, <2>1, <2>2, <2>4 DEF FilesKept
<1>10. SharersFit'
  BY <1>0, <1>2, <1>3, <1>4, <1>5 DEF SharersFit
<1>11. OvertakenByCancelled'
  BY <1>0, <1>2, <1>3 DEF OvertakenByCancelled
<1>12. UsersAreCounted'
  <2>1. Registered' = Registered
    BY <1>2, <1>4, <1>5 DEF Registered
  <2>. QED
    BY <1>0, <1>2, <2>1 DEF UsersAreCounted
<1>. QED
  BY <1>3, <1>8, <1>9, <1>10, <1>11, <1>12 DEF SharedInv

(* The body of the open ends.                                                *)
LEMMA CloseKeeps ==
  ASSUME SharedInv, NEW c \in Callers, Close(c)
  PROVE  SharedInv'
<1>0. /\ SharedType /\ FilesKept /\ SharersFit /\ OvertakenByCancelled /\ UsersAreCounted
  BY DEF SharedInv
<1>1. /\ user[c] = "using" /\ user' = [user EXCEPT ![c] = "releasing"]
      /\ has' = [has EXCEPT ![c] = None]
      /\ UNCHANGED <<pending, ready, live>> /\ Aside
  BY DEF Close, Aside
<1>2. /\ FlightProofs!FlightInv' /\ \A g \in Flights : WorkFits(g)'
      /\ CancellersJoin' /\ (Cancelled' <=> Cancelled)
      /\ \A g \in Flights : Works(g)' <=> Works(g)
      /\ UNCHANGED <<mine, at, stage, won, refused>>
  BY <1>1, AsideKeeps
<1>3. /\ user \in [Callers -> {"out", "sharing", "using", "releasing", "done"}]
      /\ has \in [Callers -> Files \cup {None}]
  BY <1>0 DEF SharedType
<1>4. SharedType'
  BY <1>0, <1>1, <1>3 DEF SharedType, Aside, workVars
<1>5. FilesKept'
  <2>1. /\ \A j : Kept(j)' <=> Kept(j)
        /\ \A g : Out(g)' <=> Out(g)
    BY <1>1, <1>2 DEF Kept, Out
  <2>2. /\ \A d \in Callers : user'[d] = "using" => user[d] = "using" /\ has'[d] = has[d]
        /\ \A d \in Callers : user'[d] = "sharing" => user[d] = "sharing"
    BY <1>1, <1>3
  <2>. QED
    BY <1>0, <1>1, <1>2, <2>1, <2>2 DEF FilesKept
<1>6. SharersFit'
  BY <1>0, <1>1, <1>2, <1>3 DEF SharersFit
<1>7. OvertakenByCancelled'
  BY <1>0, <1>1, <1>2 DEF OvertakenByCancelled
<1>8. UsersAreCounted'
  <2>1. Registered' = Registered
    BY <1>1, <1>3 DEF Registered
  <2>. QED
    BY <1>0, <1>1, <2>1 DEF UsersAreCounted
<1>. QED
  BY <1>2, <1>4, <1>5, <1>6, <1>7, <1>8 DEF SharedInv

(* One caller more or less is one more or less in the count.                 *)
LEMMA CountMoves ==
  ASSUME SharedInv, NEW c \in Callers
  PROVE  /\ IsFiniteSet(Registered) /\ Cardinality(Registered) \in Nat
         /\ c \notin Registered =>
               Cardinality(Registered \cup {c}) = Cardinality(Registered) + 1
         /\ c \in Registered =>
               /\ Cardinality(Registered) \in Nat \ {0}
               /\ Cardinality(Registered \ {c}) = Cardinality(Registered) - 1
               /\ Cardinality(Registered) = 1 => Registered = {c}
<1>1. IsFiniteSet(Registered)
  BY FlightAssumed, FS_Subset DEF Registered
<1>2. Cardinality(Registered) \in Nat
  BY <1>1, FS_CardinalityType
<1>3. c \notin Registered => Cardinality(Registered \cup {c}) = Cardinality(Registered) + 1
  BY <1>1, FS_AddElement
<1>4. c \in Registered =>
         /\ Cardinality(Registered \ {c}) = Cardinality(Registered) - 1
         /\ Cardinality(Registered) # 0
  BY <1>1, FS_RemoveElement, FS_EmptySet
<1>5. ASSUME c \in Registered, Cardinality(Registered) = 1
      PROVE  Registered = {c}
  <2>1. IsFiniteSet(Registered \ {c}) /\ Cardinality(Registered \ {c}) = 0
    BY <1>1, <1>4, <1>5, FS_RemoveElement
  <2>2. Registered \ {c} = {}
    BY <2>1, FS_EmptySet
  <2>. QED
    BY <1>5, <2>2
<1>. QED
  BY <1>1, <1>2, <1>3, <1>4, <1>5

(* _register_materialization_user finds the file.                            *)
LEMMA OpenReadyKeeps ==
  ASSUME SharedInv, NEW c \in Callers, OpenReady(c)
  PROVE  SharedInv'
<1>0. /\ SharedType /\ FilesKept /\ SharersFit /\ OvertakenByCancelled /\ UsersAreCounted
  BY DEF SharedInv
<1>1. /\ user[c] = "out" /\ ready # None
      /\ ready' = [ready EXCEPT !.users = @ + 1]
      /\ has' = [has EXCEPT ![c] = ready.item]
      /\ user' = [user EXCEPT ![c] = "using"]
      /\ UNCHANGED <<pending, live>> /\ Aside
  BY DEF OpenReady, Aside
<1>2. /\ FlightProofs!FlightInv' /\ \A g \in Flights : WorkFits(g)'
      /\ CancellersJoin' /\ (Cancelled' <=> Cancelled)
      /\ \A g \in Flights : Works(g)' <=> Works(g)
      /\ UNCHANGED <<mine, at, stage, won, refused>>
  BY <1>1, AsideKeeps
<1>3. /\ user \in [Callers -> {"out", "sharing", "using", "releasing", "done"}]
      /\ has \in [Callers -> Files \cup {None}]
      /\ ready \in [item : Files, users : Nat \ {0}]
  BY <1>0, <1>1 DEF SharedType
<1>4. /\ ready' \in [item : Files, users : Nat \ {0}]
      /\ ready'.item = ready.item /\ ready'.users = ready.users + 1
  BY <1>1, <1>3
<1>5. ready' # None
  <2>1. ready' \in [item : Flights \X {1, 2}, users : Nat]
    BY <1>4 DEF Files, Lanes
  <2>. QED
    BY <2>1, SharedAssumption
<1>6. SharedType'
  BY <1>0, <1>1, <1>3, <1>4 DEF SharedType, Aside, workVars
<1>7. FilesKept'
  <2>1. /\ \A j : Kept(j)' <=> Kept(j)
        /\ \A g : Out(g)' <=> Out(g)
    BY <1>1, <1>2, <1>4, <1>5 DEF Kept, Out
  <2>2. /\ \A d \in Callers : user'[d] = "using" => d = c \/ (user[d] = "using" /\ has'[d] = has[d])
        /\ \A d \in Callers : user'[d] = "sharing" => user[d] = "sharing"
        /\ has'[c] = ready.item /\ ready.item \in Files
    BY <1>1, <1>3
  <2>3. Kept(ready.item)
    BY <1>1 DEF Kept
  <2>. QED
    BY <1>0, <1>1, <1>2, <1>4, <1>5, <2>1, <2>2, <2>3 DEF FilesKept
<1>8. SharersFit'
  BY <1>0, <1>1, <1>2, <1>3 DEF SharersFit
<1>9. OvertakenByCancelled'
  BY <1>0, <1>1, <1>2, <1>4 DEF OvertakenByCancelled
<1>10. UsersAreCounted'
  <2>1. Registered' = Registered \cup {c} /\ c \notin Registered
    BY <1>1, <1>3 DEF Registered
  <2>. QED
    BY <1>0, <1>1, <1>3, <1>4, <1>5, <2>1, CountMoves DEF UsersAreCounted
<1>. QED
  BY <1>2, <1>6, <1>7, <1>8, <1>9, <1>10 DEF SharedInv

(* _release_materialization_user: the last user deletes the file, and he is  *)
(* the last who could be handed it.                                          *)
LEMMA ReleaseUserKeeps ==
  ASSUME SharedInv, NEW c \in Callers, ReleaseUser(c)
  PROVE  SharedInv'
<1>0. /\ SharedType /\ FilesKept /\ SharersFit /\ OvertakenByCancelled /\ UsersAreCounted
  BY DEF SharedInv
<1>1. /\ user[c] = "releasing" /\ user' = [user EXCEPT ![c] = "done"]
      /\ \/ ready = None /\ pending' = pending - 1 /\ UNCHANGED <<ready, live>>
         \/ /\ ready # None /\ ready.users > 1
            /\ ready' = [ready EXCEPT !.users = @ - 1] /\ UNCHANGED <<pending, live>>
         \/ /\ ready # None /\ ready.users = 1 /\ ready' = None
            /\ live' = live \ {ready.item} /\ pending' = pending
      /\ has' = has /\ Aside
  BY DEF ReleaseUser, Aside
<1>2. /\ FlightProofs!FlightInv' /\ \A g \in Flights : WorkFits(g)'
      /\ CancellersJoin' /\ (Cancelled' <=> Cancelled)
      /\ \A g \in Flights : Works(g)' <=> Works(g)
      /\ UNCHANGED <<mine, at, stage, won, refused>>
  BY <1>1, AsideKeeps
<1>3. /\ user \in [Callers -> {"out", "sharing", "using", "releasing", "done"}]
      /\ pending \in Nat /\ live \subseteq Files
      /\ ready # None => ready \in [item : Files, users : Nat \ {0}]
  BY <1>0 DEF SharedType
<1>4. Registered' = Registered \ {c} /\ c \in Registered
  BY <1>1, <1>3 DEF Registered
<1>5. /\ Cardinality(Registered) \in Nat \ {0}
      /\ Cardinality(Registered') = Cardinality(Registered) - 1
      /\ Cardinality(Registered) = 1 => Registered' = {}
  BY <1>4, CountMoves
<1>6. /\ \A d \in Callers : user'[d] = "using" => user[d] = "using"
      /\ \A d \in Callers : user'[d] = "sharing" => user[d] = "sharing"
      /\ \A d \in Callers : user[d] = "sharing" => user'[d] = "sharing"
      /\ user' \in [Callers -> {"out", "sharing", "using", "releasing", "done"}]
  BY <1>1, <1>3
<1>7. SharersFit'
  BY <1>0, <1>2, <1>6 DEF SharersFit
<1>8. UNCHANGED <<platform, cancelled, stage, left, prefetch, lanes, won, refused, has>>
  BY <1>1 DEF Aside, workVars
<1>9. CASE ready = None
  <2>1. /\ pending' = pending - 1 /\ ready' = None /\ live' = live
        /\ pending = Cardinality(Registered)
    BY <1>0, <1>1, <1>9 DEF UsersAreCounted
  <2>2. pending' \in Nat /\ pending' = Cardinality(Registered')
    BY <1>5, <2>1
  <2>3. SharedType'
    BY <1>0, <1>6, <1>8, <2>1, <2>2 DEF SharedType
  <2>4. /\ \A j : Kept(j)' <=> Kept(j)
        /\ \A g : Out(g)' <=> Out(g)
    BY <1>2, <1>9, <2>1 DEF Kept, Out
  <2>5. FilesKept'
    BY <1>0, <1>2, <1>6, <1>8, <1>9, <2>1, <2>4 DEF FilesKept
  <2>6. OvertakenByCancelled' /\ UsersAreCounted'
    BY <1>0, <1>2, <2>1, <2>2 DEF OvertakenByCancelled, UsersAreCounted
  <2>. QED
    BY <1>2, <1>7, <2>3, <2>5, <2>6 DEF SharedInv
<1>10. CASE ready # None /\ ready.users > 1
  <2>1. /\ ready' = [ready EXCEPT !.users = @ - 1] /\ pending' = pending /\ live' = live
        /\ pending = 0 /\ ready.users = Cardinality(Registered)
    BY <1>0, <1>1, <1>10 DEF UsersAreCounted
  <2>2. /\ ready' \in [item : Files, users : Nat \ {0}]
        /\ ready'.item = ready.item /\ ready'.users = ready.users - 1
    BY <1>3, <1>10, <2>1
  <2>3. ready' # None
    <3>1. ready' \in [item : Flights \X {1, 2}, users : Nat]
      BY <2>2 DEF Files, Lanes
    <3>. QED
      BY <3>1, SharedAssumption
  <2>4. SharedType'
    BY <1>0, <1>6, <1>8, <2>1, <2>2 DEF SharedType
  <2>5. /\ \A j : Kept(j)' <=> Kept(j)
        /\ \A g : Out(g)' <=> Out(g)
    BY <1>2, <1>10, <2>2, <2>3 DEF Kept, Out
  <2>6. FilesKept'
    BY <1>0, <1>2, <1>6, <1>8, <1>10, <2>1, <2>2, <2>3, <2>5 DEF FilesKept
  <2>7. OvertakenByCancelled'
    BY <1>0, <1>2, <1>10, <2>2 DEF OvertakenByCancelled
  <2>8. UsersAreCounted'
    BY <1>5, <2>1, <2>2, <2>3 DEF UsersAreCounted
  <2>. QED
    BY <1>2, <1>7, <2>4, <2>6, <2>7, <2>8 DEF SharedInv
<1>11. CASE ready # None /\ ready.users = 1
  <2>1. /\ ready' = None /\ live' = live \ {ready.item} /\ pending' = pending
        /\ pending = 0 /\ Cardinality(Registered) = 1 /\ ready.item \in Files
    BY <1>0, <1>1, <1>3, <1>11 DEF UsersAreCounted
  <2>2. Registered' = {}
    BY <1>5, <2>1
  <2>3. \A d \in Callers : user'[d] \notin {"using", "sharing"}
    BY <2>2 DEF Registered
  <2>4. SharedType'
    BY <1>0, <1>3, <1>6, <1>8, <2>1 DEF SharedType
  <2>5. /\ \A j \in Files : Kept(j)' <=> j \in refused
        /\ \A g : Out(g)' <=> Out(g)
    BY <1>2, <2>1 DEF Kept, Out
  <2>6. FilesKept'
    <3>1. (\A j \in Files : j \in live /\ Out(j[1]) => Kept(j))'
      BY <1>0, <1>11, <2>1, <2>5 DEF FilesKept, Kept
    <3>2. (\A j \in Files : Kept(j) => j \in live /\ Out(j[1]) /\ won[j[1]] = j[2])'
      <4>1. ASSUME NEW j \in Files, j \in refused
            PROVE  j \in live' /\ Out(j[1])' /\ won'[j[1]] = j[2]
        <5>1. Kept(j) /\ j # ready.item
          BY <1>0, <1>11, <4>1 DEF FilesKept, Kept
        <5>. QED
          BY <1>0, <1>2, <2>1, <2>5, <5>1 DEF FilesKept
      <4>. QED
        BY <2>5, <4>1
    <3>. QED
      BY <2>1, <2>3, <3>1, <3>2 DEF FilesKept
  <2>7. OvertakenByCancelled'
    BY <1>0, <1>2, <2>1 DEF OvertakenByCancelled
  <2>8. UsersAreCounted'
    BY <1>5, <2>1 DEF UsersAreCounted
  <2>. QED
    BY <1>2, <1>7, <2>4, <2>6, <2>7, <2>8 DEF SharedInv
<1>. QED
  BY <1>1, <1>3, <1>9, <1>10, <1>11

(* What a pending user's registration changes beside the flight.             *)
LEMMA OpenPendingJoins ==
  ASSUME SharedInv, NEW c \in Callers, NEW f \in Flights,
         user[c] = "out", ready = None, pending' = pending + 1,
         user' = [user EXCEPT ![c] = "sharing"],
         UNCHANGED <<platform, ready, cancelled, has, prefetch, won, live, refused>>,
         at' = [at EXCEPT ![c] = "waiting"], mine' = [mine EXCEPT ![c] = f],
         Out(f) /\ won[f] # 0 => Kept(<<f, won[f]>>),
         \A g \in Flights : Out(g)' <=> Out(g),
         Cancelled => Cancelled',
         FlightProofs!FlightInv', \A g \in Flights : WorkFits(g)', SharedType', CancellersJoin'
  PROVE  SharedInv'
<1>0. /\ SharedType /\ FilesKept /\ SharersFit /\ OvertakenByCancelled /\ UsersAreCounted
      /\ FlightProofs!FlightInv
  BY DEF SharedInv
<1>1. UNCHANGED <<ready, has, won, live, refused>>
  OBVIOUS
<1>2. /\ user \in [Callers -> {"out", "sharing", "using", "releasing", "done"}]
      /\ mine \in [Callers -> Flights \cup {None}]
      /\ at \in [Callers -> {"new", "waiting", "leaving", "joining", "left"}]
      /\ refused \subseteq Files
  BY <1>0, FlightFacts DEF SharedType
<1>3. \A j : Kept(j)' <=> Kept(j)
  BY <1>1 DEF Kept
<1>4. FilesKept'
  <2>1. \A j \in Files : j[1] \in Flights
    BY DEF Files
  <2>2. /\ (\A j \in Files : j \in live /\ Out(j[1]) => Kept(j))'
        /\ (\A j \in Files : Kept(j) => j \in live /\ Out(j[1]) /\ won[j[1]] = j[2])'
    BY <1>0, <1>1, <1>3, <2>1 DEF FilesKept
  <2>3. (\A d \in Callers : user[d] = "using" => has[d] \in Files /\ Kept(has[d]))'
    <3>1. \A d \in Callers : user'[d] = "using" => user[d] = "using"
      BY <1>2
    <3>. QED
      BY <1>0, <1>1, <1>3, <3>1 DEF FilesKept
  <2>4. (\A d \in Callers :
           user[d] = "sharing" /\ Out(mine[d]) /\ won[mine[d]] # 0 =>
              Kept(<<mine[d], won[mine[d]]>>))'
    <3>1. ASSUME NEW d \in Callers, user'[d] = "sharing", NEW g \in Flights, g = mine'[d],
                 Out(g), won[g] # 0
          PROVE  Kept(<<g, won[g]>>)
      <4>1. d = c \/ (user[d] = "sharing" /\ mine[d] = g)
        BY <1>2, <3>1
      <4>2. d = c => g = f
        BY <1>2, <3>1
      <4>. QED
        BY <1>0, <3>1, <4>1, <4>2 DEF FilesKept
    <3>2. \A d \in Callers : user'[d] = "sharing" => mine'[d] \in Flights
      BY <1>0, <1>2 DEF SharersFit
    <3>. QED
      BY <1>1, <1>3, <3>1, <3>2
  <2>. QED
    BY <1>0, <1>1, <2>2, <2>3, <2>4 DEF FilesKept
<1>5. SharersFit'
  BY <1>0, <1>2 DEF SharersFit
<1>6. OvertakenByCancelled'
  BY <1>0, <1>1 DEF OvertakenByCancelled
<1>7. UsersAreCounted'
  <2>1. Registered' = Registered \cup {c} /\ c \notin Registered
    BY <1>2 DEF Registered
  <2>. QED
    BY <1>0, <1>1, <2>1, CountMoves DEF UsersAreCounted
<1>. QED
  BY <1>4, <1>5, <1>6, <1>7 DEF SharedInv

(* A pending user joins the flight or starts it.  Whoever joins a flight that *)
(* has published finds somebody in it, so the file is still kept.            *)
LEMMA OpenPendingKeeps ==
  ASSUME SharedInv, NEW c \in Callers, NEW f \in Flights, OpenPending(c, f)
  PROVE  SharedInv'
<1>0. /\ SharedType /\ FlightProofs!FlightInv /\ \A g \in Flights : WorkFits(g)
      /\ FilesKept /\ SharersFit /\ CancellersJoin /\ OvertakenByCancelled /\ UsersAreCounted
  BY DEF SharedInv
<1>1. /\ user[c] = "out" /\ ready = None /\ pending' = pending + 1
      /\ user' = [user EXCEPT ![c] = "sharing"]
      /\ UNCHANGED <<platform, ready, cancelled, has, prefetch, won, live, refused>>
  BY DEF OpenPending
<1>2. FlightProofs!FlightInv'
  BY <1>0, FlightKeeps DEF OpenPending
<1>3. /\ task \in [Flights -> {"unused", "running", "cancelling", "cancelled", "done"}]
      /\ at \in [Callers -> {"new", "waiting", "leaving", "joining", "left"}]
      /\ mine \in [Callers -> Flights \cup {None}]
      /\ user \in [Callers -> {"out", "sharing", "using", "releasing", "done"}]
      /\ stage \in [Flights -> Stages] /\ left \in [Flights -> 0 .. MaxRoutes]
      /\ lanes \in [Files -> {"idle", "working", "checking", "ok", "failed", "stopping"}]
      /\ won \in [Flights -> Lanes \cup {0}]
      /\ pending \in Nat /\ refused \subseteq Files
  BY <1>0, FlightFacts DEF SharedType
<1>4. /\ at[c] = "new" /\ at' = [at EXCEPT ![c] = "waiting"]
      /\ mine' = [mine EXCEPT ![c] = f]
      /\ current = None \/ current = f
  BY DEF OpenPending, Flight!Subscribe
<1>5. CASE task[f] = "unused"
  <2>1. /\ current = None /\ task' = [task EXCEPT ![f] = "running"]
        /\ stage' = [stage EXCEPT ![f] = IF platform = "youtube" THEN "race" ELSE "resolve"]
        /\ left' = [left EXCEPT ![f] = MaxRoutes]
        /\ lanes' = [i \in Files |->
              IF i[1] = f /\ platform = "youtube" THEN "working" ELSE lanes[i]]
    BY <1>0, <1>5, FlightFacts DEF OpenPending, Flight!Subscribe
  <2>2. PICK s \in {"race", "resolve"} :
           /\ stage' = [stage EXCEPT ![f] = s] /\ stage'[f] = s
           /\ s = "race" <=> platform = "youtube"
    BY <1>3, <2>1
  <2>3. stage[f] = "unused" /\ LanesFit(f) /\ FilesFit(f) /\ PrefetchFits(f)
    BY <1>5, WorkFacts DEF StageFits
  <2>4. /\ \A k \in Lanes : <<f, k>> \notin live
        /\ prefetch[f] # "running"
        /\ \A k \in Lanes : lanes'[<<f, k>>] = IF s = "race" THEN "working" ELSE "idle"
    BY <2>1, <2>2, <2>3, WorkFacts DEF LanesFit, FilesFit, PrefetchFits
  <2>5. WorkFits(f)'
    <3>1. task'[f] = "running" /\ live' = live /\ prefetch' = prefetch
      BY <1>1, <1>3, <2>1
    <3>. QED
      BY <2>2, <2>4, <3>1
      DEF WorkFits, StageFits, LanesFit, FilesFit, PrefetchFits, Works
  <2>6. ASSUME NEW g \in Flights, g # f PROVE WorkFits(g)'
    <3>1. /\ \A k \in Lanes : lanes'[<<g, k>>] = lanes[<<g, k>>]
          /\ stage'[g] = stage[g] /\ task'[g] = task[g]
      BY <1>3, <2>1, <2>2, <2>6 DEF Files
    <3>. QED
      BY <1>0, <1>1, <1>3, <3>1, WorkFrame DEF Works
  <2>7. SharedType'
    <3>1. /\ user' \in [Callers -> {"out", "sharing", "using", "releasing", "done"}]
          /\ stage' \in [Flights -> Stages] /\ left' \in [Flights -> 0 .. MaxRoutes]
          /\ lanes' \in [Files -> {"idle", "working", "checking", "ok", "failed", "stopping"}]
          /\ pending' \in Nat
      BY <1>1, <1>3, <2>1, <2>2, SharedAssumption DEF Stages
    <3>. QED
      BY <1>0, <1>1, <3>1 DEF SharedType
  <2>8. \A g \in Flights : Out(g)' <=> Out(g)
    BY <1>3, <2>2, <2>3 DEF Out
  <2>9. Cancelled => Cancelled'
    BY <1>3, <1>5, <2>1 DEF Cancelled
  <2>10. CancellersJoin'
    BY <1>0, <1>3, <1>4, <2>1 DEF CancellersJoin
  <2>11. ~Out(f)
    BY <2>3 DEF Out
  <2>. QED
    BY <1>0, <1>1, <1>2, <1>3, <1>4, <2>5, <2>6, <2>7, <2>8, <2>9, <2>10, <2>11, OpenPendingJoins
<1>6. CASE task[f] # "unused"
  <2>1. UNCHANGED <<task, stage, left, lanes>> /\ current = f
    BY <1>6 DEF OpenPending, Flight!Subscribe
  <2>2. PICK d \in Callers : at[d] \in {"waiting", "leaving"} /\ mine[d] = f
    BY <1>0, <2>1, FlightFacts
  <2>3. user[d] = "sharing"
    BY <1>0, <2>2 DEF SharersFit
  <2>4. Out(f) /\ won[f] # 0 => Kept(<<f, won[f]>>)
    BY <1>0, <2>2, <2>3 DEF FilesKept
  <2>5. \A g \in Flights : WorkFits(g)'
    BY <1>0, <1>1, <1>3, <2>1, WorkFrame DEF Works
  <2>6. SharedType'
    <3>1. /\ user' \in [Callers -> {"out", "sharing", "using", "releasing", "done"}]
          /\ pending' \in Nat
      BY <1>1, <1>3
    <3>. QED
      BY <1>0, <1>1, <2>1, <3>1 DEF SharedType
  <2>7. CancellersJoin'
    BY <1>0, <1>3, <1>4, <2>1 DEF CancellersJoin
  <2>8. (\A g \in Flights : Out(g)' <=> Out(g)) /\ (Cancelled => Cancelled')
    BY <2>1 DEF Out, Cancelled
  <2>. QED
    BY <1>0, <1>1, <1>2, <1>3, <1>4, <2>4, <2>5, <2>6, <2>7, <2>8, OpenPendingJoins
<1>. QED
  BY <1>5, <1>6

-----------------------------------------------------------------------------
(* The theorem. *)

(* No caller has opened the media yet.                                       *)
LEMMA InitShared == Init => SharedInv
<1>. SUFFICES ASSUME Init PROVE SharedInv
  OBVIOUS
<1>1. /\ current = None /\ task = [f \in Flights |-> "unused"]
      /\ at = [c \in Callers |-> "new"] /\ mine = [c \in Callers |-> None]
  BY DEF Init, Flight!Init
<1>2. FlightProofs!FlightInv
  BY SameFlight, FlightAssumed, FlightProofs!InitFlightInv DEF Init
<1>3. SharedType
  BY SharedAssumption DEF Init, SharedType, Stages
<1>4. \A f \in Flights : WorkFits(f)
  BY <1>1 DEF Init, WorkFits, StageFits, LanesFit, FilesFit, PrefetchFits, Works, Files
<1>5. FilesKept /\ SharersFit /\ CancellersJoin /\ OvertakenByCancelled
  BY <1>1 DEF Init, FilesKept, Kept, SharersFit, CancellersJoin, OvertakenByCancelled
<1>6. UsersAreCounted
  <2>1. Registered = {} /\ pending = 0 /\ ready = None
    BY DEF Init, Registered
  <2>. QED
    BY <2>1, FS_EmptySet DEF UsersAreCounted
<1>. QED
  BY <1>2, <1>3, <1>4, <1>5, <1>6 DEF SharedInv

(* Every step of a caller, a factory or a route keeps the invariant.         *)
LEMMA NextShared == SharedInv /\ [Next]_vars => SharedInv'
<1>. SUFFICES ASSUME SharedInv, [Next]_vars PROVE SharedInv'
  OBVIOUS
<1>1. CASE UNCHANGED vars
  <2>1. FlightProofs!FlightInv'
    BY <1>1, FlightKeeps DEF SharedInv, vars
  <2>2. UNCHANGED <<task, at, mine, platform, pending, ready, user, cancelled, has, stage, left,
                    prefetch, lanes, won, live, refused>>
    BY <1>1 DEF vars, flightVars, workVars, userVars
  <2>3. SharedType' /\ SharersFit' /\ CancellersJoin' /\ OvertakenByCancelled'
    BY <2>2 DEF SharedInv, SharedType, SharersFit, CancellersJoin, OvertakenByCancelled,
                Cancelled, Works
  <2>4. FilesKept' /\ UsersAreCounted'
    BY <2>2 DEF SharedInv, FilesKept, Kept, Out, UsersAreCounted, Registered
  <2>5. \A f \in Flights : WorkFits(f)'
    BY <2>2, WorkFrame DEF SharedInv, SharedType, Works
  <2>. QED
    BY <2>1, <2>3, <2>4, <2>5 DEF SharedInv
<1>2. CASE \E c \in Callers : \E f \in Flights : OpenPending(c, f)
  BY <1>2, OpenPendingKeeps
<1>3. CASE \E c \in Callers : OpenReady(c) \/ Cancel(c) \/ CallerStep(c)
  BY <1>3, OpenReadyKeeps, FlightStepKeeps, ReturnKeeps, CloseKeeps, ReleaseUserKeeps
  DEF CallerStep
<1>4. CASE \E f \in Flights : FactoryStep(f)
  BY <1>4, ResolveKeeps, FetchKeeps, CheckKeeps, RetryKeeps, StoreKeeps, UnwindKeeps,
     DecideKeeps, SettleKeeps, PublishKeeps, FinishKeeps
  DEF FactoryStep
<1>5. CASE \E i \in Files : LaneStep(i)
  BY <1>5, LaneStepKeeps
<1>. QED
  BY <1>1, <1>2, <1>3, <1>4, <1>5 DEF Next

(* What the invariant says of users, files and work.                         *)
LEMMA SharedInvImplies == SharedInv => MediaIsShared
<1>. SUFFICES ASSUME SharedInv PROVE MediaIsShared
  OBVIOUS
<1>0. /\ SharedType /\ FlightProofs!FlightInv /\ \A f \in Flights : WorkFits(f)
      /\ FilesKept /\ OvertakenByCancelled /\ UsersAreCounted
  BY DEF SharedInv
<1>1. Flight!TypeOK
  <2>1. FlightProofs!TypeOK
    BY <1>0 DEF FlightProofs!FlightInv
  <2>2. Flight!Cardinality(Callers) = FlightProofs!Cardinality(Callers)
    BY DEF Flight!Cardinality, FlightProofs!Cardinality,
           Flight!IsFiniteSet, FlightProofs!IsFiniteSet
  <2>. QED
    BY <2>1, <2>2 DEF Flight!TypeOK, FlightProofs!TypeOK
<1>2. /\ IsFiniteSet(Registered) /\ Cardinality(Registered) \in 0 .. Cardinality(Callers)
  <2>1. Registered \subseteq Callers
    BY DEF Registered
  <2>. QED
    BY <2>1, FlightAssumed, FS_Subset, FS_CardinalityType
<1>3. TypeOK
  <2>1. pending \in 0 .. Cardinality(Callers)
    BY <1>0, <1>2, FlightAssumed, FS_CardinalityType DEF UsersAreCounted
  <2>2. ready \in {None} \cup [item : Files, users : 1 .. Cardinality(Callers)]
    <3>1. SUFFICES ASSUME ready # None
                   PROVE  ready \in [item : Files, users : 1 .. Cardinality(Callers)]
      OBVIOUS
    <3>2. ready \in [item : Files, users : Nat \ {0}] /\ ready.users = Cardinality(Registered)
      BY <1>0, <3>1 DEF SharedType, UsersAreCounted
    <3>3. Cardinality(Callers) \in Nat
      BY FlightAssumed, FS_CardinalityType
    <3>4. ready.users \in 1 .. Cardinality(Callers)
      BY <1>2, <3>2, <3>3
    <3>. QED
      BY <3>2, <3>4
  <2>. QED
    BY <1>0, <1>1, <2>1, <2>2 DEF TypeOK, SharedType
<1>4. UsersHoldLiveFiles
  <2>1. ready # None => ready.item \in Files
    BY <1>0 DEF SharedType
  <2>. QED
    BY <1>0, <2>1 DEF UsersHoldLiveFiles, FilesKept, Kept
<1>5. OnlyOvertakenFilesLeak
  <2>1. \A i \in live : Works(i[1]) \/ (ready # None /\ ready.item = i) \/ i \in refused
    <3>1. ASSUME NEW i \in live PROVE Works(i[1]) \/ Kept(i)
      <4>1. PICK f \in Flights, k \in Lanes : i = <<f, k>> /\ i \in Files
        BY <1>0 DEF SharedType, Files
      <4>2. StageFits(f) /\ FilesFit(f)
        BY WorkFacts
      <4>3. stage[f] # "unused"
        BY <4>1, <4>2 DEF FilesFit
      <4>. QED
        BY <1>0, <4>1, <4>2, <4>3 DEF StageFits, FilesKept, Out
    <3>. QED
      BY <3>1 DEF Kept
  <2>. QED
    BY <1>0, <2>1 DEF OnlyOvertakenFilesLeak, OvertakenByCancelled, Cancelled
<1>6. NoStrayWork
  <2>1. \A f, g \in Flights : f # g /\ task[f] = "running" => task[g] # "running"
    BY <1>0, FlightFacts
  <2>2. \A f \in Flights : stage[f] = "over" =>
          prefetch[f] # "running" /\ LanesOf(f, {"working", "checking", "stopping"}) = {}
    BY WorkFacts DEF PrefetchFits, LanesFit, LanesOf
  <2>. QED
    BY <2>1, <2>2 DEF NoStrayWork
<1>. QED
  BY <1>0, <1>3, <1>4, <1>5, <1>6 DEF MediaIsShared

(* For any number of callers, platforms and providers: nobody's file is      *)
(* deleted while it is used, every open is counted once, no attempt leaves a *)
(* file behind but one overtaken by a cancelled flight, and no two factories *)
(* work but while one unwinds (open_materialized,                            *)
(* _publish_materialization, _release_materialization_user).                 *)
THEOREM MediaShared == Spec => []MediaIsShared
<1>1. Init => SharedInv
  BY InitShared
<1>2. SharedInv /\ [Next]_vars => SharedInv'
  BY NextShared
<1>3. SharedInv => MediaIsShared
  BY SharedInvImplies
<1>. QED
  BY <1>1, <1>2, <1>3, PTL DEF Spec

=============================================================================
