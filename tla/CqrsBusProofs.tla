--------------------------- MODULE CqrsBusProofs ---------------------------
(***************************************************************************)
(* Theorems about CqrsBus, for every set of handlers and closers and every *)
(* bound.  What is counted are message tasks, several per handler.  The    *)
(* inductive invariant has five parts: the types with the exact counter,   *)
(* the facts about runs and closers, those that make a drained close cut   *)
(* uncounted messages only, those about the subscribers of the factory     *)
(* (what is open is still left for the close() that is closing them), and  *)
(* what the broker knows of each delivery.                                 *)
(***************************************************************************)
EXTENDS CqrsBus, FiniteSetTheorems, TLAPS

\* A task works on a message that its loop was given, inside the group of that loop; a
\* message that is being refused has no task.
Given ==
    /\ \A d \in Deliveries : mpc[d] # "none" =>
          d[2] <= n[d[1]] /\ hpc[d[1]] \in {"next", "refuse", "join", "joinRaises"}
    /\ \A h \in Handlers : hpc[h] = "refuse" => n[h] > 0 /\ mpc[<<h, n[h]>>] = "none"

\* There are loops and a scope exactly while run() is under way.
RunInv ==
    /\ scope = "none" <=> ~running
    /\ \A h \in Handlers : hpc[h] = "off" <=> ~running

CountInv == TypeOK /\ InFlightIsExact /\ Given /\ RunInv

LoopPlaces == LoopLive \cup LoopOver \cup {"off", "join", "joinRaises"}
MessagePlaces == Busy \cup MessageOver \cup {"spawned"}

\* The loops and closers of a bus make finitely many deliveries.
LEMMA DeliveriesAreFinite == IsFiniteSet(Deliveries)
<1>1. IsFiniteSet(Handlers) /\ IsFiniteSet(1..MaxDeliveries)
  BY BusAssumption, FS_Interval
<1> QED
  BY <1>1, FS_Product DEF Deliveries

\* A finite set counts one more with a new element and one less without one of its own.
LEMMA CountBusy ==
    ASSUME NEW S \in SUBSET Deliveries, NEW d \in Deliveries
    PROVE  /\ IsFiniteSet(S) /\ Cardinality(S) \in Nat
           /\ d \notin S => Cardinality(S \cup {d}) = Cardinality(S) + 1
           /\ d \in S => /\ Cardinality(S \ {d}) = Cardinality(S) - 1
                         /\ Cardinality(S) > 0
<1>1. IsFiniteSet(S)
  BY FS_Subset, DeliveriesAreFinite
<1>2. Cardinality(S) \in Nat
  BY <1>1, FS_CardinalityType
<1>3. ASSUME d \notin S PROVE Cardinality(S \cup {d}) = Cardinality(S) + 1
  BY <1>1, <1>3, FS_AddElement
<1>4. ASSUME d \in S PROVE Cardinality(S \ {d}) = Cardinality(S) - 1 /\ Cardinality(S) > 0
  <2>1. IsFiniteSet(S \ {d}) /\ Cardinality(S \ {d}) = Cardinality(S) - 1
    BY <1>1, <1>4, FS_RemoveElement
  <2>2. Cardinality(S \ {d}) \in Nat
    BY <2>1, FS_CardinalityType
  <2> QED
    BY <2>1, <2>2, <1>2
<1> QED
  BY <1>1, <1>2, <1>3, <1>4

\* The three ways a message task moves: it becomes busy, stays as busy as it was, or stops.
LEMMA Turns ==
    ASSUME CountInv, NEW d \in Deliveries, NEW next \in MessagePlaces, Turn(d, next)
    PROVE  /\ mpc' \in [Deliveries -> MessagePlaces]
           /\ mpc'[d] = next /\ \A x \in Deliveries \ {d} : mpc'[x] = mpc[x]
           /\ mpc[d] \notin Busy /\ next \in Busy /\ inFlight' = inFlight + 1
                => inFlight' \in Nat /\ InFlightIsExact'
           /\ (mpc[d] \in Busy <=> next \in Busy) /\ inFlight' = inFlight
                => inFlight' \in Nat /\ InFlightIsExact'
           /\ mpc[d] \in Busy /\ next \notin Busy /\ inFlight' = inFlight - 1
                => inFlight' \in Nat /\ InFlightIsExact'
<1> DEFINE B == {x \in Deliveries : mpc[x] \in Busy}
           C == {x \in Deliveries : mpc'[x] \in Busy}
<1>0. mpc \in [Deliveries -> MessagePlaces]
  BY DEF CountInv, TypeOK, MessagePlaces
<1>1. mpc' \in [Deliveries -> MessagePlaces]
  BY <1>0 DEF Turn
<1>2. mpc'[d] = next /\ \A x \in Deliveries \ {d} : mpc'[x] = mpc[x]
  BY <1>0 DEF Turn
<1>3. inFlight \in Nat /\ inFlight = Cardinality(B) /\ B \in SUBSET Deliveries
  BY DEF CountInv, TypeOK, InFlightIsExact
<1>4. InFlightIsExact' <=> inFlight' = Cardinality(C)
  BY DEF InFlightIsExact
<1>5. CASE mpc[d] \notin Busy /\ next \in Busy
  <2>1. C = B \cup {d} /\ d \notin B
    BY <1>2, <1>5
  <2> QED
    BY <2>1, <1>1, <1>2, <1>3, <1>4, <1>5, CountBusy
<1>6. CASE mpc[d] \in Busy <=> next \in Busy
  <2>1. C = B
    BY <1>2, <1>6
  <2> QED
    BY <2>1, <1>1, <1>2, <1>3, <1>4, <1>6
<1>7. CASE mpc[d] \in Busy /\ next \notin Busy
  <2>1. C = B \ {d} /\ d \in B
    BY <1>2, <1>7
  <2> QED
    BY <2>1, <1>1, <1>2, <1>3, <1>4, <1>7, CountBusy
<1> QED
  BY <1>5, <1>6, <1>7

\* As long as the same tasks are busy, the same counter is exact.
LEMMA SameBusy ==
    ASSUME CountInv, inFlight' = inFlight,
           \A d \in Deliveries : mpc'[d] \in Busy <=> mpc[d] \in Busy
    PROVE  inFlight' \in Nat /\ InFlightIsExact'
<1>1. {d \in Deliveries : mpc'[d] \in Busy} = {d \in Deliveries : mpc[d] \in Busy}
  OBVIOUS
<1> QED
  BY <1>1 DEF CountInv, TypeOK, InFlightIsExact

\* The next delivery of a loop has no task yet.
LEMMA NextDelivery ==
    ASSUME CountInv, NEW h \in Handlers, n[h] < MaxDeliveries, n' = [n EXCEPT ![h] = @ + 1]
    PROVE  /\ n' \in [Handlers -> 0..MaxDeliveries]
           /\ n'[h] = n[h] + 1 /\ n'[h] \in Nat /\ n'[h] > 0
           /\ \A x \in Handlers \ {h} : n'[x] = n[x]
           /\ <<h, n[h] + 1>> \in Deliveries /\ mpc[<<h, n[h] + 1>>] = "none"
<1>1. n \in [Handlers -> 0..MaxDeliveries] /\ MaxDeliveries \in Nat
  BY BusAssumption DEF CountInv, TypeOK
<1>2. n[h] + 1 \in 0..MaxDeliveries /\ n[h] + 1 \in 1..MaxDeliveries /\ ~(n[h] + 1 <= n[h])
  BY <1>1
<1>3. <<h, n[h] + 1>> \in Deliveries
  BY <1>2 DEF Deliveries
<1>4. mpc[<<h, n[h] + 1>>] = "none"
  BY <1>2, <1>3 DEF CountInv, Given
<1> QED
  BY <1>1, <1>2, <1>3, <1>4

\* A delivery is a message of a handler.
LEMMA DeliveryParts ==
    ASSUME NEW d \in Deliveries
    PROVE  d[1] \in Handlers /\ d[2] \in 1..MaxDeliveries /\ d[2] \in Nat /\ d = <<d[1], d[2]>>
BY BusAssumption DEF Deliveries

\* A message that is being refused is a delivery.
LEMMA RefusedIsDelivery ==
    ASSUME CountInv, NEW h \in Handlers, hpc[h] = "refuse"
    PROVE  <<h, n[h]>> \in Deliveries
BY BusAssumption DEF CountInv, TypeOK, Given, Deliveries

\* The types of what the loops and the message tasks do not change.
CloseTypes ==
    /\ cpc \in [Closers -> {"idle", "waiting", "subs", "done", "raised"}]
    /\ cleft \in [Closers -> SUBSET Handlers] /\ csize \in [Closers -> Nat]
    /\ caller \in [Closers -> Deliveries \cup {Nobody}]
    /\ closeRun \in [Closers -> 0..MaxRuns]

RunTypes ==
    /\ running \in BOOLEAN /\ closing \in BOOLEAN
    /\ scope \in {"none", "active", "cancelled"}
    /\ runs \in 0..MaxRuns
    /\ cause \in {"none", "failure", "outside", "timeout", "drained", "stale"}
    /\ uncounted \subseteq Deliveries /\ late \subseteq Handlers
    /\ outliving \subseteq Closers /\ dropped \subseteq Handlers

LoopTypes ==
    /\ hpc \in [Handlers -> LoopPlaces] /\ group \subseteq Handlers
    /\ sub \in [Handlers -> {"none", "open", "closed"}]
    /\ n \in [Handlers -> 0..MaxDeliveries]

TaskTypes ==
    /\ inFlight \in Nat /\ mpc \in [Deliveries -> MessagePlaces]
    /\ handled \subseteq Deliveries /\ ackd \subseteq Deliveries /\ nackd \subseteq Deliveries
    /\ cut \subseteq Deliveries

LEMMA TypesSplit == TypeOK <=> CloseTypes /\ RunTypes /\ LoopTypes /\ TaskTypes
BY DEF TypeOK, CloseTypes, RunTypes, LoopTypes, TaskTypes, LoopPlaces, MessagePlaces

\* A loop that moves while run() is under way keeps Given and RunInv, when its tasks stay
\* within its group.
LEMMA LoopMoves ==
    ASSUME CountInv, NEW h \in Handlers, NEW next \in LoopPlaces \ {"off"}, Goto(h, next),
           hpc[h] # "off", UNCHANGED <<running, scope, mpc>>,
           \/ UNCHANGED n /\ next # "refuse"
           \/ n[h] < MaxDeliveries /\ n' = [n EXCEPT ![h] = @ + 1],
           \/ next \in {"next", "refuse", "join", "joinRaises"}
           \/ \A d \in Of(h) : mpc[d] = "none"
    PROVE  hpc' \in [Handlers -> LoopPlaces] /\ Given' /\ RunInv'
<1>0. hpc \in [Handlers -> LoopPlaces] /\ n \in [Handlers -> 0..MaxDeliveries] /\ MaxDeliveries \in Nat
  BY BusAssumption, TypesSplit DEF CountInv, LoopTypes
<1>1. hpc' \in [Handlers -> LoopPlaces] /\ hpc'[h] = next
      /\ \A x \in Handlers \ {h} : hpc'[x] = hpc[x]
  BY <1>0 DEF Goto
<1>2. RunInv'
  BY <1>1 DEF CountInv, RunInv
<1>3. \A x \in Handlers : n'[x] \in Nat /\ n[x] \in Nat /\ n[x] <= n'[x]
      /\ (x # h => n'[x] = n[x])
  BY <1>0
<1>4. ASSUME NEW d \in Deliveries, mpc'[d] # "none"
      PROVE  d[2] <= n'[d[1]] /\ hpc'[d[1]] \in {"next", "refuse", "join", "joinRaises"}
  <2>1. d[1] \in Handlers /\ d[2] \in Nat
    BY DeliveryParts
  <2>2. d[2] <= n[d[1]] /\ hpc[d[1]] \in {"next", "refuse", "join", "joinRaises"}
    BY <1>4 DEF CountInv, Given
  <2>3. d[2] <= n'[d[1]]
    BY <2>1, <2>2, <1>3
  <2>4. CASE d[1] = h
    BY <2>3, <2>4, <1>1, <1>4 DEF Of
  <2>5. CASE d[1] # h
    BY <2>1, <2>2, <2>3, <2>5, <1>1
  <2> QED
    BY <2>4, <2>5
<1>5. ASSUME NEW x \in Handlers, hpc'[x] = "refuse"
      PROVE  n'[x] > 0 /\ mpc'[<<x, n'[x]>>] = "none"
  <2>1. CASE x = h
    BY <2>1, <1>1, <1>5, NextDelivery
  <2>2. CASE x # h
    BY <2>2, <1>1, <1>3, <1>5 DEF CountInv, Given
  <2> QED
    BY <2>1, <2>2
<1> QED
  BY <1>1, <1>2, <1>4, <1>5 DEF Given

\* A task that was there moves: Given and RunInv say nothing of where it goes.
LEMMA TurnKeeps ==
    ASSUME CountInv, NEW d \in Deliveries, NEW next \in MessagePlaces, Turn(d, next),
           mpc[d] # "none", UNCHANGED <<running, scope, hpc, n>>
    PROVE  Given' /\ RunInv'
<1>1. RunInv'
  BY DEF CountInv, RunInv
<1>2. mpc'[d] = next /\ \A x \in Deliveries \ {d} : mpc'[x] = mpc[x]
  BY Turns
<1>3. ASSUME NEW x \in Handlers, hpc[x] = "refuse"
      PROVE  n[x] > 0 /\ mpc'[<<x, n[x]>>] = "none"
  BY <1>2, <1>3, RefusedIsDelivery DEF CountInv, Given
<1> QED
  BY <1>1, <1>2, <1>3 DEF CountInv, Given

\* The steps of a loop keep the types and the counter.
LEMMA CountLoop ==
    ASSUME CountInv, NEW h \in Handlers, LoopStep(h)
    PROVE  CountInv'
<1>0. CloseTypes /\ RunTypes /\ LoopTypes /\ TaskTypes
  BY TypesSplit DEF CountInv
<1>a. ASSUME UNCHANGED <<closeVars, running, closing, scope, histVars>>,
             LoopTypes', TaskTypes', InFlightIsExact', Given', RunInv'
      PROVE  CountInv'
  <2>1. CloseTypes' /\ RunTypes'
    BY <1>0, <1>a DEF CloseTypes, RunTypes, closeVars, histVars
  <2> QED
    BY <1>a, <2>1, TypesSplit, PTL DEF CountInv
<1>b. ASSUME UNCHANGED <<closeVars, running, closing, scope, histVars, mpc, inFlight, cut,
                         handled, ackd>>,
             nackd' \subseteq Deliveries, LoopTypes', Given', RunInv'
      PROVE  CountInv'
  <2>1. InFlightIsExact'
    BY <1>b, SameBusy
  <2>2. TaskTypes'
    BY <1>0, <1>b DEF TaskTypes
  <2> QED
    BY <1>a, <1>b, <2>1, <2>2
<1>c. ASSUME NEW next \in LoopPlaces \ {"off", "refuse"}, Goto(h, next), hpc[h] # "off",
             UNCHANGED <<busVars, mpc, closeVars, n, handled, ackd, histVars, cut>>,
             nackd' \subseteq Deliveries, group' \subseteq Handlers,
             sub' \in [Handlers -> {"none", "open", "closed"}],
             next \in {"next", "join", "joinRaises"}
      PROVE  CountInv'
  <2>1. hpc' \in [Handlers -> LoopPlaces] /\ Given' /\ RunInv'
    BY <1>c, LoopMoves DEF busVars
  <2>2. LoopTypes'
    BY <1>0, <1>c, <2>1 DEF LoopTypes
  <2> QED
    BY <1>b, <1>c, <2>1, <2>2 DEF busVars, histVars
<1>1. CASE LoopStarts(h)
  <2>1. PICK next \in {"next", "joinRaises"} : Goto(h, next)
    BY <1>1 DEF LoopStarts
  <2>2. sub' \in [Handlers -> {"none", "open", "closed"}] /\ group' \subseteq Handlers
    BY <1>0, <1>1 DEF LoopStarts, LoopTypes
  <2> QED
    BY <1>0, <1>1, <1>c, <2>1, <2>2 DEF LoopStarts, LoopPlaces, LoopLive, TaskTypes, brokerVars
<1>2. CASE Spawn(h)
  <2> DEFINE d == <<h, n[h] + 1>>
  <2>1. /\ n' \in [Handlers -> 0..MaxDeliveries] /\ n'[h] = n[h] + 1
        /\ \A x \in Handlers \ {h} : n'[x] = n[x]
        /\ d \in Deliveries /\ mpc[d] = "none" /\ d[1] = h /\ d[2] = n[h] + 1
    BY <1>2, NextDelivery DEF Spawn
  <2> HIDE DEF d
  <2>2. Turn(d, "spawned") /\ inFlight' = inFlight
    BY <1>2 DEF Spawn, Turn, d, busVars
  <2>3. "spawned" \in MessagePlaces /\ "spawned" \notin Busy /\ "none" \notin Busy
    BY DEF MessagePlaces, Busy
  <2>4. /\ mpc' \in [Deliveries -> MessagePlaces] /\ inFlight' \in Nat /\ InFlightIsExact'
        /\ mpc'[d] = "spawned" /\ \A x \in Deliveries \ {d} : mpc'[x] = mpc[x]
    BY <2>1, <2>2, <2>3, Turns
  <2>5. \A x \in Handlers : n[x] \in Nat /\ n'[x] \in Nat /\ n[x] <= n'[x]
    BY <1>0, <2>1, BusAssumption DEF LoopTypes
  <2>6. hpc[h] = "next" /\ UNCHANGED <<hpc, running, scope>>
    BY <1>2 DEF Spawn, busVars
  <2>7. RunInv'
    BY <2>6 DEF CountInv, RunInv
  <2>8. ASSUME NEW x \in Deliveries, mpc'[x] # "none"
        PROVE  x[2] <= n'[x[1]] /\ hpc[x[1]] \in {"next", "refuse", "join", "joinRaises"}
    <3>1. CASE x = d
      BY <2>1, <2>5, <2>6, <3>1
    <3>2. CASE x # d
      BY <2>4, <2>5, <2>8, <3>2, DeliveryParts DEF CountInv, Given
    <3> QED
      BY <3>1, <3>2
  <2>9. ASSUME NEW x \in Handlers, hpc[x] = "refuse"
        PROVE  n'[x] > 0 /\ mpc'[<<x, n'[x]>>] = "none"
    <3>1. x # h /\ n'[x] = n[x] /\ <<x, n[x]>> # d /\ <<x, n[x]>> \in Deliveries
      BY <2>1, <2>6, <2>9, RefusedIsDelivery DEF d
    <3> QED
      BY <3>1, <2>4, <2>9 DEF CountInv, Given
  <2>10. Given'
    BY <2>6, <2>8, <2>9 DEF Given
  <2> QED
    BY <1>0, <1>2, <1>a, <2>1, <2>4, <2>7, <2>10
       DEF Spawn, LoopTypes, TaskTypes, busVars, histVars
<1>3. CASE Refuse(h)
  <2>1. hpc' \in [Handlers -> LoopPlaces] /\ Given' /\ RunInv'
    BY <1>3, LoopMoves DEF Refuse, LoopPlaces, LoopLive, busVars
  <2>2. n' \in [Handlers -> 0..MaxDeliveries]
    BY <1>3, NextDelivery DEF Refuse
  <2> QED
    BY <1>0, <1>3, <1>b, <2>1, <2>2 DEF Refuse, LoopTypes, TaskTypes, busVars, histVars
<1>4. CASE RefuseEnds(h)
  <2>1. PICK next \in {"join", "joinRaises"} : Goto(h, next)
    BY <1>4 DEF RefuseEnds, LeaveLoop
  <2>2. <<h, n[h]>> \in Deliveries
    BY <1>4, RefusedIsDelivery DEF RefuseEnds
  <2> QED
    BY <1>0, <1>4, <1>c, <2>1, <2>2
       DEF RefuseEnds, LeaveLoop, Settles, LoopPlaces, LoopLive, LoopTypes, TaskTypes
<1>5. CASE SubscriptionEnds(h)
  <2>1. PICK next \in {"join", "joinRaises"} : Goto(h, next)
    BY <1>5 DEF SubscriptionEnds, LeaveLoop
  <2> QED
    BY <1>0, <1>5, <1>c, <2>1
       DEF SubscriptionEnds, LeaveLoop, LoopPlaces, LoopLive, LoopTypes, TaskTypes, brokerVars
<1>6. CASE GroupCancelled(h)
  <2>1. UNCHANGED <<hpc, mpc, n, running, scope>>
    BY <1>6 DEF GroupCancelled, busVars, brokerVars
  <2>2. Given' /\ RunInv'
    BY <2>1 DEF CountInv, Given, RunInv
  <2> QED
    BY <1>0, <1>6, <1>b, <2>2 DEF GroupCancelled, LoopTypes, TaskTypes, busVars, brokerVars, histVars
<1>7. CASE LoopCancelled(h)
  <2>1. hpc[h] = "refuse" => <<h, n[h]>> \in Deliveries
    BY RefusedIsDelivery
  <2> QED
    BY <1>0, <1>7, <1>c, <2>1
       DEF LoopCancelled, Settles, LoopPlaces, LoopLive, LoopTypes, TaskTypes
<1>8. CASE LoopEnds(h)
  <2>1. /\ hpc[h] \in {"join", "joinRaises"} /\ \A d \in Of(h) : mpc[d] \in MessageOver
        /\ mpc' = [d \in Deliveries |-> IF d \in Of(h) THEN "none" ELSE mpc[d]]
        /\ UNCHANGED <<busVars, group, sub, closeVars, brokerVars, histVars, cut>>
    BY <1>8 DEF LoopEnds
  <2>2. PICK next \in LoopOver : Goto(h, next)
    BY <1>8 DEF LoopEnds, LoopOver
  <2>3. mpc \in [Deliveries -> MessagePlaces] /\ hpc \in [Handlers -> LoopPlaces]
    BY <1>0 DEF TaskTypes, LoopTypes
  <2>4. mpc' \in [Deliveries -> MessagePlaces]
    BY <2>1, <2>3 DEF MessagePlaces, MessageOver
  <2>5. inFlight' \in Nat /\ InFlightIsExact'
    <3>1. \A d \in Deliveries : mpc'[d] \in Busy <=> mpc[d] \in Busy
      BY <2>1 DEF MessageOver, Busy
    <3> QED
      BY <2>1, <3>1, SameBusy DEF busVars
  <2>6. /\ hpc' \in [Handlers -> LoopPlaces] /\ hpc'[h] \in LoopOver
        /\ \A x \in Handlers \ {h} : hpc'[x] = hpc[x]
    BY <2>2, <2>3 DEF Goto, LoopPlaces
  <2>7. RunInv'
    BY <2>1, <2>6 DEF CountInv, RunInv, busVars, LoopOver
  <2>8. Given'
    <3>1. ASSUME NEW d \in Deliveries, mpc'[d] # "none"
          PROVE  d[2] <= n[d[1]] /\ hpc'[d[1]] \in {"next", "refuse", "join", "joinRaises"}
      <4>1. d \notin Of(h) /\ mpc[d] # "none" /\ d[1] \in Handlers \ {h}
        BY <2>1, <3>1, DeliveryParts DEF Of
      <4> QED
        BY <4>1, <2>6 DEF CountInv, Given
    <3>2. ASSUME NEW x \in Handlers, hpc'[x] = "refuse"
          PROVE  n[x] > 0 /\ mpc'[<<x, n[x]>>] = "none"
      <4>1. x # h /\ hpc[x] = "refuse"
        BY <2>6, <3>2 DEF LoopOver
      <4>2. <<x, n[x]>> \in Deliveries
        BY <4>1, RefusedIsDelivery
      <4> QED
        BY <4>1, <4>2, <2>1 DEF CountInv, Given
    <3> QED
      BY <3>1, <3>2, <2>1 DEF Given, brokerVars
  <2> QED
    BY <1>0, <1>a, <2>1, <2>4, <2>5, <2>6, <2>7, <2>8
       DEF LoopTypes, TaskTypes, busVars, histVars, brokerVars
<1> QED
  BY <1>1, <1>2, <1>3, <1>4, <1>5, <1>6, <1>7, <1>8 DEF LoopStep

\* What CloseRaised() and the end of a close() leave of the closers has its types.
LEMMA ClosersAfter ==
    ASSUME CloseTypes
    PROVE  /\ \A S : CloseRaised(S) /\ UNCHANGED closeRun => CloseTypes'
           /\ CallerGoesOn => caller' \in [Closers -> Deliveries \cup {Nobody}]
<1>1. CallerGoesOn => caller' \in [Closers -> Deliveries \cup {Nobody}]
  BY DEF CloseTypes, CallerGoesOn
<1>2. ASSUME NEW S, CloseRaised(S), UNCHANGED closeRun PROVE CloseTypes'
  BY <1>1, <1>2 DEF CloseTypes, CloseRaised
<1> QED
  BY <1>1, <1>2

\* The steps of a message task keep the types and the counter.
LEMMA CountMessage ==
    ASSUME CountInv, NEW d \in Deliveries, MessageStep(d)
    PROVE  CountInv'
<1>0. CloseTypes /\ RunTypes /\ LoopTypes /\ TaskTypes
  BY TypesSplit DEF CountInv
<1>a. ASSUME NEW next \in MessagePlaces, Turn(d, next), mpc[d] # "none",
             UNCHANGED <<running, closing, scope, hpc, group, sub, n, histVars>>, CloseTypes',
             handled' \subseteq Deliveries, ackd' \subseteq Deliveries, nackd' \subseteq Deliveries,
             cut' \subseteq Deliveries,
             \/ mpc[d] \notin Busy /\ next \in Busy /\ inFlight' = inFlight + 1
             \/ (mpc[d] \in Busy <=> next \in Busy) /\ inFlight' = inFlight
             \/ mpc[d] \in Busy /\ next \notin Busy /\ inFlight' = inFlight - 1
      PROVE  CountInv'
  <2>1. Given' /\ RunInv'
    BY <1>a, TurnKeeps
  <2>2. mpc' \in [Deliveries -> MessagePlaces] /\ inFlight' \in Nat /\ InFlightIsExact'
    BY <1>a, Turns
  <2>3. RunTypes' /\ LoopTypes' /\ TaskTypes'
    BY <1>0, <1>a, <2>2 DEF RunTypes, LoopTypes, TaskTypes, histVars
  <2> QED
    BY <1>a, <2>1, <2>2, <2>3, TypesSplit, PTL DEF CountInv
<1>b. ASSUME UNCHANGED <<closeVars, histVars>> PROVE CloseTypes'
  BY <1>0, <1>b DEF CloseTypes, closeVars, histVars
<1>1. CASE Start(d)
  BY <1>0, <1>1, <1>a, <1>b DEF Start, Counted, TaskTypes, MessagePlaces, Busy, brokerVars
<1>2. CASE CallsInThread(d) \/ ThreadReturns(d) \/ Returns(d) \/ Raises(d)
  <2>1. PICK next \in {"thread", "call", "ack", "nack"} : Turn(d, next)
    BY <1>2 DEF CallsInThread, ThreadReturns, Returns, Raises
  <2>2. /\ mpc[d] \in Busy /\ next \in Busy /\ next \in MessagePlaces
        /\ mpc[d] # "none"
    BY <1>2, <2>1 DEF CallsInThread, ThreadReturns, Returns, Raises, MessagePlaces, Busy
  <2>3. /\ UNCHANGED <<busVars, hpc, group, sub, n, ackd, nackd, closeVars, histVars, cut>>
        /\ handled' \in {handled, handled \cup {d}}
    BY <1>2 DEF CallsInThread, ThreadReturns, Returns, Raises, brokerVars
  <2> QED
    BY <1>0, <1>a, <1>b, <2>1, <2>2, <2>3 DEF TaskTypes, busVars
<1>3. CASE AckEnds(d) \/ NackEnds(d)
  <2>1. PICK next \in {"done", "failed"} : Finish(d, next)
    BY <1>3 DEF AckEnds, NackEnds, NackRefused
  <2>2. /\ mpc[d] \in Busy /\ next \notin Busy /\ next \in MessagePlaces /\ mpc[d] # "none"
        /\ Turn(d, next) /\ inFlight' = inFlight - 1
    BY <1>3, <2>1 DEF AckEnds, NackEnds, MessagePlaces, MessageOver, Busy, Finish
  <2>3. /\ UNCHANGED <<running, closing, scope, hpc, group, sub, n, handled, closeVars, histVars, cut>>
        /\ ackd' \in {ackd, ackd \cup {d}} /\ nackd' \in {nackd, nackd \cup {d}}
    BY <1>3 DEF AckEnds, NackEnds, Settles
  <2> QED
    BY <1>0, <1>a, <1>b, <2>2, <2>3 DEF TaskTypes
<1>4. CASE MessageCancelled(d)
  <2>1. /\ mpc[d] \in Busy /\ mpc[d] # "none"
        /\ Turn(d, "cancelled") /\ inFlight' = inFlight - 1
    BY <1>4 DEF MessageCancelled, AtAwait, Busy, Finish
  <2>2. /\ UNCHANGED <<running, closing, scope, hpc, group, sub, n, handled, histVars>>
        /\ ackd' \in {ackd, ackd \cup {d}} /\ nackd' \in {nackd, nackd \cup {d}}
        /\ cut' \in {cut, cut \cup {d}}
    BY <1>4 DEF MessageCancelled, Settles
  <2>3. CloseTypes'
    BY <1>0, <1>4, ClosersAfter DEF MessageCancelled, histVars
  <2>4. "cancelled" \in MessagePlaces /\ "cancelled" \notin Busy
    BY DEF MessagePlaces, MessageOver, Busy
  <2> QED
    BY <1>0, <1>a, <2>1, <2>2, <2>3, <2>4 DEF TaskTypes
<1> QED
  BY <1>1, <1>2, <1>3, <1>4 DEF MessageStep

\* A turn of the loop of close() keeps the types of what it changes.
LEMMA VisitTypes ==
    ASSUME CloseTypes, LoopTypes, dropped \subseteq Handlers, NEW c \in Closers,
           NEW left \in SUBSET Handlers, NEW size \in Nat, Visit(c, left, size)
    PROVE  /\ sub' \in [Handlers -> {"none", "open", "closed"}]
           /\ cpc' \in [Closers -> {"idle", "waiting", "subs", "done", "raised"}]
           /\ cleft' \in [Closers -> SUBSET Handlers] /\ csize' \in [Closers -> Nat]
           /\ dropped' \subseteq Handlers
<1>1. CASE left = {} /\ sub' = [h \in Handlers |-> "none"]
           /\ dropped' = dropped \cup {h \in Handlers : sub[h] = "open"}
           /\ cleft' = [cleft EXCEPT ![c] = {}] /\ csize' = [csize EXCEPT ![c] = 0]
           /\ cpc' = [cpc EXCEPT ![c] = "done"]
  BY <1>1 DEF CloseTypes
<1>2. ASSUME NEW h \in left, NEW rest \in SUBSET Handlers, NEW place \in {"subs", "raised"},
             NEW to \in Nat, sub' \in {sub, [sub EXCEPT ![h] = "closed"]},
             cleft' = [cleft EXCEPT ![c] = rest], csize' = [csize EXCEPT ![c] = to],
             cpc' = [cpc EXCEPT ![c] = place], UNCHANGED dropped
      PROVE  /\ sub' \in [Handlers -> {"none", "open", "closed"}]
             /\ cpc' \in [Closers -> {"idle", "waiting", "subs", "done", "raised"}]
             /\ cleft' \in [Closers -> SUBSET Handlers] /\ csize' \in [Closers -> Nat]
             /\ dropped' \subseteq Handlers
  BY <1>2 DEF CloseTypes, LoopTypes
<1>3. ASSUME NEW h \in left, NEW done \in BOOLEAN, NEW ok \in BOOLEAN,
             sub' = IF done THEN [sub EXCEPT ![h] = "closed"] ELSE sub,
             cleft' = [cleft EXCEPT ![c] = IF ok THEN left \ {h} ELSE {}],
             csize' = [csize EXCEPT ![c] = IF ok THEN size ELSE 0],
             cpc' = [cpc EXCEPT ![c] = IF ok THEN "subs" ELSE "raised"], UNCHANGED dropped
      PROVE  \E rest \in SUBSET Handlers, place \in {"subs", "raised"}, to \in Nat :
                /\ sub' \in {sub, [sub EXCEPT ![h] = "closed"]}
                /\ cleft' = [cleft EXCEPT ![c] = rest] /\ csize' = [csize EXCEPT ![c] = to]
                /\ cpc' = [cpc EXCEPT ![c] = place] /\ UNCHANGED dropped
  <2>1. CASE ok
    BY <1>3, <2>1
  <2>2. CASE ~ok
    BY <1>3, <2>2
  <2> QED
    BY <2>1, <2>2
<1> QED
  BY <1>1, <1>2, <1>3 DEF Visit

LEMMA NamedIsFinite == Named \subseteq Handlers /\ Cardinality(Named) \in Nat
<1>1. Named \subseteq Handlers
  BY DEF Named
<1>2. IsFiniteSet(Named)
  BY <1>1, BusAssumption, FS_Subset
<1> QED
  BY <1>1, <1>2, FS_CardinalityType

\* The steps of close() keep the types and the counter.
LEMMA CountClose ==
    ASSUME CountInv, NEW c \in Closers, CloseNotRunning(c) \/ Close(c) \/ CloseStep(c)
    PROVE  CountInv'
<1>0. CloseTypes /\ RunTypes /\ LoopTypes /\ TaskTypes
  BY TypesSplit DEF CountInv
<1>1. UNCHANGED <<running, hpc, group, mpc, inFlight, n, handled, ackd, nackd, runs, cut, outliving>>
  BY DEF CloseNotRunning, Close, CloseStep, CloseWaited, CloseNextSubscriber, CloseRaises,
         busVars, brokerVars, histVars
<1>2. TaskTypes' /\ InFlightIsExact' /\ Given'
  <2>1. InFlightIsExact'
    BY <1>1, SameBusy
  <2> QED
    BY <1>0, <1>1, <2>1 DEF CountInv, TaskTypes, Given
<1>3. \/ UNCHANGED <<scope, cause, uncounted, late>>
      \/ \E why \in {"timeout", "drained", "stale"} : CancelBecause(why)
  <2>1. CASE CloseNotRunning(c) \/ CloseNextSubscriber(c) \/ CloseRaises(c)
    BY <2>1 DEF CloseNotRunning, CloseNextSubscriber, CloseRaises, busVars, histVars
  <2>2. CASE Close(c) \/ CloseWaited(c)
    BY <2>2 DEF Close, CloseWaited, CancelScope
  <2> QED
    BY <2>1, <2>2 DEF CloseStep
<1>4. scope' \in {"none", "active", "cancelled"} /\ (scope' = "none" <=> scope = "none")
      /\ cause' \in {"none", "failure", "outside", "timeout", "drained", "stale"}
      /\ uncounted' \subseteq Deliveries /\ late' \subseteq Handlers
  BY <1>0, <1>3 DEF RunTypes, CancelBecause, Spawned
<1>5. closing' \in BOOLEAN
  BY <1>0 DEF CloseNotRunning, Close, CloseStep, CloseWaited, CloseNextSubscriber, CloseRaises,
         busVars, RunTypes
<1>7. CloseTypes' /\ sub' \in [Handlers -> {"none", "open", "closed"}] /\ dropped' \subseteq Handlers
  <2>0. Named \subseteq Handlers /\ Cardinality(Named) \in Nat
    BY NamedIsFinite
  <2>1. CASE CloseNotRunning(c)
    BY <1>0, <2>1 DEF CloseNotRunning, CloseTypes, LoopTypes, RunTypes, histVars
  <2>2. CASE Close(c)
    <3>1. caller' \in [Closers -> Deliveries \cup {Nobody}] /\ closeRun' \in [Closers -> 0..MaxRuns]
      BY <1>0, <2>2 DEF Close, CalledBy, CloseTypes, RunTypes
    <3>2. CASE Visit(c, Named, Cardinality(Named))
      BY <1>0, <2>0, <3>1, <3>2, VisitTypes DEF CloseTypes, RunTypes
    <3>3. CASE cpc' = [cpc EXCEPT ![c] = "waiting"] /\ UNCHANGED <<sub, cleft, csize, dropped>>
      BY <1>0, <3>1, <3>3 DEF CloseTypes, LoopTypes, RunTypes
    <3> QED
      BY <2>2, <3>2, <3>3 DEF Close, CancelScope
  <2>3. CASE CloseWaited(c) \/ CloseNextSubscriber(c)
    <3>1. caller' \in [Closers -> Deliveries \cup {Nobody}] /\ closeRun' = closeRun
      BY <1>0, <2>3, ClosersAfter DEF CloseWaited, CloseNextSubscriber, histVars
    <3>2. PICK left \in SUBSET Handlers, size \in Nat : Visit(c, left, size)
      <4>1. CASE CloseWaited(c)
        BY <4>1, <2>0 DEF CloseWaited, CancelScope
      <4>2. CASE CloseNextSubscriber(c)
        BY <1>0, <4>2, <2>0 DEF CloseNextSubscriber, CloseTypes
      <4> QED
        BY <2>3, <4>1, <4>2
    <3>3. /\ sub' \in [Handlers -> {"none", "open", "closed"}]
          /\ cpc' \in [Closers -> {"idle", "waiting", "subs", "done", "raised"}]
          /\ cleft' \in [Closers -> SUBSET Handlers] /\ csize' \in [Closers -> Nat]
          /\ dropped' \subseteq Handlers
      BY <1>0, <3>2, VisitTypes DEF RunTypes
    <3> QED
      BY <1>0, <3>1, <3>3 DEF CloseTypes
  <2>4. CASE CloseRaises(c)
    BY <1>0, <2>4, ClosersAfter DEF CloseRaises, histVars, LoopTypes, RunTypes
  <2> QED
    BY <2>1, <2>2, <2>3, <2>4 DEF CloseStep
<1>8. LoopTypes'
  BY <1>0, <1>1, <1>7 DEF LoopTypes
<1>9. RunTypes' /\ RunInv'
  BY <1>0, <1>1, <1>4, <1>5, <1>7 DEF RunTypes, CountInv, RunInv
<1> QED
  BY <1>2, <1>9, <1>7, <1>8, TypesSplit, PTL DEF CountInv

\* A step keeps the types and the exactness of the in-flight counter.
LEMMA CountStep == CountInv /\ [Next]_vars => CountInv'
<1> SUFFICES ASSUME CountInv, [Next]_vars
             PROVE  CountInv'
  OBVIOUS
<1>0. CloseTypes /\ RunTypes /\ LoopTypes /\ TaskTypes
  BY TypesSplit DEF CountInv
<1>a. ASSUME CloseTypes', RunTypes', LoopTypes', UNCHANGED <<inFlight, mpc, handled, ackd, nackd>>,
             cut' \in {{}, cut}, Given', RunInv'
      PROVE  CountInv'
  <2>1. TaskTypes' /\ InFlightIsExact'
    BY <1>0, <1>a, SameBusy DEF TaskTypes
  <2> QED
    BY <1>a, <2>1, TypesSplit, PTL DEF CountInv
<1>1. CASE UNCHANGED vars
  <2>1. CloseTypes' /\ RunTypes' /\ LoopTypes'
    BY <1>0, <1>1 DEF CloseTypes, RunTypes, LoopTypes, vars, busVars, closeVars, brokerVars, histVars
  <2> QED
    BY <1>1, <1>a, <2>1 DEF CountInv, Given, RunInv, vars, busVars, brokerVars
<1>2. CASE Run
  <2>1. \A h \in Handlers : hpc[h] = "off"
    BY <1>2 DEF Run, CountInv, RunInv
  <2>2. \A d \in Deliveries : mpc[d] = "none"
    BY <2>1, DeliveryParts DEF CountInv, Given
  <2>3. Given' /\ RunInv'
    BY <1>2, <2>2 DEF Run, Given, RunInv
  <2>4. runs' \in 0..MaxRuns
    BY <1>0, <1>2, BusAssumption DEF Run, RunTypes
  <2>5. CloseTypes' /\ RunTypes' /\ LoopTypes'
    BY <1>0, <1>2, <2>4
       DEF CloseTypes, RunTypes, LoopTypes, Run, closeVars, brokerVars, LoopPlaces, LoopLive
  <2> QED
    BY <1>2, <1>a, <2>3, <2>5 DEF Run, brokerVars
<1>3. CASE RunEnds
  <2>1. \A d \in Deliveries : mpc[d] = "none"
    BY <1>3, DeliveryParts DEF RunEnds, CountInv, Given, LoopOver
  <2>2. Given' /\ RunInv'
    BY <1>3, <2>1 DEF RunEnds, Given, RunInv
  <2>3. CloseTypes' /\ RunTypes' /\ LoopTypes'
    BY <1>0, <1>3
       DEF CloseTypes, RunTypes, LoopTypes, RunEnds, closeVars, brokerVars, histVars, LoopPlaces
  <2> QED
    BY <1>3, <1>a, <2>2, <2>3 DEF RunEnds, brokerVars
<1>4. CASE Cancel
  <2>1. RunTypes' /\ RunInv'
    BY <1>0, <1>4 DEF Cancel, CancelBecause, Spawned, RunTypes, CountInv, RunInv
  <2>2. Given' /\ CloseTypes' /\ LoopTypes'
    BY <1>0, <1>4 DEF Cancel, CountInv, Given, CloseTypes, LoopTypes, closeVars, brokerVars
  <2> QED
    BY <1>4, <1>a, <2>1, <2>2 DEF Cancel, brokerVars
<1> QED
  BY <1>1, <1>2, <1>3, <1>4, CountLoop, CountMessage, CountClose DEF Next

LEMMA CountInit == Init => CountInv
<1> SUFFICES ASSUME Init PROVE CountInv
  OBVIOUS
<1>1. 0 \in 0..MaxRuns /\ 0 \in 0..MaxDeliveries
  BY BusAssumption
<1>2. CloseTypes /\ RunTypes
  BY <1>1 DEF Init, CloseTypes, RunTypes
<1>3. LoopTypes /\ TaskTypes
  BY <1>1 DEF Init, LoopTypes, TaskTypes, LoopPlaces, MessagePlaces, MessageOver
<1>4. {d \in Deliveries : mpc[d] \in Busy} = {}
  BY DEF Init, Busy
<1>5. InFlightIsExact
  BY <1>4, FS_EmptySet DEF Init, InFlightIsExact
<1> QED
  BY <1>2, <1>3, <1>5, TypesSplit DEF Init, CountInv, Given, RunInv

\* The first part of the invariant: the types, the exact counter, and tasks and loops that
\* exist only while run() is under way.
LEMMA Counting == Spec => []CountInv
BY CountInit, CountStep, PTL DEF Spec

\* Every variable keeps its type: _in_flight of command_bus.py:181 never goes below zero,
\* and nothing is settled or cut short that the loops were not given.
THEOREM BusTypes == Spec => []TypeOK
<1>1. CountInv => TypeOK
  BY DEF CountInv
<1> QED
  BY <1>1, Counting, PTL

\* The counter that close() polls is exactly the number of message tasks that have started
\* and not ended, although tasks of several handlers change it concurrently.
THEOREM BusCountsTasks == Spec => []InFlightIsExact
<1>1. CountInv => InFlightIsExact
  BY DEF CountInv
<1> QED
  BY <1>1, Counting, PTL

-----------------------------------------------------------------------------
(* A drained close cuts uncounted messages only                            *)

\* A close() belongs to the run that was under way when it was called.  While it waits for
\* that run the run is closing, and once it closes subscribers that run is cancelled.
CloseInv ==
    /\ running => runs > 0
    /\ \A c \in Closers :
          /\ closeRun[c] <= runs
          /\ cpc[c] = "idle" => closeRun[c] = 0
          /\ cpc[c] \in {"waiting", "subs"} => closeRun[c] > 0
          /\ cpc[c] = "waiting" /\ closeRun[c] = runs /\ running => closing
          /\ cpc[c] \in {"subs", "done"} /\ closeRun[c] = runs /\ runs > 0 => scope # "active"

\* Nothing is cut before the run is cancelled, and after a close() found it drained the
\* tasks that are still there are those it did not count.
DrainInv ==
    /\ scope = "active" => cut = {}
    /\ cause = "drained" =>
          /\ cut \subseteq uncounted
          /\ running => /\ closing /\ scope = "cancelled"
                        /\ \A d \in Deliveries : mpc[d] \in Busy \cup {"spawned"} => d \in uncounted

\* The loops that a cancelled run has still to start are those it had to when it was cancelled.
LateInv == \A h \in Handlers : scope # "active" /\ hpc[h] = "start" => h \in late

RunsInv == CloseInv /\ DrainInv /\ LateInv

LEMMA NothingInFlight ==
    ASSUME CountInv, ~Pending
    PROVE  \A d \in Deliveries : mpc[d] \notin Busy
<1> DEFINE B == {d \in Deliveries : mpc[d] \in Busy}
<1>1. inFlight = 0 /\ inFlight = Cardinality(B)
  BY DEF CountInv, TypeOK, InFlightIsExact, Pending
<1>2. IsFiniteSet(B)
  BY DeliveriesAreFinite, FS_Subset
<1>3. B = {}
  BY <1>1, <1>2, FS_EmptySet
<1> QED
  BY <1>3

\* What a loop does: it starts no loop again, and spawns a task only for a run that is not
\* closing.
LEMMA LoopFrame ==
    ASSUME CountInv, NEW h \in Handlers, LoopStep(h)
    PROVE  /\ UNCHANGED <<running, closing, scope, closeVars, closeRun, runs, cause, uncounted,
                          late, outliving, dropped, cut, handled, ackd>>
           /\ hpc[h] # "off" /\ hpc'[h] \notin {"off", "start"}
           /\ \A x \in Handlers \ {h} : hpc'[x] = hpc[x] /\ n'[x] = n[x] /\ sub'[x] = sub[x]
           /\ closing => \A d \in Deliveries : mpc'[d] # "none" => mpc'[d] = mpc[d]
<1>0. LoopTypes /\ TaskTypes
  BY TypesSplit DEF CountInv
<1>1. UNCHANGED <<running, closing, scope, closeVars, closeRun, runs, cause, uncounted, late,
                  outliving, dropped, cut, handled, ackd>>
  BY DEF LoopStep, LoopStarts, Spawn, Refuse, RefuseEnds, SubscriptionEnds, GroupCancelled,
         LoopCancelled, LoopEnds, busVars, histVars, brokerVars
<1>2. hpc[h] \notin {"off"} /\ hpc'[h] \notin {"off", "start"}
  <2>1. CASE LoopStarts(h)
    BY <1>0, <2>1 DEF LoopStarts, Goto, LoopTypes
  <2>2. CASE Spawn(h) \/ GroupCancelled(h)
    BY <2>2 DEF Spawn, GroupCancelled
  <2>3. CASE Refuse(h) \/ RefuseEnds(h) \/ SubscriptionEnds(h)
    BY <1>0, <2>3 DEF Refuse, RefuseEnds, SubscriptionEnds, LeaveLoop, Goto, LoopTypes
  <2>4. CASE LoopCancelled(h) \/ LoopEnds(h)
    BY <1>0, <2>4 DEF LoopCancelled, LoopEnds, Goto, LoopTypes
  <2> QED
    BY <2>1, <2>2, <2>3, <2>4 DEF LoopStep
<1>3. \A x \in Handlers \ {h} : hpc'[x] = hpc[x] /\ n'[x] = n[x] /\ sub'[x] = sub[x]
  <2>1. CASE LoopStarts(h)
    BY <1>0, <2>1 DEF LoopStarts, Goto, LoopTypes, brokerVars
  <2>2. CASE Spawn(h) \/ GroupCancelled(h)
    BY <1>0, <2>2 DEF Spawn, GroupCancelled, LoopTypes, brokerVars
  <2>3. CASE Refuse(h) \/ RefuseEnds(h) \/ SubscriptionEnds(h)
    BY <1>0, <2>3 DEF Refuse, RefuseEnds, SubscriptionEnds, LeaveLoop, Goto, LoopTypes, brokerVars
  <2>4. CASE LoopCancelled(h) \/ LoopEnds(h)
    BY <1>0, <2>4 DEF LoopCancelled, LoopEnds, Goto, LoopTypes, brokerVars
  <2> QED
    BY <2>1, <2>2, <2>3, <2>4 DEF LoopStep
<1>4. ASSUME closing
      PROVE  \A d \in Deliveries : mpc'[d] # "none" => mpc'[d] = mpc[d]
  <2>1. \/ UNCHANGED mpc
        \/ mpc' = [d \in Deliveries |-> IF d \in Of(h) THEN "none" ELSE mpc[d]]
    BY <1>4 DEF LoopStep, LoopStarts, Spawn, Accepting, Refuse, RefuseEnds, SubscriptionEnds,
                GroupCancelled, LoopCancelled, LoopEnds
  <2> QED
    BY <2>1
<1> QED
  BY <1>1, <1>2, <1>3, <1>4

\* What a message task does: it moves itself only, and is cut short by the run only when that
\* is cancelled.
LEMMA MessageFrame ==
    ASSUME CountInv, NEW d \in Deliveries, MessageStep(d)
    PROVE  /\ UNCHANGED <<running, closing, scope, hpc, sub, n, closeRun, runs, cause, uncounted,
                          late, outliving, dropped>>
           /\ \A x \in Deliveries \ {d} : mpc'[x] = mpc[x]
           /\ mpc[d] \in Busy \cup {"spawned"} /\ running
           /\ cut' = cut \/ (cut' = cut \cup {d} /\ scope = "cancelled" /\ mpc[d] \in Busy)
           /\ \A c \in Closers :
                 \/ cpc'[c] = cpc[c] /\ cleft'[c] = cleft[c]
                 \/ cpc[c] \in {"waiting", "subs"} /\ cpc'[c] = "raised"
<1>0. CloseTypes /\ TaskTypes
  BY TypesSplit DEF CountInv
<1>1. UNCHANGED <<running, closing, scope, hpc, sub, n, closeRun, runs, cause, uncounted, late,
                  outliving, dropped>>
  BY DEF MessageStep, Start, CallsInThread, ThreadReturns, Returns, Raises, AckEnds, NackEnds,
         MessageCancelled, busVars, histVars, brokerVars
<1>2. \E next : Turn(d, next)
  BY DEF MessageStep, Start, CallsInThread, ThreadReturns, Returns, Raises, AckEnds, NackEnds,
         MessageCancelled, Finish, NackRefused
<1>3. \A x \in Deliveries \ {d} : mpc'[x] = mpc[x]
  BY <1>0, <1>2 DEF Turn, TaskTypes
<1>4. mpc[d] \in Busy \cup {"spawned"} /\ mpc[d] # "none"
  BY DEF MessageStep, Start, CallsInThread, ThreadReturns, Returns, Raises, AckEnds, NackEnds,
         MessageCancelled, AtAwait, Busy
<1>5. running
  BY <1>4, DeliveryParts DEF CountInv, Given, RunInv
<1>6. cut' = cut \/ (cut' = cut \cup {d} /\ scope = "cancelled" /\ mpc[d] \in Busy)
  BY DEF MessageStep, Start, CallsInThread, ThreadReturns, Returns, Raises, AckEnds, NackEnds,
         MessageCancelled, AtAwait, InCancelledScope
<1>7. \A c \in Closers :
         \/ cpc'[c] = cpc[c] /\ cleft'[c] = cleft[c]
         \/ cpc[c] \in {"waiting", "subs"} /\ cpc'[c] = "raised"
  <2>1. CASE MessageCancelled(d)
    BY <2>1 DEF MessageCancelled, CloseRaised, ClosedBy
  <2>2. CASE UNCHANGED closeVars
    BY <2>2 DEF closeVars
  <2> QED
    BY <2>1, <2>2 DEF MessageStep, Start, CallsInThread, ThreadReturns, Returns, Raises, AckEnds, NackEnds
<1> QED
  BY <1>1, <1>3, <1>4, <1>5, <1>6, <1>7

\* What a step of a close() does: it moves itself only, cancels the run before it visits
\* subscribers, and as drained only if it is its own run, marked as closing, with nothing in
\* flight.
LEMMA CloseFrame ==
    ASSUME CountInv, CloseInv, NEW c \in Closers, CloseNotRunning(c) \/ Close(c) \/ CloseStep(c)
    PROVE  /\ UNCHANGED <<running, hpc, group, mpc, n, runs, cut, outliving, handled, ackd, nackd>>
           /\ \A x \in Closers \ {c} :
                 cpc'[x] = cpc[x] /\ closeRun'[x] = closeRun[x] /\ cleft'[x] = cleft[x]
           /\ closing => closing'
           /\ \/ UNCHANGED closeRun /\ cpc[c] # "idle"
              \/ UNCHANGED <<closeRun, sub, scope>> /\ cpc[c] = "idle" /\ cpc'[c] = "done" /\ ~running
              \/ cpc[c] = "idle" /\ closeRun'[c] = runs /\ running /\ closing'
           /\ cpc'[c] \in {"waiting", "subs", "done", "raised"}
           /\ cpc'[c] = "waiting" => cpc[c] = "idle"
           /\ \/ UNCHANGED <<scope, cause, uncounted, late>>
              \/ scope = "active" /\ scope' = "cancelled"
                 /\ late' = {h \in Handlers : hpc[h] = "start"}
                 /\ (cause' = "drained" => uncounted' = Spawned /\ closing' /\ ~Pending)
           /\ cpc'[c] \in {"subs", "done"} /\ cpc[c] \in {"idle", "waiting"} /\ running
                => scope' # "active"
           /\ cpc[c] \in {"idle", "waiting", "subs"}
<1>0. CloseTypes /\ RunTypes
  BY TypesSplit DEF CountInv
<1>1. UNCHANGED <<running, hpc, group, mpc, n, runs, cut, outliving, handled, ackd, nackd>>
  BY DEF CloseNotRunning, Close, CloseStep, CloseWaited, CloseNextSubscriber, CloseRaises,
         busVars, brokerVars, histVars
<1>2. \A left, size : Visit(c, left, size) =>
          /\ cpc'[c] \in {"subs", "done", "raised"}
          /\ \A x \in Closers \ {c} : cpc'[x] = cpc[x] /\ cleft'[x] = cleft[x]
  BY <1>0 DEF Visit, CloseTypes
<1>3. CASE CloseNotRunning(c)
  BY <1>0, <1>1, <1>3 DEF CloseNotRunning, CloseTypes, busVars, histVars
<1>4. CASE Close(c)
  <2>0. closeRun'[c] = runs /\ \A x \in Closers \ {c} : closeRun'[x] = closeRun[x]
    BY <1>0, <1>4 DEF Close, CloseTypes
  <2>1. cpc[c] = "idle" /\ running /\ closing'
    BY <1>4 DEF Close
  <2>2. CASE /\ cpc' = [cpc EXCEPT ![c] = "waiting"]
             /\ UNCHANGED <<scope, cause, uncounted, late, cleft>>
    <3>1. cpc'[c] = "waiting" /\ cleft' = cleft /\ \A x \in Closers \ {c} : cpc'[x] = cpc[x]
      BY <1>0, <2>2 DEF CloseTypes
    <3> QED
      BY <1>1, <2>0, <2>1, <2>2, <3>1
  <2>3. CASE ~Pending /\ CancelScope(c, "drained")
    <3>1. CancelBecause("drained") /\ cpc'[c] \in {"subs", "done", "raised"}
          /\ \A x \in Closers \ {c} : cpc'[x] = cpc[x] /\ cleft'[x] = cleft[x]
      BY <1>2, <2>0, <2>3 DEF CancelScope
    <3> QED
      BY <1>1, <2>0, <2>1, <2>3, <3>1 DEF CancelBecause
  <2> QED
    BY <1>4, <2>2, <2>3 DEF Close
<1>5. CASE CloseWaited(c)
  <2>1. cpc[c] = "waiting" /\ closeRun' = closeRun /\ closing' = closing
    BY <1>5 DEF CloseWaited
  <2>2. PICK why \in {"timeout", "drained", "stale"} :
            /\ CancelBecause(why) /\ cpc'[c] \in {"subs", "done", "raised"}
            /\ \A x \in Closers \ {c} : cpc'[x] = cpc[x] /\ cleft'[x] = cleft[x]
            /\ why = "drained" => ~Pending /\ closeRun[c] = runs
    BY <1>2, <1>5, <2>1 DEF CloseWaited, CancelScope
  <2>3. scope = "active" => running
    BY DEF CountInv, RunInv
  <2>4. scope = "active" /\ why = "drained" => closing
    BY <2>1, <2>2, <2>3 DEF CloseInv
  <2> QED
    BY <1>1, <2>1, <2>2, <2>4 DEF CancelBecause
<1>6. CASE CloseNextSubscriber(c) \/ CloseRaises(c)
  <2>1. cpc[c] = "subs" /\ UNCHANGED <<closing, scope, cause, uncounted, late, closeRun>>
    BY <1>6 DEF CloseNextSubscriber, CloseRaises, busVars, histVars
  <2>2. /\ cpc'[c] \in {"subs", "done", "raised"}
        /\ \A x \in Closers \ {c} : cpc'[x] = cpc[x] /\ cleft'[x] = cleft[x]
    <3>1. CASE CloseNextSubscriber(c)
      BY <1>2, <3>1 DEF CloseNextSubscriber
    <3>2. CASE CloseRaises(c)
      BY <3>2 DEF CloseRaises, CloseRaised
    <3> QED
      BY <1>6, <3>1, <3>2
  <2> QED
    BY <1>1, <2>1, <2>2
<1> QED
  BY <1>3, <1>4, <1>5, <1>6 DEF CloseStep

LEMMA RunsStep == CountInv /\ RunsInv /\ [Next]_vars => RunsInv'
<1> SUFFICES ASSUME CountInv, CloseInv, DrainInv, LateInv, [Next]_vars
             PROVE  RunsInv'
  BY DEF RunsInv
<1>0. CloseTypes /\ RunTypes /\ MaxRuns \in Nat
  BY TypesSplit, BusAssumption DEF CountInv
<1>n. runs \in Nat /\ \A c \in Closers : closeRun[c] \in Nat
  BY <1>0 DEF CloseTypes, RunTypes
<1>1. CASE UNCHANGED vars
  BY <1>1 DEF RunsInv, CloseInv, DrainInv, LateInv, vars, busVars, closeVars, brokerVars, histVars
<1>2. CASE Run
  <2>1. \A c \in Closers : closeRun'[c] = closeRun[c] /\ cpc'[c] = cpc[c] /\ closeRun[c] <= runs
    BY <1>2 DEF Run, closeVars, CloseInv
  <2>2. runs' = runs + 1 /\ runs' > 0
    BY <1>n, <1>2 DEF Run
  <2>3. \A c \in Closers : closeRun'[c] < runs'
    BY <1>n, <2>1, <2>2
  <2>4. CloseInv'
    BY <1>n, <2>1, <2>2, <2>3 DEF CloseInv
  <2> QED
    BY <1>2, <2>4 DEF Run, RunsInv, DrainInv, LateInv
<1>3. CASE RunEnds
  BY <1>3 DEF RunEnds, RunsInv, CloseInv, DrainInv, LateInv, closeVars, histVars
<1>4. CASE Cancel
  <2>1. CloseInv'
    BY <1>4 DEF Cancel, CancelBecause, CloseInv, closeVars
  <2>2. DrainInv' /\ LateInv'
    BY <1>4 DEF Cancel, CancelBecause, DrainInv, LateInv
  <2> QED
    BY <2>1, <2>2 DEF RunsInv
<1>5. ASSUME NEW h \in Handlers, LoopStep(h)
      PROVE  RunsInv'
  <2>1. CloseInv'
    BY <1>5, LoopFrame DEF CloseInv, closeVars
  <2>2. DrainInv'
    BY <1>5, LoopFrame DEF DrainInv, Busy
  <2>3. LateInv'
    BY <1>5, LoopFrame DEF LateInv
  <2> QED
    BY <2>1, <2>2, <2>3 DEF RunsInv
<1>6. ASSUME NEW d \in Deliveries, MessageStep(d)
      PROVE  RunsInv'
  <2>1. CloseInv'
    BY <1>6, MessageFrame DEF CloseInv
  <2>2. DrainInv'
    BY <1>6, MessageFrame DEF DrainInv
  <2>3. LateInv'
    BY <1>6, MessageFrame DEF LateInv
  <2> QED
    BY <2>1, <2>2, <2>3 DEF RunsInv
<1>7. ASSUME NEW c \in Closers, CloseNotRunning(c) \/ Close(c) \/ CloseStep(c)
      PROVE  RunsInv'
  <2>1. CloseInv'
    <3>1. ASSUME NEW x \in Closers
          PROVE  /\ closeRun'[x] <= runs'
                 /\ cpc'[x] = "idle" => closeRun'[x] = 0
                 /\ cpc'[x] \in {"waiting", "subs"} => closeRun'[x] > 0
                 /\ cpc'[x] = "waiting" /\ closeRun'[x] = runs' /\ running' => closing'
                 /\ cpc'[x] \in {"subs", "done"} /\ closeRun'[x] = runs' /\ runs' > 0
                      => scope' # "active"
      <4>0. scope' = "active" => scope = "active" /\ running
        BY <1>7, CloseFrame DEF CountInv, RunInv
      <4>1. CASE x # c
        BY <1>7, <4>0, <4>1, CloseFrame DEF CloseInv
      <4>2. CASE x = c
        <5>1. closeRun'[c] \in {closeRun[c], runs} /\ closeRun'[c] <= runs'
          BY <1>7, <1>n, CloseFrame DEF CloseInv
        <5>2. cpc'[c] \in {"waiting", "subs"} => closeRun'[c] > 0
          BY <1>7, CloseFrame DEF CloseInv
        <5>3. cpc'[c] = "waiting" => closing'
          BY <1>7, CloseFrame
        <5>4. cpc'[c] \in {"subs", "done"} /\ closeRun'[c] = runs' /\ runs' > 0
                 => scope' # "active"
          BY <1>7, <4>0, CloseFrame DEF CloseInv
        <5> QED
          BY <1>7, <4>2, <5>1, <5>2, <5>3, <5>4, CloseFrame
      <4> QED
        BY <4>1, <4>2
    <3> QED
      BY <1>7, <3>1, CloseFrame DEF CloseInv
  <2>2. DrainInv'
    <3>1. CASE UNCHANGED <<scope, cause, uncounted, late>>
      BY <1>7, <3>1, CloseFrame DEF DrainInv
    <3>2. CASE scope = "active" /\ scope' = "cancelled"
               /\ (cause' = "drained" => uncounted' = Spawned /\ closing' /\ ~Pending)
      BY <1>7, <3>2, CloseFrame, NothingInFlight DEF DrainInv, Spawned
    <3> QED
      BY <1>7, <3>1, <3>2, CloseFrame
  <2>3. LateInv'
    BY <1>7, CloseFrame DEF LateInv
  <2> QED
    BY <2>1, <2>2, <2>3 DEF RunsInv
<1> QED
  BY <1>1, <1>2, <1>3, <1>4, <1>5, <1>6, <1>7 DEF Next

LEMMA RunsInit == Init => RunsInv
BY DEF Init, RunsInv, CloseInv, DrainInv, LateInv

LEMMA Draining == Spec => []RunsInv
BY RunsInit, RunsStep, Counting, PTL DEF Spec

\* A close() that finds its own run drained cuts short at most messages whose tasks had
\* not begun by then, whatever other close() calls, failures and restarts do: what remains of
\* the promise of command_bus.py:263, for any number of handlers and messages.
THEOREM DrainedBusIsClean == Spec => []DrainedCloseCutsOnlyUncounted
<1>1. RunsInv => DrainedCloseCutsOnlyUncounted
  BY DEF RunsInv, DrainInv, DrainedCloseCutsOnlyUncounted
<1> QED
  BY <1>1, Draining, PTL

-----------------------------------------------------------------------------
(* Loops and subscribers                                                   *)

\* A loop opens a subscriber when it starts, and reads from it then.
LEMMA LoopSubscribers ==
    ASSUME CountInv, NEW h \in Handlers, LoopStep(h)
    PROVE  /\ sub'[h] = sub[h] \/ (hpc[h] = "start" /\ sub'[h] = "open")
           /\ hpc'[h] = "next" => (hpc[h] = "next" /\ sub' = sub) \/ sub'[h] = "open"
<1>0. LoopTypes
  BY TypesSplit DEF CountInv
<1>1. CASE LoopStarts(h)
  BY <1>0, <1>1 DEF LoopStarts, Goto, LoopTypes
<1>2. CASE ~LoopStarts(h)
  <2>1. sub' = sub
    BY <1>2 DEF LoopStep, Spawn, Refuse, RefuseEnds, SubscriptionEnds, GroupCancelled,
                LoopCancelled, LoopEnds
  <2>2. hpc'[h] = "next" => hpc[h] = "next"
    <3>1. CASE Spawn(h) \/ GroupCancelled(h)
      BY <3>1 DEF Spawn, GroupCancelled
    <3>2. CASE Refuse(h) \/ RefuseEnds(h) \/ SubscriptionEnds(h)
      BY <1>0, <3>2 DEF Refuse, RefuseEnds, SubscriptionEnds, LeaveLoop, Goto, LoopTypes
    <3>3. CASE LoopCancelled(h) \/ LoopEnds(h)
      BY <1>0, <3>3 DEF LoopCancelled, LoopEnds, Goto, LoopTypes
    <3> QED
      BY <1>2, <3>1, <3>2, <3>3 DEF LoopStep
  <2> QED
    BY <2>1, <2>2
<1> QED
  BY <1>1, <1>2

\* A turn of the loop of close() opens nothing: it closes one subscriber or none and goes on or
\* raises, or finds nothing left and empties the dictionary.
LEMMA VisitDoes ==
    ASSUME CountInv, NEW c \in Closers, NEW left \in SUBSET Handlers, NEW size,
           Visit(c, left, size)
    PROVE  /\ \A h \in Handlers :
                 \/ sub'[h] = sub[h]
                 \/ sub'[h] = "closed" /\ cpc'[c] \in {"subs", "raised"}
                 \/ sub'[h] = "none" /\ cpc'[c] = "done"
           /\ cpc'[c] = "done" => left = {} /\ \A h \in Handlers : sub'[h] = "none"
           /\ cpc'[c] = "subs" => \A h \in left : sub'[h] = "open" => h \in cleft'[c]
           /\ \/ dropped' = dropped
              \/ cpc'[c] = "done" /\ dropped' = dropped \cup {h \in Handlers : sub[h] = "open"}
<1>0. CloseTypes /\ LoopTypes
  BY TypesSplit DEF CountInv
<1>1. CASE left = {} /\ sub' = [h \in Handlers |-> "none"] /\ cpc' = [cpc EXCEPT ![c] = "done"]
           /\ dropped' = dropped \cup {h \in Handlers : sub[h] = "open"}
  BY <1>0, <1>1 DEF CloseTypes
<1>2. ASSUME NEW h \in left, NEW done \in BOOLEAN, NEW ok \in BOOLEAN, UNCHANGED dropped,
             sub' = IF done THEN [sub EXCEPT ![h] = "closed"] ELSE sub, ok => done,
             cleft' = [cleft EXCEPT ![c] = IF ok THEN left \ {h} ELSE {}],
             cpc' = [cpc EXCEPT ![c] = IF ok THEN "subs" ELSE "raised"]
      PROVE  /\ \A x \in Handlers :
                   sub'[x] = sub[x] \/ (sub'[x] = "closed" /\ cpc'[c] \in {"subs", "raised"})
             /\ cpc'[c] # "done"
             /\ cpc'[c] = "subs" => \A x \in left : sub'[x] = "open" => x \in cleft'[c]
  <2>1. cpc'[c] = IF ok THEN "subs" ELSE "raised"
    BY <1>0, <1>2 DEF CloseTypes
  <2>2. \A x \in Handlers : sub'[x] = IF done /\ x = h THEN "closed" ELSE sub[x]
    BY <1>0, <1>2 DEF LoopTypes
  <2>3. ok => cleft'[c] = left \ {h}
    BY <1>0, <1>2 DEF CloseTypes
  <2> QED
    BY <1>2, <2>1, <2>2, <2>3
<1> QED
  BY <1>1, <1>2 DEF Visit, Answers

\* What a step of close() does to the subscribers.  It changes those of a run that is not
\* cancelled only when it was closing subscribers before; then what is open and left for it
\* stays so, and it drops only what was not left for it.
LEMMA CloseSubscribers ==
    ASSUME CountInv, CloseInv, NEW c \in Closers, CloseNotRunning(c) \/ Close(c) \/ CloseStep(c)
    PROVE  /\ \A h \in Handlers :
                 \/ sub'[h] = sub[h]
                 \/ sub'[h] = "closed" /\ cpc'[c] \in {"subs", "raised"}
                 \/ sub'[h] = "none" /\ cpc'[c] = "done"
           /\ cpc'[c] = "done" => CloseNotRunning(c) \/ \A h \in Handlers : sub'[h] = "none"
           /\ cpc'[c] = "subs" => \A h \in Handlers : sub'[h] = "open" =>
                 h \in cleft'[c] \/ (cpc[c] = "subs" /\ h \notin cleft[c])
           /\ \/ dropped' = dropped
              \/ /\ cpc'[c] = "done" /\ dropped' = dropped \cup {h \in Handlers : sub[h] = "open"}
                 /\ \A h \in Handlers : sub[h] = "open" => cpc[c] = "subs" /\ h \notin cleft[c]
           /\ UNCHANGED sub \/ scope' # "active" \/ cpc[c] = "subs"
<1>0. CloseTypes /\ RunTypes /\ LoopTypes
  BY TypesSplit DEF CountInv
<1>1. CASE CloseNotRunning(c)
  BY <1>0, <1>1 DEF CloseNotRunning, CloseTypes, histVars
<1>2. ASSUME NEW why, CancelScope(c, why), cpc[c] # "subs"
      PROVE  /\ \A h \in Handlers :
                   \/ sub'[h] = sub[h]
                   \/ sub'[h] = "closed" /\ cpc'[c] \in {"subs", "raised"}
                   \/ sub'[h] = "none" /\ cpc'[c] = "done"
             /\ cpc'[c] = "done" => \A h \in Handlers : sub'[h] = "none"
             /\ cpc'[c] = "subs" => \A h \in Handlers : sub'[h] = "open" => h \in cleft'[c]
             /\ \/ dropped' = dropped
                \/ /\ cpc'[c] = "done"
                   /\ dropped' = dropped \cup {h \in Handlers : sub[h] = "open"}
                   /\ \A h \in Handlers : sub[h] # "open"
             /\ scope' # "active"
  <2>1. Named \in SUBSET Handlers /\ Visit(c, Named, Cardinality(Named))
    BY <1>2, NamedIsFinite DEF CancelScope
  <2>2. scope' # "active"
    BY <1>2 DEF CancelScope, CancelBecause
  <2>3. \A h \in Handlers : h \notin Named => sub[h] = "none"
    BY DEF Named
  <2> QED
    BY <2>1, <2>2, <2>3, VisitDoes
<1>3. CASE Close(c) \/ CloseWaited(c)
  <2>1. cpc[c] # "subs"
    BY <1>3 DEF Close, CloseWaited
  <2>2. CASE \E why : CancelScope(c, why)
    BY <1>2, <2>1, <2>2
  <2>3. CASE ~ \E why : CancelScope(c, why)
    <3>1. cpc' = [cpc EXCEPT ![c] = "waiting"] /\ UNCHANGED <<sub, dropped>>
      BY <1>3, <2>3 DEF Close, CloseWaited
    <3> QED
      BY <1>0, <3>1 DEF CloseTypes
  <2> QED
    BY <2>2, <2>3
<1>4. CASE CloseNextSubscriber(c)
  <2>1. cpc[c] = "subs" /\ Visit(c, cleft[c] \cap Named, csize[c])
    BY <1>4 DEF CloseNextSubscriber
  <2>2. cleft[c] \cap Named \in SUBSET Handlers
    BY NamedIsFinite
  <2>3. \A h \in Handlers : h \notin Named => sub[h] = "none"
    BY DEF Named
  <2> QED
    BY <2>1, <2>2, <2>3, VisitDoes
<1>5. CASE CloseRaises(c)
  BY <1>0, <1>5 DEF CloseRaises, CloseRaised, CloseTypes, histVars
<1> QED
  BY <1>1, <1>3, <1>4, <1>5 DEF CloseStep

\* The three parts of SubscribersFollowLoops.
ClosedThisRun == \E c \in Closers : cpc[c] = "done" /\ closeRun[c] = runs /\ runs > 0

ReadsOpen(h) ==
    scope = "active" /\ hpc[h] = "next" =>
        \/ sub[h] = "open"
        \/ sub[h] = "closed" /\ Outliving({"subs", "raised"})
        \/ sub[h] = "none" /\ Outliving({"done"})
OpenIsLate(h) == sub[h] = "open" /\ ClosedThisRun => h \in late
DroppedIsLate(h) == h \in dropped => h \in late \/ Outliving({"done"})

LEMMA SubscribersSplit ==
    SubscribersFollowLoops <=> \A h \in Handlers : ReadsOpen(h) /\ OpenIsLate(h) /\ DroppedIsLate(h)
BY DEF SubscribersFollowLoops, ClosedThisRun, ReadsOpen, OpenIsLate, DroppedIsLate

\* A close() that is closing subscribers and does not outlive its run finds that run cancelled
\* and whatever is open still left for it, but for the subscribers of late loops.
LeftInv == \A c \in Closers : cpc[c] = "subs" /\ c \notin outliving =>
              /\ scope # "active"
              /\ \A h \in Handlers : sub[h] = "open" => h \in cleft[c] \/ h \in late

\* There are no late loops before the run is cancelled.
NoneLateYet == scope = "active" => late = {}

SubscribersInv == SubscribersFollowLoops /\ LeftInv /\ NoneLateYet

LEMMA SubscribersStep == CountInv /\ RunsInv /\ SubscribersInv /\ [Next]_vars => SubscribersInv'
<1> SUFFICES ASSUME CountInv, CloseInv, LateInv, SubscribersFollowLoops, LeftInv, NoneLateYet,
                    [Next]_vars
             PROVE  SubscribersInv'
  BY DEF RunsInv, SubscribersInv
<1>0. CloseTypes /\ RunTypes /\ LoopTypes /\ MaxRuns \in Nat
  BY TypesSplit, BusAssumption DEF CountInv
<1>h. \A h \in Handlers : ReadsOpen(h) /\ OpenIsLate(h) /\ DroppedIsLate(h)
  BY SubscribersSplit
<1>g. ASSUME LeftInv', NoneLateYet',
             \A h \in Handlers : ReadsOpen(h)' /\ OpenIsLate(h)' /\ DroppedIsLate(h)'
      PROVE  SubscribersInv'
  BY <1>g DEF SubscribersInv, SubscribersFollowLoops, ClosedThisRun, ReadsOpen, OpenIsLate,
              DroppedIsLate
<1>s. ClosedThisRun => scope # "active"
  BY DEF CloseInv, ClosedThisRun
<1>1. CASE UNCHANGED vars
  BY <1>1 DEF SubscribersInv, SubscribersFollowLoops, LeftInv, NoneLateYet, Outliving, vars,
              busVars, closeVars, histVars
<1>2. CASE Run
  <2>1. runs' = runs + 1 /\ \A c \in Closers : closeRun'[c] <= runs
    BY <1>2 DEF Run, CloseInv
  <2>2. \A c \in Closers : closeRun'[c] # runs'
    BY <1>0, <1>2, <2>1 DEF Run, RunTypes, CloseTypes
  <2>3. ~ClosedThisRun' /\ dropped' = {} /\ late' = {} /\ \A h \in Handlers : hpc'[h] # "next"
    BY <1>2, <2>2 DEF Run, ClosedThisRun
  <2>4. LeftInv'
    BY <1>2 DEF Run, LeftInv, closeVars
  <2> QED
    BY <1>g, <2>3, <2>4 DEF ReadsOpen, OpenIsLate, DroppedIsLate, NoneLateYet
<1>3. CASE RunEnds
  <2>1. (ClosedThisRun' <=> ClosedThisRun) /\ (Outliving({"done"})' <=> Outliving({"done"}))
    BY <1>3 DEF RunEnds, ClosedThisRun, Outliving, closeVars, histVars
  <2>2. scope' = "none" /\ UNCHANGED <<sub, late, dropped>>
    BY <1>3 DEF RunEnds, histVars
  <2>3. LeftInv'
    BY <1>3 DEF RunEnds, LeftInv, closeVars, histVars
  <2> QED
    BY <1>g, <1>h, <2>1, <2>2, <2>3 DEF ReadsOpen, OpenIsLate, DroppedIsLate, NoneLateYet
<1>4. CASE Cancel
  <2>1. /\ scope = "active" /\ scope' # "active" /\ late = {}
        /\ (ClosedThisRun' <=> ClosedThisRun) /\ UNCHANGED <<sub, dropped, outliving, cpc>>
    BY <1>4 DEF Cancel, CancelBecause, ClosedThisRun, NoneLateYet, closeVars
  <2>2. Outliving({"done"})' <=> Outliving({"done"})
    BY <2>1 DEF Outliving
  <2>3. LeftInv'
    BY <2>1 DEF LeftInv
  <2> QED
    BY <1>g, <1>h, <1>s, <2>1, <2>2, <2>3 DEF ReadsOpen, OpenIsLate, DroppedIsLate, NoneLateYet
<1>5. ASSUME NEW h \in Handlers, LoopStep(h)
      PROVE  SubscribersInv'
  <2>1. UNCHANGED <<scope, late, dropped, outliving, cpc, cleft, closeRun, runs>>
    BY <1>5, LoopFrame DEF closeVars
  <2>2. /\ ClosedThisRun' <=> ClosedThisRun
        /\ Outliving({"done"})' <=> Outliving({"done"})
        /\ Outliving({"subs", "raised"})' <=> Outliving({"subs", "raised"})
    BY <2>1 DEF ClosedThisRun, Outliving
  <2>3. \A x \in Handlers \ {h} : hpc'[x] = hpc[x] /\ sub'[x] = sub[x]
    BY <1>5, LoopFrame
  <2>4. /\ sub'[h] = sub[h] \/ (hpc[h] = "start" /\ sub'[h] = "open")
        /\ hpc'[h] = "next" => (hpc[h] = "next" /\ sub' = sub) \/ sub'[h] = "open"
    BY <1>5, LoopSubscribers
  <2>5. scope # "active" => \A x \in Handlers : sub'[x] = "open" => sub[x] = "open" \/ x \in late
    BY <2>3, <2>4 DEF LateInv
  <2>6. LeftInv'
    BY <2>1, <2>5 DEF LeftInv
  <2>7. ASSUME NEW x \in Handlers
        PROVE  ReadsOpen(x)' /\ OpenIsLate(x)' /\ DroppedIsLate(x)'
    <3>1. ReadsOpen(x)'
      BY <1>h, <2>1, <2>2, <2>3, <2>4 DEF ReadsOpen
    <3>2. OpenIsLate(x)' /\ DroppedIsLate(x)'
      BY <1>h, <1>s, <2>1, <2>2, <2>5 DEF OpenIsLate, DroppedIsLate
    <3> QED
      BY <3>1, <3>2
  <2> QED
    BY <1>g, <2>1, <2>6, <2>7 DEF NoneLateYet
<1>6. ASSUME NEW d \in Deliveries, MessageStep(d)
      PROVE  SubscribersInv'
  <2>1. /\ UNCHANGED <<scope, hpc, sub, closeRun, runs, late, dropped, outliving>>
        /\ \A c \in Closers :
              \/ cpc'[c] = cpc[c] /\ cleft'[c] = cleft[c]
              \/ cpc[c] \in {"waiting", "subs"} /\ cpc'[c] = "raised"
    BY <1>6, MessageFrame
  <2>2. (ClosedThisRun' => ClosedThisRun) /\ LeftInv'
    BY <2>1 DEF ClosedThisRun, LeftInv
  <2>3. /\ Outliving({"done"}) => Outliving({"done"})'
        /\ Outliving({"subs", "raised"}) => Outliving({"subs", "raised"})'
    BY <1>0, <2>1 DEF Outliving, RunTypes
  <2> QED
    BY <1>g, <1>h, <2>1, <2>2, <2>3 DEF ReadsOpen, OpenIsLate, DroppedIsLate, NoneLateYet
<1>7. ASSUME NEW c \in Closers, CloseNotRunning(c) \/ Close(c) \/ CloseStep(c)
      PROVE  SubscribersInv'
  <2>1. /\ UNCHANGED <<hpc, runs, outliving>> /\ outliving \subseteq Closers
        /\ \A x \in Closers \ {c} : cpc'[x] = cpc[x] /\ closeRun'[x] = closeRun[x] /\ cleft'[x] = cleft[x]
        /\ cpc[c] \in {"idle", "waiting", "subs"}
        /\ cpc'[c] \in {"waiting", "subs", "done", "raised"}
        /\ cpc'[c] = "waiting" => cpc[c] = "idle"
    BY <1>0, <1>7, CloseFrame DEF RunTypes
  <2>2. /\ scope' = "active" => scope = "active"
        /\ late' = late \/ (scope = "active" /\ scope' # "active")
    BY <1>7, CloseFrame
  <2>3. cpc'[c] = "subs" /\ c \notin outliving => scope' # "active"
    <3>1. CASE cpc[c] = "subs"
      BY <2>2, <3>1 DEF LeftInv
    <3>2. CASE cpc[c] # "subs"
      BY <1>7, <2>1, <2>2, <3>2, CloseFrame DEF CountInv, RunInv
    <3> QED
      BY <3>1, <3>2
  <2>4. \A x \in Handlers : sub'[x] = "open" => sub[x] = "open"
    BY <1>7, CloseSubscribers
  <2>5. NoneLateYet'
    BY <2>2 DEF NoneLateYet
  <2>6. LeftInv'
    <3> SUFFICES ASSUME NEW k \in Closers, cpc'[k] = "subs", k \notin outliving
                 PROVE  /\ scope' # "active"
                        /\ \A x \in Handlers : sub'[x] = "open" => x \in cleft'[k] \/ x \in late'
      BY <2>1 DEF LeftInv
    <3>1. CASE k # c
      BY <2>1, <2>2, <2>4, <3>1 DEF LeftInv
    <3>2. CASE k = c
      <4>1. ASSUME NEW x \in Handlers, sub'[x] = "open", x \notin cleft'[c]
            PROVE  x \in late'
        <5>1. cpc[c] = "subs" /\ x \notin cleft[c] /\ sub[x] = "open"
          BY <1>7, <2>4, <3>2, <4>1, CloseSubscribers
        <5>2. scope # "active" /\ x \in late
          BY <3>2, <5>1 DEF LeftInv
        <5> QED
          BY <2>2, <5>2
      <4> QED
        BY <2>3, <3>2, <4>1
    <3> QED
      BY <3>1, <3>2
  <2>7. ASSUME NEW x \in Handlers PROVE ReadsOpen(x)'
    <3> SUFFICES ASSUME scope' = "active", hpc'[x] = "next"
                 PROVE  \/ sub'[x] = "open"
                        \/ sub'[x] = "closed" /\ Outliving({"subs", "raised"})'
                        \/ sub'[x] = "none" /\ Outliving({"done"})'
      BY DEF ReadsOpen
    <3>1. \/ sub[x] = "open"
          \/ sub[x] = "closed" /\ Outliving({"subs", "raised"})
          \/ sub[x] = "none" /\ Outliving({"done"})
      BY <1>h, <2>1, <2>2 DEF ReadsOpen
    <3>2. Outliving({"done"}) => Outliving({"done"})'
      BY <2>1 DEF Outliving
    <3>3. CASE sub'[x] = sub[x]
      <4>1. ASSUME sub[x] = "closed", Outliving({"subs", "raised"})
            PROVE  Outliving({"subs", "raised"})'
        <5>1. cpc'[c] # "done" \/ cpc[c] # "subs"
          BY <1>7, <3>3, <4>1, CloseSubscribers DEF CloseNotRunning
        <5> QED
          BY <2>1, <4>1, <5>1 DEF Outliving
      <4> QED
        BY <3>1, <3>2, <3>3, <4>1
    <3>4. CASE sub'[x] # sub[x]
      <4>1. cpc[c] = "subs" /\ c \in outliving
        BY <1>7, <2>2, <3>4, CloseSubscribers DEF LeftInv
      <4>2. /\ cpc'[c] \in {"subs", "raised"} => Outliving({"subs", "raised"})'
            /\ cpc'[c] = "done" => Outliving({"done"})'
        BY <2>1, <4>1 DEF Outliving
      <4> QED
        BY <1>7, <3>4, <4>2, CloseSubscribers
    <3> QED
      BY <3>3, <3>4
  <2>8. ASSUME NEW x \in Handlers PROVE OpenIsLate(x)'
    <3> SUFFICES ASSUME sub'[x] = "open", ClosedThisRun' PROVE x \in late'
      BY DEF OpenIsLate
    <3>1. PICK k \in Closers : cpc'[k] = "done" /\ closeRun'[k] = runs' /\ runs' > 0
      BY DEF ClosedThisRun
    <3>2. CASE ClosedThisRun
      BY <1>h, <1>s, <2>2, <2>4, <3>2 DEF OpenIsLate
    <3>3. CASE k # c
      BY <2>1, <3>1, <3>2, <3>3 DEF ClosedThisRun
    <3>4. CASE k = c
      <4>1. CloseNotRunning(c)
        BY <1>7, <3>1, <3>4, CloseSubscribers
      <4>2. closeRun'[c] = 0
        BY <4>1 DEF CloseNotRunning, histVars, CloseInv
      <4> QED
        BY <3>1, <3>4, <4>2
    <3> QED
      BY <3>3, <3>4
  <2>9. ASSUME NEW x \in Handlers PROVE DroppedIsLate(x)'
    <3> SUFFICES ASSUME x \in dropped' PROVE x \in late' \/ Outliving({"done"})'
      BY DEF DroppedIsLate
    <3>1. Outliving({"done"}) => Outliving({"done"})'
      BY <2>1 DEF Outliving
    <3>2. x \in late => x \in late'
      BY <2>2 DEF NoneLateYet
    <3>3. CASE x \in dropped
      BY <1>h, <3>1, <3>2, <3>3 DEF DroppedIsLate
    <3>4. CASE x \notin dropped
      <4>1. cpc'[c] = "done" /\ sub[x] = "open" /\ cpc[c] = "subs" /\ x \notin cleft[c]
        BY <1>7, <3>4, CloseSubscribers
      <4>2. CASE c \in outliving
        BY <2>1, <4>1, <4>2 DEF Outliving
      <4>3. CASE c \notin outliving
        BY <3>2, <4>1, <4>3 DEF LeftInv
      <4> QED
        BY <4>2, <4>3
    <3> QED
      BY <3>3, <3>4
  <2> QED
    BY <1>g, <2>5, <2>6, <2>7, <2>8, <2>9
<1> QED
  BY <1>1, <1>2, <1>3, <1>4, <1>5, <1>6, <1>7 DEF Next

LEMMA SubscribersInit == Init => SubscribersInv
BY DEF Init, SubscribersInv, SubscribersFollowLoops, LeftInv, NoneLateYet

\* As long as a run is not cancelled its loops read from open subscribers in the dictionary,
\* unless a close() that was closing subscribers already when the run began closed them, or
\* emptied the dictionary.  A close() that returned leaves a subscriber of the factory open only
\* for a loop that started in a run already cancelled, and clear() (command_bus.py:285) drops an
\* open one only for such a loop, or at the end of such an outliving close().
THEOREM BusSubscribers == Spec => []SubscribersFollowLoops
<1>1. SubscribersInv => SubscribersFollowLoops
  BY DEF SubscribersInv
<1> QED
  BY <1>1, SubscribersInit, SubscribersStep, Counting, Draining, PTL DEF Spec

-----------------------------------------------------------------------------
(* The bus implements Settlement                                           *)

\* What the broker knows of delivery d, and its task relies on: nothing is settled before it
\* is delivered, the function runs on a delivery that is not settled, an ack is sent for a
\* handled one and a nack for one that is not.
SettleOf(d) ==
    /\ mpc[d] \in {"spawned", "call", "thread", "nack"} => d \notin handled \cup ackd \cup nackd
    /\ mpc[d] = "ack" => d \in handled /\ d \notin ackd \cup nackd
    /\ d[2] > n[d[1]] => d \notin handled \cup ackd \cup nackd
    /\ hpc[d[1]] = "refuse" /\ d[2] = n[d[1]] => d \notin handled \cup ackd \cup nackd
    /\ d \in ackd => d \in handled
    /\ d \in handled => d \notin nackd

SettleInv == \A d \in Deliveries : SettleOf(d)

\* d has been given to its loop, which is not returning it at once.
Taken(d) == n[d[1]] >= d[2] /\ ~(n[d[1]] = d[2] /\ hpc[d[1]] = "refuse")

StateOf(d) ==
    IF d \in ackd \cap nackd THEN "settled twice"
    ELSE IF d \in ackd THEN "acked"
    ELSE IF d \in nackd THEN "returned"
    ELSE IF d \in handled THEN "handled"
    ELSE IF Taken(d) THEN "taken" ELSE "pending"

LEMMA DeliveryStateIs == DeliveryState = [d \in Deliveries |-> StateOf(d)]
BY DEF DeliveryState, StateOf, Taken

Protocol == {<<"pending", "taken">>, <<"taken", "handled">>, <<"handled", "acked">>,
             <<"taken", "returned">>, <<"pending", "returned">>}

\* A step that moves one delivery along the protocol, or none, implements Settlement.
LEMMA MovesOne ==
    ASSUME NEW e \in Deliveries,
           \A d \in Deliveries : d # e => StateOf(d)' = StateOf(d),
           StateOf(e)' = StateOf(e) \/ <<StateOf(e), StateOf(e)'>> \in Protocol
    PROVE  [Settled!Next]_DeliveryState
<1> DEFINE to == StateOf(e)'
<1>1. DeliveryState = [d \in Deliveries |-> StateOf(d)]
  BY DeliveryStateIs
<1>2. DeliveryState' = [d \in Deliveries |-> StateOf(d)']
  BY DEF DeliveryState, StateOf, Taken
<1>3. DeliveryState' = [DeliveryState EXCEPT ![e] = to] /\ DeliveryState[e] = StateOf(e)
  BY <1>1, <1>2
<1>4. CASE to = StateOf(e)
  <2>1. DeliveryState' = DeliveryState
    BY <1>1, <1>2, <1>4
  <2> QED
    BY <2>1
<1>5. CASE <<StateOf(e), to>> \in Protocol
  <2> HIDE DEF to
  <2>1. Settled!Take(e) \/ Settled!Handle(e) \/ Settled!Ack(e) \/ Settled!Return(e)
        \/ Settled!Refuse(e)
    BY <1>3, <1>5 DEF Protocol, Settled!Take, Settled!Handle, Settled!Ack, Settled!Return,
                      Settled!Refuse, Settled!Move
  <2> QED
    BY <2>1 DEF Settled!Next
<1> QED
  BY <1>4, <1>5

LEMMA NothingMoves ==
    ASSUME \A d \in Deliveries : StateOf(d)' = StateOf(d)
    PROVE  UNCHANGED DeliveryState
<1>1. DeliveryState = [d \in Deliveries |-> StateOf(d)]
  BY DeliveryStateIs
<1>2. DeliveryState' = [d \in Deliveries |-> StateOf(d)']
  BY DEF DeliveryState, StateOf, Taken
<1> QED
  BY <1>1, <1>2

\* What a step of the loop of h does to the deliveries, seen from the broker: it accepts or
\* refuses the next one, gives a refused one back, or does nothing to any.
LoopMove(h) ==
    \/ /\ n'[h] = n[h] + 1 /\ hpc[h] = "next" /\ UNCHANGED <<handled, ackd, nackd>>
       /\ \/ /\ hpc' = hpc /\ mpc'[<<h, n'[h]>>] = "spawned"
             /\ \A d \in Deliveries : d # <<h, n'[h]>> => mpc'[d] = mpc[d]
          \/ hpc'[h] = "refuse" /\ mpc' = mpc
    \/ /\ n' = n /\ hpc[h] = "refuse" /\ hpc'[h] # "refuse" /\ UNCHANGED <<handled, ackd, mpc>>
       /\ nackd' \in {nackd, nackd \cup {<<h, n[h]>>}}
    \/ /\ n' = n /\ (hpc'[h] = "refuse" <=> hpc[h] = "refuse") /\ UNCHANGED <<handled, ackd, nackd>>
       /\ \A d \in Deliveries : mpc'[d] \in {mpc[d], "none"}

LEMMA LoopMoveIs ==
    ASSUME CountInv, NEW h \in Handlers, LoopStep(h)
    PROVE  LoopMove(h)
<1>0. LoopTypes /\ TaskTypes
  BY TypesSplit DEF CountInv
<1>1. CASE LoopStarts(h) \/ SubscriptionEnds(h) \/ GroupCancelled(h)
  <2>1. n' = n /\ mpc' = mpc /\ UNCHANGED <<handled, ackd, nackd>>
    BY <1>1 DEF LoopStarts, SubscriptionEnds, GroupCancelled, brokerVars
  <2>2. hpc'[h] = "refuse" <=> hpc[h] = "refuse"
    BY <1>0, <1>1 DEF LoopStarts, SubscriptionEnds, GroupCancelled, LeaveLoop, Goto, LoopTypes
  <2> QED
    BY <2>1, <2>2 DEF LoopMove
<1>2. CASE Spawn(h)
  <2>1. n'[h] = n[h] + 1 /\ <<h, n[h] + 1>> \in Deliveries
    BY <1>2, NextDelivery DEF Spawn
  <2>2. mpc'[<<h, n'[h]>>] = "spawned"
        /\ \A d \in Deliveries : d # <<h, n'[h]>> => mpc'[d] = mpc[d]
    BY <1>0, <1>2, <2>1 DEF Spawn, TaskTypes
  <2> QED
    BY <1>2, <2>1, <2>2 DEF Spawn, LoopMove
<1>3. CASE Refuse(h)
  BY <1>0, <1>3, NextDelivery DEF Refuse, Goto, LoopTypes, LoopMove
<1>4. CASE RefuseEnds(h)
  BY <1>0, <1>4 DEF RefuseEnds, LeaveLoop, Goto, Settles, LoopTypes, LoopMove
<1>5. CASE LoopCancelled(h)
  BY <1>0, <1>5 DEF LoopCancelled, Goto, Settles, LoopTypes, LoopMove
<1>6. CASE LoopEnds(h)
  <2>1. n' = n /\ UNCHANGED <<handled, ackd, nackd>>
        /\ \A d \in Deliveries : mpc'[d] \in {mpc[d], "none"}
    BY <1>6 DEF LoopEnds, brokerVars
  <2>2. hpc[h] # "refuse" /\ hpc'[h] # "refuse"
    BY <1>0, <1>6 DEF LoopEnds, Goto, LoopTypes
  <2> QED
    BY <2>1, <2>2 DEF LoopMove
<1> QED
  BY <1>1, <1>2, <1>3, <1>4, <1>5, <1>6 DEF LoopStep

\* What a step of the task of d does: its function returns, its ack or its nack takes effect
\* or not, or it does nothing to the delivery.
MessageMove(d) ==
    \/ /\ mpc[d] \in {"call", "thread"} /\ mpc'[d] = "ack"
       /\ handled' = handled \cup {d} /\ UNCHANGED <<ackd, nackd>>
    \/ mpc[d] = "ack" /\ mpc'[d] \in MessageOver /\ UNCHANGED <<handled, nackd>>
       /\ ackd' \in {ackd, ackd \cup {d}}
    \/ mpc[d] = "nack" /\ mpc'[d] \in MessageOver /\ UNCHANGED <<handled, ackd>>
       /\ nackd' \in {nackd, nackd \cup {d}}
    \/ /\ mpc[d] \in {"spawned", "call", "thread"}
       /\ mpc'[d] \in {"call", "thread", "nack"} \cup MessageOver
       /\ UNCHANGED <<handled, ackd, nackd>>

LEMMA MessageMoveIs ==
    ASSUME CountInv, NEW d \in Deliveries, MessageStep(d)
    PROVE  MessageMove(d) /\ UNCHANGED <<n, hpc>> /\ \A x \in Deliveries \ {d} : mpc'[x] = mpc[x]
<1>0. TaskTypes
  BY TypesSplit DEF CountInv
<1>1. CASE Start(d) \/ CallsInThread(d) \/ ThreadReturns(d) \/ Raises(d)
  BY <1>0, <1>1 DEF Turn, TaskTypes, Start, CallsInThread, ThreadReturns, Raises, brokerVars, MessageMove
<1>2. CASE Returns(d)
  BY <1>0, <1>2 DEF Turn, TaskTypes, Returns, MessageMove
<1>3. CASE AckEnds(d)
  BY <1>0, <1>3 DEF Turn, TaskTypes, AckEnds, Settles, Finish, NackRefused, MessageOver, MessageMove
<1>4. CASE NackEnds(d)
  BY <1>0, <1>4 DEF Turn, TaskTypes, NackEnds, Settles, Finish, MessageOver, MessageMove
<1>5. ASSUME MessageCancelled(d) PROVE MessageMove(d)
  <2>1. mpc'[d] = "cancelled" /\ mpc[d] \in {"call", "ack", "nack"}
    BY <1>0, <1>5 DEF Turn, TaskTypes, MessageCancelled, Finish, AtAwait, Busy
  <2>2. /\ handled' = handled
        /\ ackd' \in {ackd, ackd \cup {d}} /\ (mpc[d] # "ack" => ackd' = ackd)
        /\ nackd' \in {nackd, nackd \cup {d}} /\ (mpc[d] # "nack" => nackd' = nackd)
    BY <1>5 DEF MessageCancelled, Settles
  <2> QED
    BY <2>1, <2>2 DEF MessageOver, MessageMove
<1>6. MessageMove(d)
  BY <1>1, <1>2, <1>3, <1>4, <1>5 DEF MessageStep
<1> QED
  BY <1>6, MessageFrame

\* Every step but those of the loops and the tasks leaves the deliveries alone.
LEMMA OtherMoves ==
    ASSUME CountInv, CloseInv, [Next]_vars,
           ~ \E h \in Handlers : LoopStep(h), ~ \E d \in Deliveries : MessageStep(d)
    PROVE  /\ UNCHANGED <<n, mpc, handled, ackd, nackd>>
           /\ \A h \in Handlers : hpc'[h] = "refuse" <=> hpc[h] = "refuse"
<1>1. CASE UNCHANGED vars
  BY <1>1 DEF vars, brokerVars
<1>2. CASE Run \/ RunEnds
  <2>1. \A h \in Handlers : hpc'[h] # "refuse" /\ hpc[h] # "refuse"
    BY <1>2 DEF Run, RunEnds, LoopOver, CountInv, RunInv
  <2> QED
    BY <1>2, <2>1 DEF Run, RunEnds, brokerVars
<1>3. CASE Cancel
  BY <1>3 DEF Cancel, brokerVars
<1>4. ASSUME NEW c \in Closers, CloseNotRunning(c) \/ Close(c) \/ CloseStep(c)
      PROVE  UNCHANGED <<n, mpc, hpc, handled, ackd, nackd>>
  BY <1>4, CloseFrame
<1> QED
  BY <1>1, <1>2, <1>3, <1>4 DEF Next

\* A step of the loop of h is one of the protocol for at most the newest of its deliveries.
LEMMA LoopSettles ==
    ASSUME CountInv, SettleInv, NEW h \in Handlers, LoopStep(h)
    PROVE  SettleInv' /\ [Settled!Next]_DeliveryState
<1>e. PICK e : e = <<h, n'[h]>>
  OBVIOUS
<1>0. /\ n \in [Handlers -> 0..MaxDeliveries] /\ MaxDeliveries \in Nat
      /\ hpc \in [Handlers -> LoopPlaces] /\ LoopMove(h)
      /\ \A x \in Handlers \ {h} : hpc'[x] = hpc[x] /\ n'[x] = n[x]
  BY TypesSplit, LoopMoveIs, LoopFrame, BusAssumption DEF CountInv, LoopTypes
<1>1. n[h] \in Nat /\ n'[h] \in Nat /\ e[1] = h /\ e[2] = n'[h]
  BY <1>0, <1>e DEF LoopMove
<1>2. ASSUME NEW d \in Deliveries, d # e
      PROVE  StateOf(d)' = StateOf(d) /\ SettleOf(d)'
  <2>1. d[1] \in Handlers /\ d[2] \in Nat /\ (d[1] = h => d[2] # n'[h]) /\ SettleOf(d)
    BY <1>2, <1>e, DeliveryParts DEF SettleInv
  <2>2. /\ d \in handled' <=> d \in handled
        /\ d \in ackd' <=> d \in ackd
        /\ d \in nackd' <=> d \in nackd
    BY <1>0, <1>e, <1>2 DEF LoopMove
  <2>3. (Taken(d)' <=> Taken(d)) /\ mpc'[d] \in {mpc[d], "none"}
    BY <1>0, <1>e, <1>1, <1>2, <2>1 DEF LoopMove, Taken
  <2>4. StateOf(d)' = StateOf(d)
    BY <2>2, <2>3 DEF StateOf
  <2>5. (d[2] > n'[d[1]] => d[2] > n[d[1]])
        /\ (hpc'[d[1]] = "refuse" /\ d[2] = n'[d[1]] => hpc[d[1]] = "refuse" /\ d[2] = n[d[1]])
    BY <1>0, <1>1, <2>1 DEF LoopMove
  <2> QED
    BY <2>1, <2>2, <2>3, <2>4, <2>5 DEF SettleOf
<1>3. CASE e \notin Deliveries
  <2>1. \A d \in Deliveries : StateOf(d)' = StateOf(d) /\ SettleOf(d)'
    BY <1>2, <1>3
  <2> QED
    BY <2>1, NothingMoves DEF SettleInv
<1>4. CASE e \in Deliveries
  <2>0. SettleOf(e)
    BY <1>4 DEF SettleInv
  <2>1. CASE n'[h] = n[h] + 1
    <3>1. e \notin handled \cup ackd \cup nackd /\ UNCHANGED <<handled, ackd, nackd>>
      BY <1>0, <1>e, <1>1, <2>0, <2>1 DEF LoopMove, SettleOf
    <3>2. mpc'[e] \in {"spawned", "none"}
      BY <1>0, <1>e, <1>1, <1>4, <2>1, NextDelivery, DeliveryParts DEF LoopMove, CountInv, Given
    <3>3. SettleOf(e)'
      BY <3>1, <3>2 DEF SettleOf
    <3>4. ~Taken(e)
      BY <1>1, <2>1 DEF Taken
    <3>5. StateOf(e) = "pending" /\ StateOf(e)' \in {"pending", "taken"}
      BY <3>1, <3>4 DEF StateOf
    <3>6. StateOf(e)' = StateOf(e) \/ <<StateOf(e), StateOf(e)'>> \in Protocol
      BY <3>5 DEF Protocol
    <3> QED
      BY <1>2, <1>4, <3>3, <3>6, MovesOne DEF SettleInv
  <2>2. CASE n' = n /\ hpc[h] = "refuse" /\ hpc'[h] # "refuse"
    <3>1. /\ UNCHANGED <<handled, ackd, mpc>> /\ nackd' \in {nackd, nackd \cup {e}}
          /\ e \notin handled \cup ackd \cup nackd /\ mpc[e] = "none"
      BY <1>0, <1>e, <1>1, <2>0, <2>2 DEF LoopMove, SettleOf, CountInv, Given
    <3>2. SettleOf(e)'
      BY <1>1, <2>2, <3>1 DEF SettleOf
    <3>3. ~Taken(e) /\ Taken(e)'
      BY <1>1, <2>2 DEF Taken
    <3>4. StateOf(e) = "pending" /\ StateOf(e)' \in {"returned", "taken"}
      BY <3>1, <3>3 DEF StateOf
    <3>5. <<StateOf(e), StateOf(e)'>> \in Protocol
      BY <3>4 DEF Protocol
    <3> QED
      BY <1>2, <1>4, <3>2, <3>5, MovesOne DEF SettleInv
  <2>3. CASE n' = n /\ (hpc'[h] = "refuse" <=> hpc[h] = "refuse")
    <3>1. UNCHANGED <<handled, ackd, nackd>> /\ mpc'[e] \in {mpc[e], "none"}
      BY <1>0, <1>e, <1>1, <1>4, <2>3 DEF LoopMove
    <3>2. SettleOf(e)' /\ (Taken(e)' <=> Taken(e))
      BY <1>1, <2>0, <2>3, <3>1 DEF SettleOf, Taken
    <3>3. StateOf(e)' = StateOf(e)
      BY <3>1, <3>2 DEF StateOf
    <3> QED
      BY <1>2, <1>4, <3>2, <3>3, MovesOne DEF SettleInv
  <2> QED
    BY <1>0, <2>1, <2>2, <2>3 DEF LoopMove
<1> QED
  BY <1>3, <1>4

\* A step of the task of d is one of the protocol for d, or none.
LEMMA MessageSettles ==
    ASSUME CountInv, SettleInv, NEW d \in Deliveries, MessageStep(d)
    PROVE  SettleInv' /\ [Settled!Next]_DeliveryState
<1>0. MessageMove(d) /\ UNCHANGED <<n, hpc>> /\ \A x \in Deliveries \ {d} : mpc'[x] = mpc[x]
  BY MessageMoveIs
<1>1. ASSUME NEW x \in Deliveries, x # d
      PROVE  StateOf(x)' = StateOf(x) /\ SettleOf(x)'
  <2>1. /\ x \in handled' <=> x \in handled
        /\ x \in ackd' <=> x \in ackd
        /\ x \in nackd' <=> x \in nackd
    BY <1>0, <1>1 DEF MessageMove
  <2> QED
    BY <1>0, <1>1, <2>1 DEF StateOf, Taken, SettleInv, SettleOf
<1>2. SettleOf(d) /\ d[1] \in Handlers /\ d[2] \in Nat
  BY DeliveryParts DEF SettleInv
<1>3. n[d[1]] \in Nat /\ d[2] <= n[d[1]] /\ ~(hpc[d[1]] = "refuse" /\ d[2] = n[d[1]])
  <2>1. mpc[d] # "none"
    BY <1>0 DEF MessageMove
  <2>2. n[d[1]] \in Nat
    BY <1>2, TypesSplit, BusAssumption DEF CountInv, LoopTypes
  <2>3. d[2] <= n[d[1]]
    BY <2>1 DEF CountInv, Given
  <2>4. ASSUME hpc[d[1]] = "refuse", d[2] = n[d[1]] PROVE FALSE
    <3>1. mpc[<<d[1], n[d[1]]>>] = "none" /\ d = <<d[1], d[2]>>
      BY <1>2, <2>4, DeliveryParts DEF CountInv, Given
    <3> QED
      BY <2>1, <2>4, <3>1
  <2> QED
    BY <2>2, <2>3, <2>4
<1>4. Taken(d) /\ Taken(d)'
  BY <1>0, <1>2, <1>3 DEF Taken
<1>5. /\ SettleOf(d)'
      /\ StateOf(d)' = StateOf(d) \/ <<StateOf(d), StateOf(d)'>> \in Protocol
  <2>1. CASE mpc[d] \in {"call", "thread"} /\ mpc'[d] = "ack"
             /\ handled' = handled \cup {d} /\ UNCHANGED <<ackd, nackd>>
    <3>1. d \notin handled \cup ackd \cup nackd /\ d \in handled'
      BY <1>2, <2>1 DEF SettleOf
    <3>2. StateOf(d) = "taken" /\ StateOf(d)' = "handled"
      BY <1>4, <2>1, <3>1 DEF StateOf
    <3>3. SettleOf(d)'
      BY <1>0, <1>2, <1>3, <2>1, <3>1 DEF SettleOf
    <3> QED
      BY <3>2, <3>3 DEF Protocol
  <2>2. CASE mpc[d] = "ack" /\ mpc'[d] \in MessageOver /\ UNCHANGED <<handled, nackd>>
             /\ ackd' \in {ackd, ackd \cup {d}}
    <3>1. d \in handled /\ d \notin ackd \cup nackd
      BY <1>2, <2>2 DEF SettleOf
    <3>2. StateOf(d) = "handled" /\ StateOf(d)' \in {"handled", "acked"}
      BY <2>2, <3>1 DEF StateOf
    <3>3. SettleOf(d)'
      BY <1>0, <1>2, <1>3, <2>2, <3>1 DEF SettleOf, MessageOver
    <3> QED
      BY <3>2, <3>3 DEF Protocol
  <2>3. CASE mpc[d] = "nack" /\ mpc'[d] \in MessageOver /\ UNCHANGED <<handled, ackd>>
             /\ nackd' \in {nackd, nackd \cup {d}}
    <3>1. d \notin handled \cup ackd \cup nackd
      BY <1>2, <2>3 DEF SettleOf
    <3>2. StateOf(d) = "taken" /\ StateOf(d)' \in {"taken", "returned"}
      BY <1>4, <2>3, <3>1 DEF StateOf
    <3>3. SettleOf(d)'
      BY <1>0, <1>2, <1>3, <2>3, <3>1 DEF SettleOf, MessageOver
    <3> QED
      BY <3>2, <3>3 DEF Protocol
  <2>4. CASE mpc[d] \in {"spawned", "call", "thread"} /\ UNCHANGED <<handled, ackd, nackd>>
             /\ mpc'[d] \in {"call", "thread", "nack"} \cup MessageOver
    <3>1. d \notin handled \cup ackd \cup nackd
      BY <1>2, <2>4 DEF SettleOf
    <3>2. StateOf(d)' = StateOf(d)
      BY <1>4, <2>4 DEF StateOf
    <3>3. SettleOf(d)'
      BY <1>0, <1>2, <1>3, <2>4, <3>1 DEF SettleOf, MessageOver
    <3> QED
      BY <3>2, <3>3
  <2> QED
    BY <1>0, <2>1, <2>2, <2>3, <2>4 DEF MessageMove
<1> QED
  BY <1>1, <1>5, MovesOne DEF SettleInv

LEMMA SettleStep ==
    CountInv /\ RunsInv /\ SettleInv /\ [Next]_vars => SettleInv' /\ [Settled!Next]_DeliveryState
<1> SUFFICES ASSUME CountInv, CloseInv, SettleInv, [Next]_vars
             PROVE  SettleInv' /\ [Settled!Next]_DeliveryState
  BY DEF RunsInv
<1>1. CASE \E h \in Handlers : LoopStep(h)
  BY <1>1, LoopSettles
<1>2. CASE \E d \in Deliveries : MessageStep(d)
  BY <1>2, MessageSettles
<1>3. CASE ~(\E h \in Handlers : LoopStep(h)) /\ ~(\E d \in Deliveries : MessageStep(d))
  <2>1. /\ UNCHANGED <<n, mpc, handled, ackd, nackd>>
        /\ \A h \in Handlers : hpc'[h] = "refuse" <=> hpc[h] = "refuse"
    BY <1>3, OtherMoves
  <2>2. ASSUME NEW d \in Deliveries
        PROVE  StateOf(d)' = StateOf(d) /\ SettleOf(d)'
    BY <2>1, DeliveryParts DEF StateOf, Taken, SettleInv, SettleOf
  <2> QED
    BY <2>2, NothingMoves DEF SettleInv
<1> QED
  BY <1>1, <1>2, <1>3

LEMMA SettleInit == Init => SettleInv /\ Settled!Init
<1> SUFFICES ASSUME Init PROVE SettleInv /\ Settled!Init
  OBVIOUS
<1>1. ASSUME NEW d \in Deliveries
      PROVE  SettleOf(d) /\ StateOf(d) = "pending"
  <2>1. d[1] \in Handlers /\ d[2] \in 1..MaxDeliveries /\ MaxDeliveries \in Nat
    BY DeliveryParts, BusAssumption
  <2>2. n[d[1]] = 0 /\ d \notin handled \cup ackd \cup nackd /\ mpc[d] = "none"
        /\ hpc[d[1]] = "off"
    BY <2>1 DEF Init
  <2> QED
    BY <2>1, <2>2 DEF SettleOf, StateOf, Taken
<1>2. DeliveryState = [d \in Deliveries |-> "pending"]
  BY <1>1, DeliveryStateIs
<1> QED
  BY <1>1, <1>2 DEF SettleInv, Settled!Init

\* The bus keeps the settlement protocol with any number of handlers and of messages of one
\* handler in flight: a delivery is acknowledged only after its function returned, given back
\* only if it did not, and settled once, whatever fails, closes, cancels or restarts.
THEOREM BusImplementsSettlement == Spec => SettlesOnce
BY SettleInit, SettleStep, Counting, Draining, PTL DEF Spec, SettlesOnce, Settled!Spec
=============================================================================
