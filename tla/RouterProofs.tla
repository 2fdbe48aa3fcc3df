---------------------------- MODULE RouterProofs ----------------------------
(***************************************************************************)
(* Theorems about Router, for every set of handlers and closers and every  *)
(* bound.  The inductive invariant has three parts: the types together     *)
(* with the exact in-flight counter, the facts about runs and closers that *)
(* make a drained close harmless, and the facts about the current message  *)
(* of each handler that make the settlement protocol hold.                 *)
(***************************************************************************)
EXTENDS Router, FiniteSetTheorems, TLAPS

BusyHandlers == {h \in Handlers : hpc[h] \in Busy}

\* A handler that has a message in its hands was given one.
Given == \A h \in Handlers : hpc[h] \in Busy \cup {"refuse"} => n[h] > 0

\* There are tasks and a scope exactly while run() is under way.
RunInv ==
    /\ scope = "none" <=> ~running
    /\ \A h \in Handlers : hpc[h] = "off" <=> ~running

CountInv == TypeOK /\ InFlightIsExact /\ Given /\ RunInv

\* A finite set counts one more with a new element and one less without one of its own.
LEMMA CountBusy ==
    ASSUME NEW S \in SUBSET Handlers, NEW h \in Handlers
    PROVE  /\ IsFiniteSet(S) /\ Cardinality(S) \in Nat
           /\ h \notin S => Cardinality(S \cup {h}) = Cardinality(S) + 1
           /\ h \in S => /\ Cardinality(S \ {h}) = Cardinality(S) - 1
                         /\ Cardinality(S) > 0
<1>1. IsFiniteSet(S)
  BY FS_Subset, RouterAssumption
<1>2. Cardinality(S) \in Nat
  BY <1>1, FS_CardinalityType
<1>3. ASSUME h \notin S PROVE Cardinality(S \cup {h}) = Cardinality(S) + 1
  BY <1>1, <1>3, FS_AddElement
<1>4. ASSUME h \in S PROVE Cardinality(S \ {h}) = Cardinality(S) - 1 /\ Cardinality(S) > 0
  <2>1. IsFiniteSet(S \ {h}) /\ Cardinality(S \ {h}) = Cardinality(S) - 1
    BY <1>1, <1>4, FS_RemoveElement
  <2>2. Cardinality(S \ {h}) \in Nat
    BY <2>1, FS_CardinalityType
  <2> QED
    BY <2>1, <2>2, <1>2
<1> QED
  BY <1>1, <1>2, <1>3, <1>4

\* The three ways a task moves: it becomes busy, stays as busy as it was, or stops.
LEMMA Moves ==
    ASSUME CountInv, NEW h \in Handlers, NEW next \in Live \cup Over, Goto(h, next)
    PROVE  /\ hpc' \in [Handlers -> Live \cup Over \cup {"off"}]
           /\ hpc[h] \notin Busy /\ next \in Busy /\ inFlight' = inFlight + 1
                => inFlight' \in Nat /\ InFlightIsExact'
           /\ (hpc[h] \in Busy <=> next \in Busy) /\ inFlight' = inFlight
                => inFlight' \in Nat /\ InFlightIsExact'
           /\ hpc[h] \in Busy /\ next \notin Busy /\ inFlight' = inFlight - 1
                => inFlight' \in Nat /\ InFlightIsExact'
<1> DEFINE B == BusyHandlers
           C == {x \in Handlers : hpc'[x] \in Busy}
<1>1. hpc' \in [Handlers -> Live \cup Over \cup {"off"}]
  BY DEF CountInv, TypeOK, Goto
<1>2. hpc'[h] = next /\ \A x \in Handlers \ {h} : hpc'[x] = hpc[x]
  BY DEF CountInv, TypeOK, Goto
<1>3. inFlight \in Nat /\ inFlight = Cardinality(B) /\ B \in SUBSET Handlers
  BY DEF CountInv, TypeOK, InFlightIsExact, BusyHandlers
<1>4. InFlightIsExact' <=> inFlight' = Cardinality(C)
  BY DEF InFlightIsExact
<1>5. CASE hpc[h] \notin Busy /\ next \in Busy
  <2>1. C = B \cup {h} /\ h \notin B
    BY <1>2, <1>5 DEF BusyHandlers
  <2> QED
    BY <2>1, <1>1, <1>3, <1>4, <1>5, CountBusy
<1>6. CASE hpc[h] \in Busy <=> next \in Busy
  <2>1. C = B
    BY <1>2, <1>6 DEF BusyHandlers
  <2> QED
    BY <2>1, <1>1, <1>3, <1>4, <1>6
<1>7. CASE hpc[h] \in Busy /\ next \notin Busy
  <2>1. C = B \ {h} /\ h \in B
    BY <1>2, <1>7 DEF BusyHandlers
  <2> QED
    BY <2>1, <1>1, <1>3, <1>4, <1>7, CountBusy
<1> QED
  BY <1>5, <1>6, <1>7

LEMMA CurrentIsDelivery ==
    ASSUME CountInv, NEW h \in Handlers, hpc[h] \in Busy \cup {"refuse"}
    PROVE  Current(h) \in Deliveries
BY RouterAssumption DEF CountInv, TypeOK, Given, Current, Deliveries

LEMMA GivenOneMore ==
    ASSUME CountInv, NEW h \in Handlers, n[h] < MaxDeliveries, n' = [n EXCEPT ![h] = @ + 1]
    PROVE  n' \in [Handlers -> 0..MaxDeliveries]
<1>1. n \in [Handlers -> 0..MaxDeliveries] /\ MaxDeliveries \in Nat
  BY RouterAssumption DEF CountInv, TypeOK
<1>2. n[h] + 1 \in 0..MaxDeliveries
  BY <1>1
<1> QED
  BY <1>1, <1>2

\* Given and RunInv survive a task that moves while run() is under way.
LEMMA MoveKeeps ==
    ASSUME CountInv, NEW h \in Handlers, NEW next \in Live \cup Over, Goto(h, next),
           hpc[h] # "off", UNCHANGED <<running, scope>>,
           \/ UNCHANGED n /\ (next \in Busy \cup {"refuse"} => hpc[h] \in Busy \cup {"refuse"})
           \/ n' = [n EXCEPT ![h] = @ + 1]
    PROVE  Given' /\ RunInv'
BY DEF CountInv, TypeOK, Given, RunInv, Goto, Busy, Live, Over

\* A step keeps the types and the exactness of the in-flight counter.
LEMMA CountStep == CountInv /\ [Next]_vars => CountInv'
<1> SUFFICES ASSUME CountInv, [Next]_vars
             PROVE  CountInv'
  OBVIOUS
<1> USE RouterAssumption
<1>1. ASSUME UNCHANGED <<hpc, inFlight, n>>, TypeOK', RunInv'
      PROVE  CountInv'
  BY <1>1 DEF CountInv, TypeOK, InFlightIsExact, Given
<1>2. CASE UNCHANGED vars
  <2>1. TypeOK' /\ RunInv'
    BY <1>2 DEF CountInv, TypeOK, RunInv, vars, taskVars, brokerVars
  <2> QED
    BY <1>1, <1>2, <2>1 DEF vars, taskVars
<1>3. CASE Run
  <2>0. runs' \in 0..MaxRuns
    BY <1>3 DEF CountInv, TypeOK, Run
  <2>1. TypeOK' /\ RunInv'
    BY <2>0, <1>3 DEF CountInv, TypeOK, RunInv, Run, brokerVars, Live
  <2>2. {h \in Handlers : hpc[h] \in Busy} = {h \in Handlers : hpc'[h] \in Busy}
    BY <1>3 DEF Run, Busy, CountInv, RunInv
  <2> QED
    BY <2>1, <2>2, <1>3 DEF CountInv, InFlightIsExact, Given, Run, Busy
<1>4. CASE RunEnds
  <2>1. TypeOK' /\ RunInv'
    BY <1>4 DEF CountInv, TypeOK, RunInv, RunEnds, brokerVars
  <2>2. {h \in Handlers : hpc[h] \in Busy} = {h \in Handlers : hpc'[h] \in Busy}
    BY <1>4 DEF RunEnds, Busy, Over, CountInv, TypeOK
  <2> QED
    BY <2>1, <2>2, <1>4 DEF CountInv, InFlightIsExact, Given, RunEnds, Busy
<1>5. CASE FailureCancels \/ CancelRun
  <2>1. TypeOK' /\ RunInv'
    BY <1>5 DEF CountInv, TypeOK, RunInv, FailureCancels, CancelRun, CancelBecause, brokerVars
  <2> QED
    BY <1>1, <1>5, <2>1 DEF FailureCancels, CancelRun
<1>6. ASSUME NEW c \in Closers, CloseStep(c)
      PROVE  CountInv'
  <2>1. CASE CloseNotRunning(c)
    BY <1>1, <2>1 DEF CountInv, TypeOK, RunInv, CloseNotRunning, brokerVars
  <2>2. CASE Close(c)
    BY <1>1, <2>2 DEF CountInv, TypeOK, RunInv, Close, CancelScope, CancelBecause, brokerVars
  <2>3. CASE CloseDrained(c)
    BY <1>1, <2>3
       DEF CountInv, TypeOK, RunInv, CloseDrained, CancelScope, CancelBecause, brokerVars
  <2>4. CASE CloseTimesOut(c)
    BY <1>1, <2>4
       DEF CountInv, TypeOK, RunInv, CloseTimesOut, CancelScope, CancelBecause, brokerVars
  <2> QED
    BY <1>6, <2>1, <2>2, <2>3, <2>4 DEF CloseStep
<1>7. ASSUME NEW h \in Handlers, HandlerStep(h)
      PROVE  CountInv'
  <2> DEFINE Moved == /\ inFlight' \in Nat /\ InFlightIsExact' /\ Given' /\ RunInv'
                       /\ hpc' \in [Handlers -> Live \cup Over \cup {"off"}]
  <2> HIDE DEF Moved
  <2>0. ASSUME NEW next \in Live \cup Over, Goto(h, next), hpc[h] # "off",
               UNCHANGED <<running, scope>>,
               \/ /\ UNCHANGED n
                  /\ next \in Busy \cup {"refuse"} => hpc[h] \in Busy \cup {"refuse"}
               \/ n' = [n EXCEPT ![h] = @ + 1],
               \/ hpc[h] \notin Busy /\ next \in Busy /\ inFlight' = inFlight + 1
               \/ (hpc[h] \in Busy <=> next \in Busy) /\ inFlight' = inFlight
               \/ hpc[h] \in Busy /\ next \notin Busy /\ inFlight' = inFlight - 1
        PROVE  Moved
    <3>1. Given' /\ RunInv'
      BY <2>0, MoveKeeps
    <3> QED
      BY <2>0, <3>1, Moves DEF Moved
  <2>1. CASE Accept(h)
    <3>1. Moved
      BY <2>1, <2>0 DEF Accept, Counted, Busy, Live, Over
    <3>2. n' \in [Handlers -> 0..MaxDeliveries]
      BY <2>1, GivenOneMore DEF Accept
    <3>3. flag' \in [Handlers -> {"fresh", "acked", "nacked"}]
      BY <2>1 DEF CountInv, TypeOK, Accept
    <3> QED
      BY <2>1, <3>1, <3>2, <3>3 DEF Moved, CountInv, TypeOK, brokerVars, Accept
  <2>2. CASE Refuse(h)
    <3>1. Moved
      BY <2>2, <2>0 DEF Refuse, Busy, Live, Over
    <3>2. n' \in [Handlers -> 0..MaxDeliveries]
      BY <2>2, GivenOneMore DEF Refuse
    <3>3. flag' \in [Handlers -> {"fresh", "acked", "nacked"}]
      BY <2>2 DEF CountInv, TypeOK, Refuse
    <3> QED
      BY <2>2, <3>1, <3>2, <3>3 DEF Moved, CountInv, TypeOK, brokerVars, Refuse
  <2>3. CASE RefuseEnds(h)
    <3>1. Current(h) \in Deliveries
      BY <2>3, CurrentIsDelivery DEF RefuseEnds, Busy
    <3>2. Moved
      <4>1. CASE Goto(h, "ended") /\ UNCHANGED inFlight
        BY <4>1, <2>3, <2>0 DEF RefuseEnds, Busy, Live, Over
      <4>2. CASE Goto(h, "failed") /\ UNCHANGED inFlight
        BY <4>2, <2>3, <2>0 DEF RefuseEnds, Busy, Live, Over
      <4> QED
        BY <4>1, <4>2, <2>3 DEF RefuseEnds, Busy
    <3> QED
      BY <2>3, <3>1, <3>2 DEF Moved, CountInv, TypeOK, brokerVars, RefuseEnds, Settles
  <2>4. CASE SubscriptionEnds(h)
    <3>1. Moved
      <4>1. CASE Goto(h, "ended") /\ UNCHANGED inFlight
        BY <4>1, <2>4, <2>0 DEF SubscriptionEnds, Busy, Live, Over
      <4>2. CASE Goto(h, "failed") /\ UNCHANGED inFlight
        BY <4>2, <2>4, <2>0 DEF SubscriptionEnds, Busy, Live, Over
      <4> QED
        BY <4>1, <4>2, <2>4 DEF SubscriptionEnds, Busy
    <3> QED
      BY <2>4, <3>1 DEF Moved, CountInv, TypeOK, brokerVars, SubscriptionEnds
  <2>5. CASE SelfAck(h)
    <3>1. Current(h) \in Deliveries
      BY <2>5, CurrentIsDelivery DEF SelfAck, Busy
    <3> QED
      BY <2>5, <3>1, <1>1 DEF CountInv, TypeOK, RunInv, SelfAck, Settles
  <2>6. CASE Returns(h)
    <3>1. Current(h) \in Deliveries
      BY <2>6, CurrentIsDelivery DEF Returns, Busy
    <3>2. Moved
      <4>1. CASE Goto(h, "ack") /\ UNCHANGED inFlight
        BY <4>1, <2>6, <2>0 DEF Returns, Settling, NackRefused, Finish, Busy, Live, Over
      <4>2. CASE Goto(h, "failed") /\ inFlight' = inFlight - 1
        BY <4>2, <2>6, <2>0 DEF Returns, Settling, NackRefused, Finish, Busy, Live, Over
      <4> QED
        BY <4>1, <4>2, <2>6 DEF Returns, Settling, NackRefused, Finish, Busy
    <3> QED
      BY <2>6, <3>1, <3>2 DEF Moved, CountInv, TypeOK, brokerVars, Returns, Settling
  <2>7. CASE Raises(h)
    <3>1. Current(h) \in Deliveries
      BY <2>7, CurrentIsDelivery DEF Raises, Busy
    <3>2. Moved
      <4>1. CASE Goto(h, "nack") /\ UNCHANGED inFlight
        BY <4>1, <2>7, <2>0 DEF Raises, Settling, NackRefused, Finish, Busy, Live, Over
      <4>2. CASE Goto(h, "failed") /\ inFlight' = inFlight - 1
        BY <4>2, <2>7, <2>0 DEF Raises, Settling, NackRefused, Finish, Busy, Live, Over
      <4> QED
        BY <4>1, <4>2, <2>7 DEF Raises, Settling, NackRefused, Finish, Busy
    <3> QED
      BY <2>7, <3>1, <3>2 DEF Moved, CountInv, TypeOK, brokerVars, Raises, Settling
  <2>8. CASE AckEnds(h)
    <3>1. Current(h) \in Deliveries
      BY <2>8, CurrentIsDelivery DEF AckEnds, Busy
    <3>2. Moved
      <4>1. CASE Goto(h, "publish") /\ UNCHANGED inFlight
        BY <4>1, <2>8, <2>0 DEF AckEnds, NackRefused, Finish, Busy, Live, Over
      <4>2. CASE Goto(h, "next") /\ inFlight' = inFlight - 1
        BY <4>2, <2>8, <2>0 DEF AckEnds, NackRefused, Finish, Busy, Live, Over
      <4>3. CASE Goto(h, "failed") /\ inFlight' = inFlight - 1
        BY <4>3, <2>8, <2>0 DEF AckEnds, NackRefused, Finish, Busy, Live, Over
      <4> QED
        BY <4>1, <4>2, <4>3, <2>8 DEF AckEnds, NackRefused, Finish, Busy
    <3> QED
      BY <2>8, <3>1, <3>2 DEF Moved, CountInv, TypeOK, brokerVars, AckEnds, Settles
  <2>9. CASE PublishEnds(h)
    <3>1. Current(h) \in Deliveries
      BY <2>9, CurrentIsDelivery DEF PublishEnds, Busy
    <3>2. Moved
      <4>1. CASE Goto(h, "next") /\ inFlight' = inFlight - 1
        BY <4>1, <2>9, <2>0 DEF PublishEnds, NackRefused, Finish, Busy, Live, Over
      <4>2. CASE Goto(h, "failed") /\ inFlight' = inFlight - 1
        BY <4>2, <2>9, <2>0 DEF PublishEnds, NackRefused, Finish, Busy, Live, Over
      <4> QED
        BY <4>1, <4>2, <2>9 DEF PublishEnds, NackRefused, Finish, Busy
    <3> QED
      BY <2>9, <3>1, <3>2 DEF Moved, CountInv, TypeOK, brokerVars, PublishEnds, Settles
  <2>10. CASE NackEnds(h)
    <3>1. Current(h) \in Deliveries
      BY <2>10, CurrentIsDelivery DEF NackEnds, Busy
    <3>2. Moved
      BY <2>10, <2>0 DEF NackEnds, Finish, Busy, Live, Over
    <3> QED
      BY <2>10, <3>1, <3>2 DEF Moved, CountInv, TypeOK, brokerVars, NackEnds, Settles
  <2>11. CASE Cancelled(h)
    <3>1. Moved
      <4>1. CASE hpc[h] \in Busy
        BY <4>1, <2>11, <2>0 DEF Cancelled, Finish, Busy, Live, Over
      <4>2. CASE hpc[h] \notin Busy
        BY <4>2, <2>11, <2>0 DEF Cancelled, Busy, Live, Over
      <4> QED
        BY <4>1, <4>2
    <3>2. hpc[h] \in Busy \cup {"refuse"} => Current(h) \in Deliveries
      BY CurrentIsDelivery
    <3> QED
      BY <2>11, <3>1, <3>2 DEF Moved, CountInv, TypeOK, Cancelled, Settles, Busy
  <2> QED
    BY <1>7, <2>1, <2>2, <2>3, <2>4, <2>5, <2>6, <2>7, <2>8, <2>9, <2>10, <2>11 DEF HandlerStep
<1> QED
  BY <1>2, <1>3, <1>4, <1>5, <1>6, <1>7 DEF Next

LEMMA CountInit == Init => CountInv
<1> SUFFICES ASSUME Init PROVE CountInv
  OBVIOUS
<1>1. TypeOK
  <2>1. 0 \in 0..MaxRuns /\ 0 \in 0..MaxDeliveries
    BY RouterAssumption
  <2>2. n \in [Handlers -> 0..MaxDeliveries] /\ closeRun \in [Closers -> 0..MaxRuns]
    BY <2>1 DEF Init
  <2> QED
    BY <2>1, <2>2 DEF Init, TypeOK
<1>4. Given /\ RunInv
  BY DEF Init, Given, RunInv, Busy
<1>2. {h \in Handlers : hpc[h] \in Busy} = {}
  BY DEF Init, Busy
<1>3. inFlight = Cardinality({h \in Handlers : hpc[h] \in Busy})
  BY <1>2, FS_EmptySet DEF Init
<1> QED
  BY <1>1, <1>3, <1>4 DEF CountInv, InFlightIsExact

LEMMA Counting == Spec => []CountInv
BY CountInit, CountStep, PTL DEF Spec

\* Every variable keeps its type: the in-flight counter of router.py:159 never goes
\* below zero, and no message is settled that the handler was not given.
THEOREM Typing == Spec => []TypeOK
<1>1. CountInv => TypeOK
  BY DEF CountInv
<1> QED
  BY <1>1, Counting, PTL

\* The counter that close() polls is exact whatever the number of handlers, closers,
\* messages and runs.
THEOREM InFlightExact == Spec => []InFlightIsExact
<1>1. CountInv => InFlightIsExact
  BY DEF CountInv
<1> QED
  BY <1>1, Counting, PTL

-----------------------------------------------------------------------------
(* A drained close cuts nothing                                            *)

\* A close() that waits for the run under way has marked it as closing, and a run that
\* close() found drained stays so: what it refuses never becomes busy again.
DrainInv ==
    /\ scope = "active" => cut = {}
    /\ \A c \in Closers : closeRun[c] <= runs
    /\ \A c \in Closers : cpc[c] = "waiting" /\ closeRun[c] = runs /\ running => closing
    /\ cause = "drained" =>
          /\ cut = {}
          /\ running => closing /\ scope = "cancelled" /\ \A h \in Handlers : hpc[h] \notin Busy

LEMMA NothingInFlight ==
    ASSUME CountInv, ~Pending
    PROVE  \A h \in Handlers : hpc[h] \notin Busy
<1> DEFINE B == {h \in Handlers : hpc[h] \in Busy}
<1>1. inFlight = 0 /\ inFlight = Cardinality(B)
  BY DEF CountInv, TypeOK, InFlightIsExact, Pending
<1>2. IsFiniteSet(B)
  BY RouterAssumption, FS_Subset
<1>3. B = {}
  BY <1>1, <1>2, FS_EmptySet
<1> QED
  BY <1>3

\* While the router is closing no task becomes busy, and only a busy one is cut.
LEMMA ClosingTasks ==
    ASSUME CountInv, NEW h \in Handlers, HandlerStep(h)
    PROVE  /\ UNCHANGED <<running, closing, scope, cpc, runs, closeRun, cause>>
           /\ running
           /\ closing => \A x \in Handlers : hpc'[x] \in Busy => hpc[x] \in Busy
           /\ cut' = cut \/ (scope = "cancelled" /\ hpc[h] \in Busy)
<1>1. UNCHANGED <<running, closing, scope, cpc, runs, closeRun, cause>>
  BY DEF HandlerStep, Accept, Refuse, RefuseEnds, SubscriptionEnds, SelfAck, Returns, Raises,
         AckEnds, PublishEnds, NackEnds, Cancelled, brokerVars
<1>2. hpc[h] # "off"
  BY DEF HandlerStep, Accept, Refuse, RefuseEnds, SubscriptionEnds, SelfAck, Returns, Raises,
         AckEnds, PublishEnds, NackEnds, Cancelled, Live, Busy
<1>3. running
  BY <1>2 DEF CountInv, RunInv
<1>4. cut' = cut \/ (scope = "cancelled" /\ hpc[h] \in Busy)
  BY DEF HandlerStep, Accept, Refuse, RefuseEnds, SubscriptionEnds, SelfAck, Returns, Raises,
         AckEnds, PublishEnds, NackEnds, Cancelled
<1>5. ASSUME closing PROVE hpc[h] \notin Busy => hpc'[h] \notin Busy
  BY <1>5 DEF CountInv, TypeOK, HandlerStep, Accept, Refuse, RefuseEnds, SubscriptionEnds,
              SelfAck, Returns, Raises, AckEnds, PublishEnds, NackEnds, Cancelled, Goto, Busy
<1>6. \A x \in Handlers \ {h} : hpc'[x] = hpc[x]
  BY DEF CountInv, TypeOK, HandlerStep, Accept, Refuse, RefuseEnds, SubscriptionEnds, SelfAck,
         Returns, Raises, Settling, AckEnds, PublishEnds, NackEnds, Cancelled, NackRefused,
         Finish, Goto
<1> QED
  BY <1>1, <1>3, <1>4, <1>5, <1>6

LEMMA DrainStep == CountInv /\ DrainInv /\ [Next]_vars => DrainInv'
<1> SUFFICES ASSUME CountInv, DrainInv, [Next]_vars
             PROVE  DrainInv'
  OBVIOUS
<1>1. CASE UNCHANGED vars
  BY <1>1 DEF DrainInv, vars, taskVars
<1>2. CASE Run
  <2>1. \A c \in Closers : closeRun[c] \in Nat /\ closeRun'[c] = closeRun[c]
    BY <1>2, RouterAssumption DEF Run, CountInv, TypeOK
  <2>2. runs \in Nat /\ runs' = runs + 1
    BY <1>2, RouterAssumption DEF Run, CountInv, TypeOK
  <2>3. \A c \in Closers : closeRun'[c] <= runs' /\ closeRun'[c] # runs'
    BY <2>1, <2>2 DEF DrainInv
  <2> QED
    BY <1>2, <2>3 DEF DrainInv, Run
<1>3. CASE RunEnds
  BY <1>3 DEF DrainInv, RunEnds
<1>4. CASE FailureCancels \/ CancelRun
  BY <1>4 DEF DrainInv, FailureCancels, CancelRun, CancelBecause, CountInv, RunInv
<1>5. ASSUME NEW c \in Closers, CloseStep(c)
      PROVE  DrainInv'
  <2>1. runs \in Int /\ runs' = runs /\ hpc' = hpc /\ cut' = cut /\ running' = running
    BY <1>5 DEF CountInv, TypeOK, CloseStep, CloseNotRunning, Close, CloseDrained, CloseTimesOut
  <2>2. \A x \in Closers : closeRun'[x] <= runs'
    BY <1>5, <2>1 DEF DrainInv, CountInv, TypeOK, CloseStep, CloseNotRunning, Close,
                      CloseDrained, CloseTimesOut
  <2>3. \A x \in Closers : cpc'[x] = "waiting" /\ closeRun'[x] = runs' /\ running' => closing'
    BY <1>5, <2>1 DEF DrainInv, CountInv, TypeOK, CloseStep, CloseNotRunning, Close,
                      CloseDrained, CloseTimesOut, CancelScope
  <2>4. scope' = "active" => scope = "active"
    BY <1>5 DEF CloseStep, CloseNotRunning, Close, CloseDrained, CloseTimesOut, CancelScope,
                CancelBecause
  <2>5. closing => closing'
    BY <1>5 DEF CloseStep, CloseNotRunning, Close, CloseDrained, CloseTimesOut
  <2>6. CASE UNCHANGED <<cause, scope>>
    BY <2>1, <2>2, <2>3, <2>5, <2>6 DEF DrainInv
  <2>7. CASE ~UNCHANGED <<cause, scope>>
    <3>1. scope = "active" /\ scope' = "cancelled"
      BY <1>5, <2>7 DEF CloseStep, CloseNotRunning, Close, CloseDrained, CloseTimesOut,
                        CancelScope, CancelBecause
    <3>2. running
      BY <3>1 DEF CountInv, RunInv
    <3>3. cause' = "drained" => closing' /\ ~Pending
      <4>1. CASE Close(c)
        BY <4>1, <2>7 DEF Close
      <4>2. CASE CloseDrained(c)
        BY <4>2, <3>1, <3>2 DEF DrainInv, CloseDrained, CancelScope, CancelBecause
      <4>3. CASE CloseTimesOut(c) \/ CloseNotRunning(c)
        BY <4>3, <2>7, <3>1, <3>2
           DEF CloseTimesOut, CloseNotRunning, CancelScope, CancelBecause
      <4> QED
        BY <1>5, <4>1, <4>2, <4>3 DEF CloseStep
    <3>4. cause' = "drained" => \A h \in Handlers : hpc[h] \notin Busy
      BY <3>3, NothingInFlight
    <3> QED
      BY <2>1, <2>2, <2>3, <3>1, <3>3, <3>4 DEF DrainInv
  <2> QED
    BY <2>6, <2>7
<1>6. ASSUME NEW h \in Handlers, HandlerStep(h)
      PROVE  DrainInv'
  BY <1>6, ClosingTasks DEF DrainInv
<1> QED
  BY <1>1, <1>2, <1>3, <1>4, <1>5, <1>6 DEF Next

\* A run that a close() of its own cancels because nothing is in flight had no handler
\* at work: the drain of router.py:124 keeps what its docstring says, for any number of
\* handlers, closers and restarts.
THEOREM DrainedIsClean == Spec => []DrainedCloseCutsNothing
<1>1. Init => DrainInv
  BY DEF Init, DrainInv
<1>2. CountInv /\ DrainInv => DrainedCloseCutsNothing
  BY DEF DrainInv, DrainedCloseCutsNothing
<1> QED
  BY <1>1, <1>2, Counting, DrainStep, PTL DEF Spec

-----------------------------------------------------------------------------
(* Router implements Settlement: for every handler that leaves the         *)
(* settlement to the router, each step of the router is a step of the      *)
(* protocol of one delivery, or none.                                      *)

\* What the broker knows of the deliveries to h that the task of h relies on: the function
\* runs on a fresh message, an ack is sent for a handled delivery and a nack for one that
\* is not, nothing is settled before it is delivered.
SettleOf(h) ==
    /\ hpc[h] = "call" => flag[h] = "fresh"
    /\ hpc[h] \in {"call", "nack", "refuse"} => Current(h) \notin handled \cup ackd \cup nackd
    /\ hpc[h] = "ack" => Current(h) \in handled /\ Current(h) \notin ackd \cup nackd
    /\ \A i \in 1..MaxDeliveries :
          /\ i > n[h] => <<h, i>> \notin handled \cup ackd \cup nackd
          /\ <<h, i>> \in ackd => <<h, i>> \in handled
          /\ <<h, i>> \in handled => <<h, i>> \notin nackd

SettleInv == \A h \in Handlers \ SelfAcking : SettleOf(h)

\* A step of one task leaves the others alone, and settles nothing but its own current
\* delivery.
LEMMA Frame ==
    ASSUME CountInv, NEW h \in Handlers, HandlerStep(h)
    PROVE  /\ \A x \in Handlers \ {h} : hpc'[x] = hpc[x] /\ n'[x] = n[x] /\ flag'[x] = flag[x]
           /\ \A d : d # <<h, n'[h]>> => /\ d \in handled' <=> d \in handled
                                         /\ d \in ackd' <=> d \in ackd
                                         /\ d \in nackd' <=> d \in nackd
           /\ \/ n'[h] = n[h]
              \/ n'[h] = n[h] + 1 /\ hpc[h] = "next"
<1>1. \A x \in Handlers \ {h} : hpc'[x] = hpc[x]
  BY DEF CountInv, TypeOK, HandlerStep, Accept, Refuse, RefuseEnds, SubscriptionEnds, SelfAck,
         Returns, Raises, Settling, AckEnds, PublishEnds, NackEnds, Cancelled, NackRefused,
         Finish, Goto
<1>2. \A x \in Handlers \ {h} : n'[x] = n[x] /\ flag'[x] = flag[x]
  BY DEF CountInv, TypeOK, HandlerStep, Accept, Refuse, RefuseEnds, SubscriptionEnds, SelfAck,
         Returns, Raises, Settling, AckEnds, PublishEnds, NackEnds, Cancelled
<1>3. n'[h] = n[h] \/ (n'[h] = n[h] + 1 /\ hpc[h] = "next" /\ UNCHANGED brokerVars)
  BY DEF CountInv, TypeOK, HandlerStep, Accept, Refuse, RefuseEnds, SubscriptionEnds, SelfAck,
         Returns, Raises, AckEnds, PublishEnds, NackEnds, Cancelled
<1>4. \/ UNCHANGED brokerVars
      \/ /\ handled' \in {handled, handled \cup {Current(h)}}
         /\ ackd' \in {ackd, ackd \cup {Current(h)}}
         /\ nackd' \in {nackd, nackd \cup {Current(h)}}
         /\ n' = n
  BY DEF HandlerStep, Accept, Refuse, RefuseEnds, SubscriptionEnds, SelfAck, Returns, Raises,
         AckEnds, PublishEnds, NackEnds, Cancelled, Settles, brokerVars
<1>5. \A d : d # <<h, n'[h]>> => /\ d \in handled' <=> d \in handled
                                 /\ d \in ackd' <=> d \in ackd
                                 /\ d \in nackd' <=> d \in nackd
  BY <1>4 DEF Current, brokerVars
<1> QED
  BY <1>1, <1>2, <1>3, <1>5

LEMMA SettleStep == CountInv /\ SettleInv /\ [Next]_vars => SettleInv'
<1> SUFFICES ASSUME CountInv, SettleInv, [Next]_vars
             PROVE  SettleInv'
  OBVIOUS
<1>1. ASSUME UNCHANGED <<flag, n, brokerVars>>,
             \A h \in Handlers : hpc'[h] = hpc[h] \/ hpc'[h] \in {"off", "next"}
      PROVE  SettleInv'
  BY <1>1 DEF SettleInv, SettleOf, Current, brokerVars
<1>2. CASE UNCHANGED vars
  BY <1>1, <1>2 DEF vars, taskVars
<1>3. CASE Run
  BY <1>1, <1>3 DEF Run
<1>4. CASE RunEnds
  BY <1>1, <1>4 DEF RunEnds
<1>5. CASE FailureCancels \/ CancelRun
  BY <1>1, <1>5 DEF FailureCancels, CancelRun
<1>6. ASSUME NEW c \in Closers, CloseStep(c)
      PROVE  SettleInv'
  BY <1>1, <1>6 DEF CloseStep, CloseNotRunning, Close, CloseDrained, CloseTimesOut
<1>7. ASSUME NEW h \in Handlers, HandlerStep(h)
      PROVE  SettleInv'
  <2>1. ASSUME NEW x \in Handlers \ SelfAcking, x # h
        PROVE  SettleOf(x)'
    BY <1>7, <2>1, Frame DEF SettleInv, SettleOf, Current
  <2>2. ASSUME h \notin SelfAcking
        PROVE  SettleOf(h)'
    <3>1. SettleOf(h) /\ n \in [Handlers -> 0..MaxDeliveries]
      BY <2>2 DEF SettleInv, CountInv, TypeOK
    <3>2. hpc \in [Handlers -> Live \cup Over \cup {"off"}] /\ hpc[h] \in Live
          /\ flag \in [Handlers -> {"fresh", "acked", "nacked"}]
      BY <1>7 DEF CountInv, TypeOK, HandlerStep, Accept, Refuse, RefuseEnds, SubscriptionEnds,
                  SelfAck, Returns, Raises, AckEnds, PublishEnds, NackEnds, Cancelled, Live, Busy
    <3>3. CASE Accept(h) \/ Refuse(h)
      <4>1. n'[h] = n[h] + 1 /\ n[h] \in Nat /\ n'[h] \in 1..MaxDeliveries
        BY <3>1, <3>3, RouterAssumption DEF Accept, Refuse
      <4>2. <<h, n'[h]>> \notin handled \cup ackd \cup nackd
        BY <3>1, <4>1 DEF SettleOf
      <4>3. UNCHANGED brokerVars /\ hpc'[h] \in {"call", "refuse"}
            /\ (hpc'[h] = "call" => flag'[h] = "fresh")
        BY <3>2, <3>3 DEF Accept, Refuse, Goto
      <4> QED
        BY <3>1, <4>1, <4>2, <4>3 DEF SettleOf, Current, brokerVars
    <3>4. CASE SubscriptionEnds(h) \/ PublishEnds(h)
      <4>1. hpc'[h] \in {"ended", "failed", "next"} /\ UNCHANGED <<n, flag, handled, ackd, nackd>>
        BY <3>2, <3>4
           DEF SubscriptionEnds, PublishEnds, Goto, NackRefused, Finish, brokerVars
      <4> QED
        BY <3>1, <4>1 DEF SettleOf, Current
    <3>5. CASE Raises(h)
      <4>1. hpc[h] = "call" /\ hpc'[h] = "nack" /\ UNCHANGED <<n, handled, ackd, nackd>>
        BY <3>1, <3>2, <3>5 DEF Raises, Settling, SettleOf, Goto, brokerVars
      <4> QED
        BY <3>1, <4>1 DEF SettleOf, Current
    <3>6. CASE Returns(h)
      <4>1. hpc[h] = "call" /\ hpc'[h] = "ack" /\ UNCHANGED <<n, ackd, nackd>>
            /\ handled' = handled \cup {Current(h)}
        BY <3>1, <3>2, <3>6 DEF Returns, Settling, SettleOf, Goto, brokerVars
      <4> QED
        BY <3>1, <4>1 DEF SettleOf, Current
    <3>7. CASE AckEnds(h)
      <4>1. hpc[h] = "ack" /\ hpc'[h] \in {"publish", "next", "failed"}
            /\ UNCHANGED <<n, handled, nackd>> /\ ackd' \in {ackd, ackd \cup {Current(h)}}
        BY <3>2, <3>7 DEF AckEnds, Goto, Finish, NackRefused, Settles
      <4> QED
        BY <3>1, <4>1 DEF SettleOf, Current
    <3>8. CASE RefuseEnds(h) \/ NackEnds(h)
      <4>1. hpc[h] \in {"refuse", "nack"} /\ hpc'[h] \in {"ended", "failed"}
            /\ UNCHANGED <<n, handled, ackd>> /\ nackd' \in {nackd, nackd \cup {Current(h)}}
        BY <3>2, <3>8 DEF RefuseEnds, NackEnds, Goto, Finish, Settles
      <4> QED
        BY <3>1, <4>1 DEF SettleOf, Current
    <3>9. CASE Cancelled(h)
      <4>1. hpc'[h] = "cancelled" /\ UNCHANGED <<n, handled>>
            /\ ackd' \in {ackd, ackd \cup {Current(h)}} /\ (ackd' # ackd => hpc[h] = "ack")
            /\ nackd' \in {nackd, nackd \cup {Current(h)}}
            /\ (nackd' # nackd => hpc[h] \in {"nack", "refuse"})
        BY <3>2, <3>9 DEF Cancelled, Goto, Finish, Settles
      <4> QED
        BY <3>1, <4>1 DEF SettleOf, Current
    <3> QED
      BY <1>7, <2>2, <3>3, <3>4, <3>5, <3>6, <3>7, <3>8, <3>9 DEF HandlerStep, SelfAck
  <2> QED
    BY <2>1, <2>2 DEF SettleInv
<1> QED
  BY <1>2, <1>3, <1>4, <1>5, <1>6, <1>7 DEF Next

-----------------------------------------------------------------------------
(* Every step is a step of the protocol                                    *)

LEMMA SameAt ==
    ASSUME NEW d \in Managed, d \in ackd' <=> d \in ackd, d \in nackd' <=> d \in nackd,
           d \in handled' <=> d \in handled, Taken(d)' <=> Taken(d)
    PROVE  DeliveryState'[d] = DeliveryState[d]
BY DEF DeliveryState

Protocol == {<<"pending", "taken">>, <<"taken", "handled">>, <<"handled", "acked">>,
             <<"taken", "returned">>, <<"pending", "returned">>}

\* A step that moves one delivery along the protocol, or none, implements Settlement.
LEMMA MovesOne ==
    ASSUME NEW e \in Managed,
           \A d \in Managed : d # e => DeliveryState'[d] = DeliveryState[d],
           DeliveryState'[e] = DeliveryState[e] \/ <<DeliveryState[e], DeliveryState'[e]>> \in Protocol
    PROVE  [Settled!Next]_DeliveryState
<1>1. DeliveryState = [d \in Managed |-> DeliveryState[d]]
  BY DEF DeliveryState
<1>2. DeliveryState' = [d \in Managed |-> DeliveryState'[d]]
  BY DEF DeliveryState
<1>3. DeliveryState' = [DeliveryState EXCEPT ![e] = DeliveryState'[e]]
  BY <1>1, <1>2
<1>4. CASE DeliveryState'[e] = DeliveryState[e]
  <2>1. DeliveryState' = DeliveryState
    BY <1>1, <1>2, <1>4
  <2> QED
    BY <2>1
<1>5. CASE <<DeliveryState[e], DeliveryState'[e]>> \in Protocol
  <2>1. Settled!Take(e) \/ Settled!Handle(e) \/ Settled!Ack(e) \/ Settled!Return(e)
        \/ Settled!Refuse(e)
    BY <1>3, <1>5 DEF Protocol, Settled!Take, Settled!Handle, Settled!Ack, Settled!Return,
                      Settled!Refuse, Settled!Move
  <2> QED
    BY <2>1 DEF Settled!Next
<1> QED
  BY <1>4, <1>5

LEMMA NothingMoves ==
    ASSUME \A d \in Managed : DeliveryState'[d] = DeliveryState[d]
    PROVE  UNCHANGED DeliveryState
<1>1. DeliveryState = [d \in Managed |-> DeliveryState[d]]
  BY DEF DeliveryState
<1>2. DeliveryState' = [d \in Managed |-> DeliveryState'[d]]
  BY DEF DeliveryState
<1> QED
  BY <1>1, <1>2

\* The task of h changes the state of its current delivery only.
LEMMA OthersStay ==
    ASSUME CountInv, NEW h \in Handlers, HandlerStep(h), NEW d \in Managed, d # <<h, n'[h]>>
    PROVE  DeliveryState'[d] = DeliveryState[d]
<1>1. PICK x \in Handlers, i \in 1..MaxDeliveries : d = <<x, i>>
  BY DEF Managed
<1>2. n[h] \in Nat /\ i \in Nat
  BY <1>1, RouterAssumption DEF CountInv, TypeOK
<1>3. Taken(d)' <=> Taken(d)
  BY <1>1, <1>2, Frame DEF Taken
<1> QED
  BY <1>3, Frame, SameAt

LEMMA RefinementStep == CountInv /\ SettleInv /\ CountInv' /\ [Next]_vars => [Settled!Next]_DeliveryState
<1> SUFFICES ASSUME CountInv, SettleInv, CountInv', [Next]_vars
             PROVE  [Settled!Next]_DeliveryState
  OBVIOUS
<1>1. ASSUME UNCHANGED <<n, brokerVars>>,
             \A h \in Handlers : hpc'[h] = "refuse" <=> hpc[h] = "refuse"
      PROVE  [Settled!Next]_DeliveryState
  <2>1. ASSUME NEW d \in Managed PROVE DeliveryState'[d] = DeliveryState[d]
    <3>1. d[1] \in Handlers
      BY DEF Managed
    <3> QED
      BY <1>1, <3>1, SameAt DEF Taken, brokerVars
  <2> QED
    BY <2>1, NothingMoves
<1>2. CASE UNCHANGED vars
  BY <1>1, <1>2 DEF vars, taskVars
<1>3. CASE Run
  BY <1>1, <1>3 DEF Run, CountInv, RunInv
<1>4. CASE RunEnds
  BY <1>1, <1>4 DEF RunEnds, Over
<1>5. CASE FailureCancels \/ CancelRun
  BY <1>1, <1>5 DEF FailureCancels, CancelRun
<1>6. ASSUME NEW c \in Closers, CloseStep(c)
      PROVE  [Settled!Next]_DeliveryState
  BY <1>1, <1>6 DEF CloseStep, CloseNotRunning, Close, CloseDrained, CloseTimesOut
<1>7. ASSUME NEW h \in Handlers, HandlerStep(h)
      PROVE  [Settled!Next]_DeliveryState
  <2> DEFINE e == <<h, n'[h]>>
  <2>1. CASE e \notin Managed
    <3>1. \A d \in Managed : DeliveryState'[d] = DeliveryState[d]
      BY <1>7, <2>1, OthersStay
    <3> QED
      BY <3>1, NothingMoves
  <2>2. CASE e \in Managed
    <3>1. h \notin SelfAcking /\ n'[h] \in 1..MaxDeliveries /\ SettleOf(h)
      BY <2>2 DEF Managed, SettleInv
    <3>2. /\ hpc \in [Handlers -> Live \cup Over \cup {"off"}]
          /\ n \in [Handlers -> 0..MaxDeliveries] /\ n[h] \in Nat /\ n'[h] \in Nat
      BY <3>1, RouterAssumption DEF CountInv, TypeOK
    <3> DEFINE from == DeliveryState[e]
               to == DeliveryState'[e]
    <3>3. /\ from = IF e \in ackd \cap nackd THEN "settled twice"
                    ELSE IF e \in ackd THEN "acked"
                    ELSE IF e \in nackd THEN "returned"
                    ELSE IF e \in handled THEN "handled"
                    ELSE IF Taken(e) THEN "taken" ELSE "pending"
          /\ to = IF e \in ackd' \cap nackd' THEN "settled twice"
                  ELSE IF e \in ackd' THEN "acked"
                  ELSE IF e \in nackd' THEN "returned"
                  ELSE IF e \in handled' THEN "handled"
                  ELSE IF n'[h] >= n'[h] /\ ~(n'[h] = n'[h] /\ hpc'[h] = "refuse")
                  THEN "taken" ELSE "pending"
      BY <2>2 DEF DeliveryState, Taken
    <3>4. Taken(e) <=> n[h] >= n'[h] /\ ~(n[h] = n'[h] /\ hpc[h] = "refuse")
      BY DEF Taken
    <3>5. to = from \/ <<from, to>> \in Protocol
      <4> HIDE DEF from, to
      <4>1. CASE Accept(h) \/ Refuse(h)
        <5>1. n'[h] = n[h] + 1 /\ e \notin handled \cup ackd \cup nackd /\ UNCHANGED brokerVars
          BY <4>1, <3>1, <3>2 DEF Accept, Refuse, SettleOf
        <5>2. ~Taken(e)
          BY <5>1, <3>2, <3>4
        <5>3. from = "pending" /\ to \in {"pending", "taken"}
          BY <5>1, <5>2, <3>3 DEF brokerVars
        <5> QED
          BY <5>3 DEF Protocol
      <4>2. CASE SubscriptionEnds(h) \/ PublishEnds(h) \/ Raises(h)
        <5>1. n' = n /\ UNCHANGED <<handled, ackd, nackd>>
              /\ hpc[h] # "refuse" /\ hpc'[h] # "refuse"
          BY <4>2, <3>2 DEF SubscriptionEnds, PublishEnds, Raises, Settling, Goto, NackRefused,
                            Finish, brokerVars
        <5> QED
          BY <5>1, <3>3, <3>4
      <4>3. CASE Returns(h)
        <5>1. n' = n /\ handled' = handled \cup {e} /\ UNCHANGED <<ackd, nackd>>
              /\ hpc[h] = "call" /\ e = Current(h)
          BY <4>3 DEF Returns, Current
        <5>2. e \notin handled \cup ackd \cup nackd
          BY <5>1, <3>1 DEF SettleOf
        <5>3. Taken(e)
          BY <5>1, <3>2, <3>4
        <5>4. from = "taken" /\ to = "handled"
          BY <5>1, <5>2, <5>3, <3>3
        <5> QED
          BY <5>4 DEF Protocol
      <4>4. CASE AckEnds(h)
        <5>1. n' = n /\ ackd' \in {ackd, ackd \cup {e}} /\ UNCHANGED <<handled, nackd>>
              /\ hpc[h] = "ack" /\ e = Current(h)
          BY <4>4 DEF AckEnds, Settles, Current
        <5>2. e \in handled /\ e \notin ackd \cup nackd
          BY <5>1, <3>1 DEF SettleOf
        <5> QED
          BY <5>1, <5>2, <3>3 DEF Protocol
      <4>5. CASE RefuseEnds(h) \/ NackEnds(h)
        <5>1. n' = n /\ nackd' \in {nackd, nackd \cup {e}} /\ UNCHANGED <<handled, ackd>>
              /\ hpc[h] \in {"refuse", "nack"} /\ hpc'[h] # "refuse" /\ e = Current(h)
          BY <4>5, <3>2 DEF RefuseEnds, NackEnds, Settles, Current, Goto, Finish
        <5>2. e \notin handled \cup ackd \cup nackd
          BY <5>1, <3>1 DEF SettleOf
        <5> QED
          BY <5>1, <5>2, <3>2, <3>3, <3>4 DEF Protocol
      <4>6. CASE Cancelled(h)
        <5>1. n' = n /\ UNCHANGED handled /\ hpc'[h] # "refuse" /\ e = Current(h)
              /\ ackd' \in {ackd, ackd \cup {e}} /\ (ackd' # ackd => hpc[h] = "ack")
              /\ nackd' \in {nackd, nackd \cup {e}}
              /\ (nackd' # nackd => hpc[h] \in {"nack", "refuse"})
          BY <4>6, <3>2 DEF Cancelled, Settles, Current, Goto, Finish
        <5>2. /\ hpc[h] = "ack" => e \in handled /\ e \notin ackd \cup nackd
              /\ hpc[h] \in {"nack", "refuse"} => e \notin handled \cup ackd \cup nackd
          BY <5>1, <3>1 DEF SettleOf
        <5> QED
          BY <5>1, <5>2, <3>2, <3>3, <3>4 DEF Protocol
      <4> QED
        BY <1>7, <3>1, <4>1, <4>2, <4>3, <4>4, <4>5, <4>6 DEF HandlerStep, SelfAck
    <3>6. \A d \in Managed : d # e => DeliveryState'[d] = DeliveryState[d]
      BY <1>7, OthersStay
    <3> QED
      BY <2>2, <3>5, <3>6, MovesOne
  <2> QED
    BY <2>1, <2>2
<1> QED
  BY <1>2, <1>3, <1>4, <1>5, <1>6, <1>7 DEF Next

\* A delivery is acknowledged only after its function returned, returned to the broker
\* only if it did not, and settled once: whatever fails in the broker, whoever closes or
\* cancels, and however often run() is called.
THEOREM Implementation == Spec => SettlesOnce
<1>1. Init => SettleInv
  BY RouterAssumption DEF Init, SettleInv, SettleOf
<1>2. Init => Settled!Init
  <2> SUFFICES ASSUME Init PROVE Settled!Init
    OBVIOUS
  <2>1. ASSUME NEW d \in Managed PROVE ~Taken(d) /\ d \notin ackd \cup nackd \cup handled
    <3>1. d[1] \in Handlers /\ d[2] \in 1..MaxDeliveries
      BY DEF Managed
    <3> QED
      BY <3>1 DEF Init, Taken
  <2> QED
    BY <2>1 DEF DeliveryState, Settled!Init
<1> QED
  BY <1>1, <1>2, CountInit, CountStep, SettleStep, RefinementStep, PTL
     DEF Spec, SettlesOnce, Settled!Spec
=============================================================================
