------------------------------- MODULE Router -------------------------------
(***************************************************************************)
(* Router (natricine/router/router.py): run() starts one task per handler  *)
(* in a task group; each task takes messages from its subscription, calls  *)
(* the handler function, acknowledges the message and publishes what the   *)
(* function returned.  close() stops a run: it refuses new messages, waits *)
(* until nothing is in flight or a timeout elapses, and cancels the group. *)
(*                                                                         *)
(* A step is what a task does between two suspensions.  The subscriptions, *)
(* the handler functions and the broker behind ack, nack and publish are   *)
(* external: they answer, or fail, when they like.                         *)
(***************************************************************************)
EXTENDS Integers, FiniteSets

CONSTANTS
    Handlers,       \* the handlers registered with add_handler()
    Publishing,     \* those with a publisher and a publish topic
    SelfAcking,     \* those whose function acknowledges the message itself
    Faulty,         \* those whose subscription or broker may raise
    Closers,        \* calls of close()
    MaxDeliveries,  \* bound on the messages each handler is given
    MaxRuns         \* bound on the calls of run()

ASSUME RouterAssumption ==
    /\ IsFiniteSet(Handlers)
    /\ Publishing \subseteq Handlers /\ SelfAcking \subseteq Handlers /\ Faulty \subseteq Handlers
    /\ MaxDeliveries \in Nat /\ MaxRuns \in Nat

VARIABLES
    running, closing,  \* _running, _closing
    inFlight,          \* _in_flight
    scope,             \* _cancel_scope: none outside a run, active or cancelled in one
    hpc,               \* handler -> where its task stands
    flag,              \* handler -> _acked and _nacked of its current message
    cpc,               \* closer -> where close() stands
    n,                 \* history: handler -> messages it was given
    handled, ackd, nackd, published,  \* history: the deliveries <<handler, number>> for which
                       \* the function returned and the broker got the ack, nack, outputs
    runs,              \* history: calls of run() so far
    closeRun,          \* history: closer -> the run that it closes
    cause,             \* history: what cancelled the scope of this run
    cut                \* history: handlers cancelled in this run while processing

taskVars == <<running, closing, inFlight, scope, hpc, flag, cpc>>
brokerVars == <<handled, ackd, nackd, published>>
vars == <<taskVars, n, brokerVars, runs, closeRun, cause, cut>>

Busy == {"call",     \* in the handler function
         "ack",      \* suspended in the broker's ack
         "publish",  \* suspended in publish() of the outputs
         "nack"}     \* suspended in the broker's nack
Live == Busy \cup {"next",    \* waiting for a message
                   "refuse"}  \* returning a message that came while closing
Over == {"ended", "failed", "cancelled"}

Deliveries == Handlers \X (1..MaxDeliveries)
Current(h) == <<h, n[h]>>

TypeOK ==
    /\ running \in BOOLEAN /\ closing \in BOOLEAN
    /\ inFlight \in Nat
    /\ scope \in {"none", "active", "cancelled"}
    /\ hpc \in [Handlers -> Live \cup Over \cup {"off"}]
    /\ flag \in [Handlers -> {"fresh", "acked", "nacked"}]
    /\ cpc \in [Closers -> {"idle", "waiting", "done"}]
    /\ n \in [Handlers -> 0..MaxDeliveries]
    /\ handled \subseteq Deliveries /\ ackd \subseteq Deliveries
    /\ nackd \subseteq Deliveries /\ published \subseteq Deliveries
    /\ runs \in 0..MaxRuns
    /\ closeRun \in [Closers -> 0..MaxRuns]
    /\ cause \in {"none", "failure", "outside", "timeout", "drained", "stale"}
    /\ cut \subseteq Handlers

Init ==
    /\ running = FALSE /\ closing = FALSE /\ inFlight = 0 /\ scope = "none"
    /\ hpc = [h \in Handlers |-> "off"] /\ flag = [h \in Handlers |-> "fresh"]
    /\ cpc = [c \in Closers |-> "idle"]
    /\ n = [h \in Handlers |-> 0]
    /\ handled = {} /\ ackd = {} /\ nackd = {} /\ published = {}
    /\ runs = 0 /\ closeRun = [c \in Closers |-> 0]
    /\ cause = "none" /\ cut = {}

-----------------------------------------------------------------------------
(* run()                                                                   *)

Run ==
    /\ ~running /\ runs < MaxRuns
    /\ running' = TRUE /\ closing' = FALSE
    /\ scope' = "active"
    /\ hpc' = [h \in Handlers |-> "next"]
    /\ runs' = runs + 1 /\ cause' = "none" /\ cut' = {}
    /\ UNCHANGED <<inFlight, flag, cpc, n, brokerVars, closeRun>>

\* The task group has seen every task end; run() returns or raises.
RunEnds ==
    /\ running /\ \A h \in Handlers : hpc[h] \in Over
    /\ running' = FALSE /\ closing' = FALSE /\ scope' = "none"
    /\ hpc' = [h \in Handlers |-> "off"]
    /\ UNCHANGED <<inFlight, flag, cpc, n, brokerVars, runs, closeRun, cause, cut>>

CancelBecause(why) ==
    /\ scope' = IF scope = "active" THEN "cancelled" ELSE scope
    /\ cause' = IF scope = "active" THEN why ELSE cause

\* A task that raised makes the task group cancel the others.
FailureCancels ==
    /\ scope = "active" /\ \E h \in Handlers : hpc[h] = "failed"
    /\ CancelBecause("failure")
    /\ UNCHANGED <<running, closing, inFlight, hpc, flag, cpc, n, brokerVars, runs, closeRun, cut>>

\* The task that called run() is cancelled.
CancelRun ==
    /\ scope = "active"
    /\ CancelBecause("outside")
    /\ UNCHANGED <<running, closing, inFlight, hpc, flag, cpc, n, brokerVars, runs, closeRun, cut>>

-----------------------------------------------------------------------------
(* _run_handler()                                                          *)

Goto(h, next) == hpc' = [hpc EXCEPT ![h] = next]

\* The finally clause: leave the message for the next one, or end the task.
FinishUncounted(h, next) == Goto(h, next) /\ UNCHANGED inFlight  \* mutant: no finally
Finish(h, next) == Goto(h, next) /\ inFlight' = inFlight - 1

NotCounted == UNCHANGED inFlight  \* mutant: accepted without being counted
Counted == inFlight' = inFlight + 1

Accept(h) ==
    /\ hpc[h] = "next" /\ n[h] < MaxDeliveries /\ ~closing
    /\ n' = [n EXCEPT ![h] = @ + 1]
    /\ flag' = [flag EXCEPT ![h] = "fresh"]
    /\ Counted
    /\ Goto(h, "call")
    /\ UNCHANGED <<running, closing, scope, cpc, brokerVars, runs, closeRun, cause, cut>>

Refuse(h) ==
    /\ hpc[h] = "next" /\ n[h] < MaxDeliveries /\ closing
    /\ n' = [n EXCEPT ![h] = @ + 1]
    /\ flag' = [flag EXCEPT ![h] = "nacked"]
    /\ Goto(h, "refuse")
    /\ UNCHANGED <<running, closing, inFlight, scope, cpc, brokerVars, runs, closeRun, cause, cut>>

\* The broker's ack, nack or publish has ended: it took effect, or it may have raised
\* before or after it did.
Answers(h, done, ok) == (ok => done) /\ (~ok => h \in Faulty)
Settles(h, set, done) == set' = IF done THEN set \cup {Current(h)} ELSE set

RefuseEnds(h) == \E done, ok \in BOOLEAN :
    /\ hpc[h] = "refuse" /\ Answers(h, done, ok)
    /\ Settles(h, nackd, done)
    /\ Goto(h, IF ok THEN "ended" ELSE "failed")
    /\ UNCHANGED <<running, closing, inFlight, scope, flag, cpc, n, handled, ackd, published,
                   runs, closeRun, cause, cut>>

\* The iteration over the subscription ends or raises.
SubscriptionEnds(h) ==
    /\ hpc[h] = "next"
    /\ \/ Goto(h, "ended")
       \/ h \in Faulty /\ Goto(h, "failed")
    /\ UNCHANGED <<running, closing, inFlight, scope, flag, cpc, n, brokerVars, runs, closeRun,
                   cause, cut>>

\* The handler function acknowledges the message itself.
SelfAck(h) ==
    /\ hpc[h] = "call" /\ h \in SelfAcking /\ flag[h] = "fresh"
    /\ flag' = [flag EXCEPT ![h] = "acked"]
    /\ Settles(h, ackd, TRUE)
    /\ UNCHANGED <<running, closing, inFlight, scope, hpc, cpc, n, handled, nackd, published,
                   runs, closeRun, cause, cut>>

\* A nack() in the except clause of a message that is settled already raises ValueError.
NackAgain(h) == Goto(h, "nack") /\ UNCHANGED inFlight  \* mutant: it is nacked as well
NackRefused(h) == Finish(h, "failed")

\* ack() or nack() marks a fresh message and calls the broker; on a settled one it raises.
AckAnyway(h, mark, at) ==  \* mutant: a message is acknowledged whatever its handler did
    /\ flag[h] = "fresh" /\ flag' = [flag EXCEPT ![h] = "acked"]
    /\ Goto(h, "ack") /\ UNCHANGED inFlight
Settling(h, mark, at) ==
    \/ /\ flag[h] = "fresh" /\ flag' = [flag EXCEPT ![h] = mark]
       /\ Goto(h, at) /\ UNCHANGED inFlight
    \/ flag[h] # "fresh" /\ NackRefused(h) /\ UNCHANGED flag

Returns(h) ==
    /\ hpc[h] = "call"
    /\ handled' = handled \cup {Current(h)}
    /\ Settling(h, "acked", "ack")
    /\ UNCHANGED <<running, closing, scope, cpc, n, ackd, nackd, published, runs, closeRun,
                   cause, cut>>

Raises(h) ==
    /\ hpc[h] = "call"
    /\ Settling(h, "nacked", "nack")
    /\ UNCHANGED <<running, closing, scope, cpc, n, brokerVars, runs, closeRun, cause, cut>>

\* After the ack the outputs, if there are any, are published.
AckEnds(h) == \E done, ok \in BOOLEAN :
    /\ hpc[h] = "ack" /\ Answers(h, done, ok)
    /\ Settles(h, ackd, done)
    /\ \/ ok /\ h \in Publishing /\ Goto(h, "publish") /\ UNCHANGED inFlight
       \/ ok /\ Finish(h, "next")
       \/ ~ok /\ NackRefused(h)
    /\ UNCHANGED <<running, closing, scope, flag, cpc, n, handled, nackd, published,
                   runs, closeRun, cause, cut>>

PublishEnds(h) == \E done, ok \in BOOLEAN :
    /\ hpc[h] = "publish" /\ Answers(h, done, ok)
    /\ Settles(h, published, done)
    /\ IF ok THEN Finish(h, "next") ELSE NackRefused(h)
    /\ UNCHANGED <<running, closing, scope, flag, cpc, n, handled, ackd, nackd,
                   runs, closeRun, cause, cut>>

\* The exception is raised again after the nack, whatever the nack did.
NackEnds(h) == \E done, ok \in BOOLEAN :
    /\ hpc[h] = "nack" /\ Answers(h, done, ok)
    /\ Settles(h, nackd, done)
    /\ Finish(h, "failed")
    /\ UNCHANGED <<running, closing, scope, flag, cpc, n, handled, ackd, published,
                   runs, closeRun, cause, cut>>

\* The task is cancelled where it is suspended.  A call to the broker that is cut short
\* may have taken effect.
Cancelled(h) == \E done \in BOOLEAN :
    /\ scope = "cancelled" /\ hpc[h] \in Live
    /\ IF hpc[h] \in Busy
       THEN Finish(h, "cancelled") /\ cut' = cut \cup {h}
       ELSE Goto(h, "cancelled") /\ UNCHANGED <<inFlight, cut>>
    /\ Settles(h, ackd, done /\ hpc[h] = "ack")
    /\ Settles(h, nackd, done /\ hpc[h] \in {"nack", "refuse"})
    /\ Settles(h, published, done /\ hpc[h] = "publish")
    /\ UNCHANGED <<running, closing, scope, flag, cpc, n, handled, runs, closeRun, cause>>

-----------------------------------------------------------------------------
(* close()                                                                 *)

CancelForgotten(c, why) ==  \* mutant: close() does not cancel the group
    cpc' = [cpc EXCEPT ![c] = "done"] /\ UNCHANGED <<scope, cause>>

\* The end of close(): if a run is under way, whichever it is, its group is cancelled.
CancelScope(c, why) ==
    /\ cpc' = [cpc EXCEPT ![c] = "done"]
    /\ CancelBecause(IF closeRun'[c] = runs THEN why ELSE "stale")

CloseNotRunning(c) ==
    /\ cpc[c] = "idle" /\ ~running
    /\ cpc' = [cpc EXCEPT ![c] = "done"]
    /\ UNCHANGED <<running, closing, inFlight, scope, hpc, flag, n, brokerVars, runs, closeRun,
                   cause, cut>>

MoreThanOne == inFlight > 1  \* mutant: off by one
Pending == inFlight > 0

\* With nothing in flight close() does not suspend before it cancels.
Close(c) ==
    /\ cpc[c] = "idle" /\ running
    /\ closing' = TRUE
    /\ closeRun' = [closeRun EXCEPT ![c] = runs]
    /\ IF Pending
       THEN cpc' = [cpc EXCEPT ![c] = "waiting"] /\ UNCHANGED <<scope, cause>>
       ELSE CancelScope(c, "drained")
    /\ UNCHANGED <<running, inFlight, hpc, flag, n, brokerVars, runs, cut>>

\* A poll finds nothing in flight.
CloseDrained(c) ==
    /\ cpc[c] = "waiting" /\ ~Pending
    /\ UNCHANGED closeRun
    /\ CancelScope(c, "drained")
    /\ UNCHANGED <<running, closing, inFlight, hpc, flag, n, brokerVars, runs, cut>>

\* close_timeout_s elapses first.
CloseTimesOut(c) ==
    /\ cpc[c] = "waiting"
    /\ UNCHANGED closeRun
    /\ CancelScope(c, "timeout")
    /\ UNCHANGED <<running, closing, inFlight, hpc, flag, n, brokerVars, runs, cut>>

-----------------------------------------------------------------------------
HandlerStep(h) ==
    \/ Accept(h) \/ Refuse(h) \/ RefuseEnds(h) \/ SubscriptionEnds(h)
    \/ SelfAck(h) \/ Returns(h) \/ Raises(h) \/ AckEnds(h) \/ PublishEnds(h) \/ NackEnds(h)
    \/ Cancelled(h)

CloseStep(c) == CloseNotRunning(c) \/ Close(c) \/ CloseDrained(c) \/ CloseTimesOut(c)

Next ==
    \/ Run \/ RunEnds \/ FailureCancels \/ CancelRun
    \/ \E h \in Handlers : HandlerStep(h)
    \/ \E c \in Closers : CloseStep(c)

\* A cancelled task ends, a poll or the timeout wakes close(), and the task group
\* reacts; a handler function may run for ever as long as nobody cancels it.
Fairness ==
    /\ WF_vars(RunEnds) /\ WF_vars(FailureCancels)
    /\ \A h \in Handlers : WF_vars(Cancelled(h))
    /\ \A c \in Closers : WF_vars(CloseDrained(c) \/ CloseTimesOut(c))

Spec == Init /\ [][Next]_vars /\ Fairness

-----------------------------------------------------------------------------
(* Properties                                                              *)

\* router.py:104 "Number of messages currently being processed": the counter that
\* close() polls counts exactly the handlers with a message between acceptance and the
\* finally clause, across failures, cancellations and restarts.
InFlightIsExact == inFlight = Cardinality({h \in Handlers : hpc[h] \in Busy})

\* router.py:112 "waits for in-flight messages to complete": a run cancelled by a close()
\* of its own that saw nothing in flight cuts no handler short.
DrainedCloseCutsNothing == cause = "drained" => cut = {}

\* docs/concepts/router.md:76 has the function acknowledge its message itself: a handler
\* that did so and returned goes on, unless its subscription or its broker failed.
SelfAckingHandlerKeepsRunning ==
    \A h \in SelfAcking \ Faulty : hpc[h] = "failed" => Current(h) \notin handled

\* Once close() has been called on a run, or one of its tasks has failed, it ends.
RunStops ==
    /\ closing ~> ~running
    /\ \A h \in Handlers : hpc[h] = "failed" ~> ~running

\* Every delivery to a handler that leaves the settlement to the router is acknowledged
\* at the broker only after its function returned, returned to it only if the function
\* did not, and never both, whatever fails or is cancelled in between.
Managed == (Handlers \ SelfAcking) \X (1..MaxDeliveries)
Taken(d) == n[d[1]] >= d[2] /\ ~(n[d[1]] = d[2] /\ hpc[d[1]] = "refuse")
DeliveryState == [d \in Managed |->
    IF d \in ackd \cap nackd THEN "settled twice"
    ELSE IF d \in ackd THEN "acked"
    ELSE IF d \in nackd THEN "returned"
    ELSE IF d \in handled THEN "handled"
    ELSE IF Taken(d) THEN "taken"
    ELSE "pending"]

Settled == INSTANCE Settlement WITH Deliveries <- Managed, state <- DeliveryState
SettlesOnce == Settled!Spec
=============================================================================
