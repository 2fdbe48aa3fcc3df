------------------------------ MODULE CqrsBus ------------------------------
(***************************************************************************)
(* The running side of CommandBus and EventBus (natricine/cqrs), which is  *)
(* the same code twice.  run() starts one loop per handler; the loop takes *)
(* messages from the handler's subscription and starts one task for each,  *)
(* inside a task group of its own, so that the messages of one handler are *)
(* processed concurrently.  close() refuses new messages, waits until no   *)
(* message is in flight or a timeout elapses, cancels the run and closes   *)
(* the subscribers that the factory made.                                  *)
(*                                                                         *)
(* A step is what a task does between two suspensions.  Subscriptions,     *)
(* handler functions and brokers are external, as in Router.               *)
(***************************************************************************)
EXTENDS Integers, FiniteSets

CONSTANTS
    Handlers,       \* registered handlers, each with a __name__ of its own
    Faulty,         \* handlers whose subscription or broker may raise
    Closers,        \* calls of close()
    Inside,         \* those that a handler function may make
    MaxDeliveries,  \* bound on the messages each handler is given
    MaxRuns         \* bound on the calls of run()

ASSUME BusAssumption ==
    /\ IsFiniteSet(Handlers) /\ Faulty \subseteq Handlers /\ Inside \subseteq Closers
    /\ MaxDeliveries \in Nat /\ MaxRuns \in Nat

VARIABLES
    running, closing,  \* _running, _closing
    inFlight,          \* _in_flight
    scope,             \* _cancel_scope: none, active or cancelled
    hpc,               \* handler -> where _run_handler() stands
    group,             \* handlers whose own task group is cancelled
    mpc,               \* delivery -> where its _process_message() stands
    sub,               \* handler -> its entry in _handler_subscribers
    cpc, cleft, csize, \* closer -> where close() stands, subscribers left to close, and
                       \* how many there were when it started on them
    caller,            \* closer -> the delivery whose handler function called close()
    n,                 \* history: handler -> messages it was given
    handled, ackd, nackd,  \* history: deliveries handled, acked, nacked at the broker
    runs, cause,       \* history: calls of run() so far, what cancelled this one
    closeRun,          \* history: closer -> the run that it closes
    cut, uncounted,    \* history: deliveries that the cancellation of the run as drained, and
                       \* not the failure of a sibling, cut short, and those whose task had
                       \* not started by then
    late,              \* history: handlers whose loop had not started by then
    outliving,         \* history: closers that were closing subscribers when this run began
    dropped            \* history: handlers whose open subscriber left the dictionary in
                       \* this run without having been closed

closeVars == <<cpc, cleft, csize, caller>>
busVars == <<running, closing, inFlight, scope>>
brokerVars == <<n, handled, ackd, nackd>>
histVars == <<runs, cause, closeRun, uncounted, late, outliving, dropped>>
vars == <<busVars, hpc, group, mpc, sub, closeVars, brokerVars, histVars, cut>>

Deliveries == Handlers \X (1..MaxDeliveries)
Of(h) == {d \in Deliveries : d[1] = h}

\* thread: in a call, a synchronous function runs in a thread.
Busy == {"call", "thread", "ack", "nack"}
Nobody == <<>>
MessageOver == {"none", "done", "failed", "cancelled"}
LoopLive == {"start", "next", "refuse"}
LoopOver == {"ended", "failed"}

TypeOK ==
    /\ running \in BOOLEAN /\ closing \in BOOLEAN
    /\ inFlight \in Nat
    /\ scope \in {"none", "active", "cancelled"}
    \* join, joinRaises: the loop is left, the group waits for its tasks
    /\ hpc \in [Handlers -> LoopLive \cup LoopOver \cup {"off", "join", "joinRaises"}]
    /\ group \subseteq Handlers
    \* spawned: start_soon() was called and the task has not run yet
    /\ mpc \in [Deliveries -> Busy \cup MessageOver \cup {"spawned"}]
    /\ sub \in [Handlers -> {"none", "open", "closed"}]
    /\ cpc \in [Closers -> {"idle", "waiting", "subs", "done", "raised"}]
    /\ cleft \in [Closers -> SUBSET Handlers] /\ csize \in [Closers -> Nat]
    /\ caller \in [Closers -> Deliveries \cup {Nobody}]
    /\ n \in [Handlers -> 0..MaxDeliveries]
    /\ handled \subseteq Deliveries /\ ackd \subseteq Deliveries /\ nackd \subseteq Deliveries
    /\ runs \in 0..MaxRuns /\ closeRun \in [Closers -> 0..MaxRuns]
    /\ cause \in {"none", "failure", "outside", "timeout", "drained", "stale"}
    /\ cut \subseteq Deliveries /\ uncounted \subseteq Deliveries
    /\ late \subseteq Handlers /\ dropped \subseteq Handlers
    /\ outliving \subseteq Closers

Init ==
    /\ running = FALSE /\ closing = FALSE /\ inFlight = 0 /\ scope = "none"
    /\ hpc = [h \in Handlers |-> "off"] /\ group = {}
    /\ mpc = [d \in Deliveries |-> "none"]
    /\ sub = [h \in Handlers |-> "none"]
    /\ cpc = [c \in Closers |-> "idle"] /\ cleft = [c \in Closers |-> {}]
    /\ csize = [c \in Closers |-> 0] /\ caller = [c \in Closers |-> Nobody]
    /\ n = [h \in Handlers |-> 0] /\ handled = {} /\ ackd = {} /\ nackd = {}
    /\ runs = 0 /\ cause = "none" /\ closeRun = [c \in Closers |-> 0]
    /\ cut = {} /\ uncounted = {} /\ late = {}
    /\ outliving = {} /\ dropped = {}

-----------------------------------------------------------------------------
(* run()                                                                   *)

Run ==
    /\ ~running /\ runs < MaxRuns
    /\ running' = TRUE /\ closing' = FALSE /\ scope' = "active"
    /\ hpc' = [h \in Handlers |-> "start"] /\ group' = {}
    /\ runs' = runs + 1 /\ cause' = "none" /\ cut' = {} /\ uncounted' = {}
    /\ late' = {} /\ dropped' = {}
    /\ outliving' = {c \in Closers : cpc[c] = "subs"}
    /\ UNCHANGED <<inFlight, mpc, sub, closeVars, brokerVars, closeRun>>

RunEnds ==
    /\ running /\ \A h \in Handlers : hpc[h] \in LoopOver
    /\ running' = FALSE /\ closing' = FALSE /\ scope' = "none"
    /\ hpc' = [h \in Handlers |-> "off"]
    /\ UNCHANGED <<inFlight, group, mpc, sub, closeVars, brokerVars, histVars, cut>>

\* The deliveries accepted by a loop whose task is yet to run: _in_flight misses them.
Spawned == {d \in Deliveries : mpc[d] = "spawned"}

CancelBecause(why) ==
    /\ scope' = IF scope = "active" THEN "cancelled" ELSE scope
    /\ cause' = IF scope = "active" THEN why ELSE cause
    /\ uncounted' = IF scope = "active" /\ why = "drained" THEN Spawned ELSE uncounted
    /\ late' = IF scope = "active" THEN {h \in Handlers : hpc[h] = "start"} ELSE late

\* A loop that raised, or the task that called run(), cancels the run.
Cancel ==
    /\ scope = "active"
    /\ \/ CancelBecause("outside")
       \/ (\E h \in Handlers : hpc[h] = "failed") /\ CancelBecause("failure")
    /\ UNCHANGED <<running, closing, inFlight, hpc, group, mpc, sub, closeVars, brokerVars,
                   runs, closeRun, outliving, dropped, cut>>

-----------------------------------------------------------------------------
(* _run_handler()                                                          *)

Goto(h, next) == hpc' = [hpc EXCEPT ![h] = next]

\* The task starts even in a cancelled run: it gets or makes its subscriber and calls
\* subscribe(), which raises on a closed one.
LoopStarts(h) ==
    /\ hpc[h] = "start"
    /\ sub' = [sub EXCEPT ![h] = IF @ = "none" THEN "open" ELSE @]
    /\ Goto(h, IF sub[h] = "closed" THEN "joinRaises" ELSE "next")
    /\ group' = IF sub[h] = "closed" THEN group \cup {h} ELSE group
    /\ UNCHANGED <<busVars, mpc, closeVars, brokerVars, histVars, cut>>

AcceptAlways == TRUE  \* mutant: the loop forgets to look at _closing
Accepting == ~closing

Spawn(h) ==
    /\ hpc[h] = "next" /\ n[h] < MaxDeliveries /\ Accepting
    /\ n' = [n EXCEPT ![h] = @ + 1]
    /\ mpc' = [mpc EXCEPT ![<<h, n[h] + 1>>] = "spawned"]
    /\ UNCHANGED <<busVars, hpc, group, sub, closeVars, handled, ackd, nackd, histVars, cut>>

Refuse(h) ==
    /\ hpc[h] = "next" /\ n[h] < MaxDeliveries /\ ~Accepting
    /\ n' = [n EXCEPT ![h] = @ + 1]
    /\ Goto(h, "refuse")
    /\ UNCHANGED <<busVars, group, mpc, sub, closeVars, handled, ackd, nackd, histVars, cut>>

\* The loop is left; an exception or a cancellation cancels the tasks of its group.
LeaveLoop(h, raising) ==
    /\ Goto(h, IF raising THEN "joinRaises" ELSE "join")
    /\ group' = IF raising THEN group \cup {h} ELSE group

\* A call to the broker ends: it took effect, or it may raise before or after it did.
Answers(h, done, ok) == (ok => done) /\ (~ok => h \in Faulty)
Settles(d, set, done) == set' = IF done THEN set \cup {d} ELSE set

\* After the nack of a refused message the loop breaks.
RefuseEnds(h) == \E done, ok \in BOOLEAN :
    /\ hpc[h] = "refuse" /\ Answers(h, done, ok)
    /\ Settles(<<h, n[h]>>, nackd, done)
    /\ LeaveLoop(h, ~ok)
    /\ UNCHANGED <<busVars, mpc, sub, closeVars, n, handled, ackd, histVars, cut>>

SubscriptionEnds(h) == \E raising \in BOOLEAN :
    /\ hpc[h] = "next" /\ (raising => h \in Faulty)
    /\ LeaveLoop(h, raising)
    /\ UNCHANGED <<busVars, mpc, sub, closeVars, brokerVars, histVars, cut>>

\* A message task that raised cancels the loop of its handler and its siblings.
GroupCancelled(h) ==
    /\ h \notin group /\ \E d \in Of(h) : mpc[d] = "failed"
    /\ hpc[h] \in {"next", "refuse", "join"}
    /\ group' = group \cup {h}
    /\ UNCHANGED <<busVars, hpc, mpc, sub, closeVars, brokerVars, histVars, cut>>

InCancelledScope(h) == scope = "cancelled" \/ h \in group

LoopCancelled(h) == \E done \in BOOLEAN :
    /\ hpc[h] \in {"next", "refuse"} /\ InCancelledScope(h)
    /\ Goto(h, "join")
    /\ Settles(<<h, n[h]>>, nackd, done /\ hpc[h] = "refuse")
    /\ UNCHANGED <<busVars, group, mpc, sub, closeVars, n, handled, ackd, histVars, cut>>

\* The group ends when its last task has.
LoopEnds(h) ==
    /\ hpc[h] \in {"join", "joinRaises"}
    /\ \A d \in Of(h) : mpc[d] \in MessageOver
    /\ Goto(h, IF hpc[h] = "joinRaises" \/ \E d \in Of(h) : mpc[d] = "failed"
               THEN "failed" ELSE "ended")
    /\ mpc' = [d \in Deliveries |-> IF d \in Of(h) THEN "none" ELSE mpc[d]]
    /\ UNCHANGED <<busVars, group, sub, closeVars, brokerVars, histVars, cut>>

-----------------------------------------------------------------------------
(* _process_message()                                                      *)

Turn(d, next) == mpc' = [mpc EXCEPT ![d] = next]

FinishUncounted(d, next) == Turn(d, next) /\ UNCHANGED inFlight  \* mutant: no finally
Finish(d, next) == Turn(d, next) /\ inFlight' = inFlight - 1

NotCounted == UNCHANGED inFlight  \* mutant: the counter is not incremented
Counted == inFlight' = inFlight + 1

\* A task that was started with start_soon() runs to its first suspension even if its
\* group has been cancelled meanwhile.
Start(d) ==
    /\ mpc[d] = "spawned"
    /\ Counted
    /\ Turn(d, "call")
    /\ UNCHANGED <<running, closing, scope, hpc, group, sub, closeVars, brokerVars, histVars, cut>>

\* The close() that the handler function called and waits for.
ClosedBy(d) == {c \in Closers : caller[c] = d /\ cpc[c] \in {"waiting", "subs"}}
AwaitsClose(d) == ClosedBy(d) # {}

\* It goes on when that close() is over, and nothing is left of that.
CallerGoesOn ==
    caller' = [c \in Closers |-> IF cpc'[c] \in {"waiting", "subs"} THEN caller[c] ELSE Nobody]

CloseRaised(S) ==
    /\ cpc' = [c \in Closers |-> IF c \in S THEN "raised" ELSE cpc[c]]
    /\ cleft' = [c \in Closers |-> IF c \in S THEN {} ELSE cleft[c]]
    /\ csize' = [c \in Closers |-> IF c \in S THEN 0 ELSE csize[c]]
    /\ CallerGoesOn

\* call_with_deps(): the function of the handler or of a dependency is a coroutine function,
\* or it runs in a thread (Dependencies has the order).  Waiting for a thread can be cancelled.
CallsInThread(d) ==
    /\ mpc[d] = "call" /\ ~AwaitsClose(d) /\ ~InCancelledScope(d[1])
    /\ Turn(d, "thread")
    /\ UNCHANGED <<busVars, hpc, group, sub, closeVars, brokerVars, histVars, cut>>

\* A dependency's function returns.
ThreadReturns(d) ==
    /\ mpc[d] = "thread"
    /\ Turn(d, "call")
    /\ UNCHANGED <<busVars, hpc, group, sub, closeVars, brokerVars, histVars, cut>>

Returns(d) ==
    /\ mpc[d] \in {"call", "thread"} /\ ~AwaitsClose(d)
    /\ handled' = handled \cup {d}
    /\ Turn(d, "ack")
    /\ UNCHANGED <<busVars, hpc, group, sub, closeVars, n, ackd, nackd, histVars, cut>>

\* The payload cannot be decoded, or the handler function raises.
Raises(d) ==
    /\ mpc[d] \in {"call", "thread"} /\ ~AwaitsClose(d)
    /\ Turn(d, "nack")
    /\ UNCHANGED <<busVars, hpc, group, sub, closeVars, brokerVars, histVars, cut>>

NackAgain(d) == Turn(d, "nack") /\ UNCHANGED inFlight  \* mutant: it is nacked as well
NackRefused(d) == Finish(d, "failed")

\* If ack() raises the message counts as acked: nack() raises ValueError.
AckEnds(d) == \E done, ok \in BOOLEAN :
    /\ mpc[d] = "ack" /\ Answers(d[1], done, ok)
    /\ Settles(d, ackd, done)
    /\ IF ok THEN Finish(d, "done") ELSE NackRefused(d)
    /\ UNCHANGED <<running, closing, scope, hpc, group, sub, closeVars, n, handled, nackd,
                   histVars, cut>>

NackEnds(d) == \E done, ok \in BOOLEAN :
    /\ mpc[d] = "nack" /\ Answers(d[1], done, ok)
    /\ Settles(d, nackd, done)
    /\ Finish(d, "failed")
    /\ UNCHANGED <<running, closing, scope, hpc, group, sub, closeVars, n, handled, ackd,
                   histVars, cut>>

AtAwait(d) == mpc[d] \in Busy \ {"thread"}

\* A thread is not interrupted: the cancellation waits until its function has returned.  A
\* close() that the function waits for is interrupted, wherever it stands.
MessageCancelled(d) == \E done \in BOOLEAN :
    /\ AtAwait(d) /\ InCancelledScope(d[1])
    /\ Finish(d, "cancelled")
    /\ cut' = IF cause = "drained" /\ d[1] \notin group THEN cut \cup {d} ELSE cut
    /\ Settles(d, ackd, done /\ mpc[d] = "ack")
    /\ Settles(d, nackd, done /\ mpc[d] = "nack")
    /\ CloseRaised(ClosedBy(d))
    /\ UNCHANGED <<running, closing, scope, hpc, group, sub, n, handled, histVars>>

-----------------------------------------------------------------------------
(* close()                                                                 *)

CloseNotRunning(c) ==
    /\ cpc[c] = "idle" /\ ~running
    /\ cpc' = [cpc EXCEPT ![c] = "done"]
    /\ UNCHANGED <<busVars, hpc, group, mpc, sub, cleft, csize, caller, brokerVars, histVars, cut>>

Named == {h \in Handlers : sub[h] # "none"}

\* One turn of the loop over _handler_subscribers: the next subscriber is closed, a
\* suspension; or its close() raises and the rest, and the dictionary, stay as they are; or
\* the loop is through, and clear() empties the dictionary, of subscribers that came into it
\* meanwhile, too, which it does not close.
Visit(c, left, size) ==
    \/ \E h \in left, done, ok \in BOOLEAN :
          /\ Answers(h, done, ok)
          /\ sub' = IF done THEN [sub EXCEPT ![h] = "closed"] ELSE sub
          /\ cleft' = [cleft EXCEPT ![c] = IF ok THEN left \ {h} ELSE {}]
          /\ csize' = [csize EXCEPT ![c] = IF ok THEN size ELSE 0]
          /\ cpc' = [cpc EXCEPT ![c] = IF ok THEN "subs" ELSE "raised"]
          /\ UNCHANGED dropped
    \/ /\ left = {}
       /\ sub' = [h \in Handlers |-> "none"]
       /\ dropped' = dropped \cup {h \in Handlers : sub[h] = "open"}
       /\ cleft' = [cleft EXCEPT ![c] = {}] /\ csize' = [csize EXCEPT ![c] = 0]
       /\ cpc' = [cpc EXCEPT ![c] = "done"]

CancelForgotten(c, why) ==  \* mutant: close() does not cancel the run
    Visit(c, Named, Cardinality(Named)) /\ UNCHANGED <<scope, cause, uncounted, late>>

\* The run under way, whichever it is, is cancelled; then the subscribers are visited.
CancelScope(c, why) ==
    /\ Visit(c, Named, Cardinality(Named))
    /\ CancelBecause(IF closeRun'[c] = runs THEN why ELSE "stale")

MoreThanOne == inFlight > 1  \* mutant: off by one
Pending == inFlight > 0

\* From inside, the message that calls is in flight itself: the close() waits for it in vain.
CalledBy(c, d) ==
    /\ d # Nobody => c \in Inside /\ mpc[d] = "call" /\ ~AwaitsClose(d)
    /\ caller' = [caller EXCEPT ![c] = d]

Close(c) ==
    /\ cpc[c] = "idle" /\ running
    /\ \E d \in Deliveries \cup {Nobody} : CalledBy(c, d)
    /\ closing' = TRUE
    /\ closeRun' = [closeRun EXCEPT ![c] = runs]
    /\ \/ /\ Pending
          /\ cpc' = [cpc EXCEPT ![c] = "waiting"]
          /\ UNCHANGED <<scope, cause, uncounted, late, sub, cleft, csize, dropped>>
       \/ ~Pending /\ CancelScope(c, "drained")
    /\ UNCHANGED <<running, inFlight, hpc, group, mpc, brokerVars, runs, outliving, cut>>

\* A poll finds nothing in flight, or close_timeout_s elapses.
CloseWaited(c) ==
    /\ cpc[c] = "waiting"
    /\ UNCHANGED closeRun
    /\ \/ ~Pending /\ CancelScope(c, "drained")
       \/ CancelScope(c, "timeout")
    /\ CallerGoesOn
    /\ UNCHANGED <<running, closing, inFlight, hpc, group, mpc, brokerVars, runs, outliving, cut>>

\* Another close() or a loop has changed the size of the dictionary meanwhile.
DictChanged(c) == Cardinality(Named) # csize[c]

CloseNextSubscriber(c) ==
    /\ cpc[c] = "subs" /\ ~DictChanged(c)
    /\ Visit(c, cleft[c] \cap Named, csize[c]) /\ CallerGoesOn
    /\ UNCHANGED <<busVars, hpc, group, mpc, brokerVars, runs, cause, closeRun, uncounted, late,
                   outliving, cut>>

\* RuntimeError: dictionary changed size during iteration.
CloseRaises(c) ==
    /\ cpc[c] = "subs" /\ DictChanged(c)
    /\ CloseRaised({c})
    /\ UNCHANGED <<busVars, hpc, group, mpc, sub, brokerVars, histVars, cut>>

-----------------------------------------------------------------------------
LoopStep(h) ==
    \/ LoopStarts(h) \/ Spawn(h) \/ Refuse(h) \/ RefuseEnds(h) \/ SubscriptionEnds(h)
    \/ GroupCancelled(h) \/ LoopCancelled(h) \/ LoopEnds(h)

MessageStep(d) ==
    \/ Start(d) \/ CallsInThread(d) \/ ThreadReturns(d) \/ Returns(d) \/ Raises(d)
    \/ AckEnds(d) \/ NackEnds(d) \/ MessageCancelled(d)

ThreadEnds(d) == mpc[d] = "thread" /\ (ThreadReturns(d) \/ Returns(d) \/ Raises(d))

CloseStep(c) == CloseWaited(c) \/ CloseNextSubscriber(c) \/ CloseRaises(c)

Next ==
    \/ Run \/ RunEnds \/ Cancel
    \/ \E h \in Handlers : LoopStep(h)
    \/ \E d \in Deliveries : MessageStep(d)
    \/ \E c \in Closers : CloseNotRunning(c) \/ Close(c) \/ CloseStep(c)

FailureCancels == (\E h \in Handlers : hpc[h] = "failed") /\ Cancel

\* Ready tasks run, cancellation is delivered, group ends are noticed, and a poll or the
\* timeout wakes close(); subscriptions, coroutine functions and brokers may be silent for
\* ever as long as nobody cancels them.  What runs in a thread must come to an end by itself.
Fairness ==
    /\ WF_vars(RunEnds) /\ WF_vars(FailureCancels)
    /\ \A h \in Handlers :
          WF_vars(LoopStarts(h)) /\ WF_vars(LoopCancelled(h)) /\ WF_vars(LoopEnds(h))
              /\ WF_vars(GroupCancelled(h))
    /\ \A d \in Deliveries : WF_vars(Start(d)) /\ WF_vars(ThreadEnds(d)) /\ WF_vars(MessageCancelled(d))
    /\ \A c \in Closers : WF_vars(CloseStep(c))

Spec == Init /\ [][Next]_vars /\ Fairness

-----------------------------------------------------------------------------
(* Properties                                                              *)

\* command_bus.py:181 "Number of commands currently being processed": the counter is
\* exact, but it counts a message only from the first step of its task.
InFlightIsExact == inFlight = Cardinality({d \in Deliveries : mpc[d] \in Busy})

\* A run cancelled by a close() of its own that saw nothing in flight cuts short only
\* messages that a loop had accepted and whose tasks had not started by then.
DrainedCloseCutsOnlyUncounted == cause = "drained" => cut \subseteq uncounted

\* command_bus.py:263 "waits for in-flight commands to complete": such a close() cuts
\* short no message that the bus has accepted.
DrainedCloseCutsNothing == cause = "drained" => cut = {}

\* A close() that was closing subscribers when this run began is in one of the places now.
Outliving(places) == \E c \in outliving : cpc[c] \in places

\* Loops and subscribers go together.  While a run is not cancelled its loops read from open
\* subscribers that the bus knows of: only a close() that was still closing subscribers when
\* the run began takes one from them, by closing it, or in the end by clearing the dictionary.
\* When a close() of this run has returned, a subscriber of the factory is open only if its
\* loop was started by a run that had been cancelled already; and only such a one, or one that
\* an outliving close() found, leaves the dictionary open, so that nobody ever closes it.
SubscribersFollowLoops ==
    \A h \in Handlers :
      /\ scope = "active" /\ hpc[h] = "next" =>
           \/ sub[h] = "open"
           \/ sub[h] = "closed" /\ Outliving({"subs", "raised"})
           \/ sub[h] = "none" /\ Outliving({"done"})
      /\ sub[h] = "open" /\ (\E c \in Closers : cpc[c] = "done" /\ closeRun[c] = runs /\ runs > 0)
           => h \in late
      /\ h \in dropped => h \in late \/ Outliving({"done"})

\* A closing run ends: nobody waits for a message or a task that is never going to end.
CloseStopsRun == closing ~> ~running

\* Every delivery is acknowledged only after its handler succeeded, returned only if it
\* did not, and never both, with the messages of a handler processed concurrently.
DeliveryState == [d \in Deliveries |->
    IF d \in ackd \cap nackd THEN "settled twice"
    ELSE IF d \in ackd THEN "acked"
    ELSE IF d \in nackd THEN "returned"
    ELSE IF d \in handled THEN "handled"
    ELSE IF n[d[1]] >= d[2] /\ ~(n[d[1]] = d[2] /\ hpc[d[1]] = "refuse") THEN "taken"
    ELSE "pending"]

Settled == INSTANCE Settlement WITH state <- DeliveryState
SettlesOnce == Settled!Spec
=============================================================================
