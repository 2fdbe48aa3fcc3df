-------------------------- MODULE GracefulShutdown --------------------------
(***************************************************************************)
(* graceful_shutdown() around a body that runs services in a task group of *)
(* its own, as its docstring shows.  The signal handler sets an event; the *)
(* watcher task waits for it and closes the closeables one after the       *)
(* other.  When the body ends the watcher is cancelled, wherever it is.    *)
(*                                                                         *)
(* Closeables are numbered in the order of the arguments; those in Running *)
(* are services whose run() is in the body, the others, a pub/sub for      *)
(* example, are only there to be closed.  What close() and run() do is in  *)
(* the modules of the services: here run() may end once close() has been   *)
(* called, or by itself, and either may raise.                             *)
(***************************************************************************)
EXTENDS Naturals

CONSTANT Closeables    \* how many

Args == 1..Closeables

VARIABLES
    running,       \* the closeables whose run() is in the body
    installed,     \* the signal handlers are in place
    event,         \* shutdown_event is set
    watcher,       \* the closeable whose close() it awaits; 0 before the event, then one more
                   \* than their number
    run,           \* closeable -> how its run() stands
    close,         \* closeable -> how its close() stands
    scope,         \* the task group of the watcher and the body
    alone          \* history: services that ended without being closed

vars == <<running, installed, event, watcher, run, close, scope, alone>>

\* The types; after the end nothing is under way.
TypeOK ==
    /\ running \subseteq Args /\ installed \in BOOLEAN /\ event \in BOOLEAN
    /\ watcher \in 0..(Closeables + 1)
    /\ run \in [Args -> {"none", "runs", "ended", "failed", "cut"}]
    /\ close \in [Args -> {"uncalled", "called", "returned", "failed", "cut"}]
    /\ scope \in {"active", "cancelled", "left"} /\ alone \subseteq running
    /\ scope = "left" => ~installed /\ \A k \in Args : run[k] # "runs" /\ close[k] # "called"

Init ==
    /\ running \in SUBSET Args
    /\ installed = TRUE /\ event = FALSE /\ watcher = 0
    /\ run = [k \in Args |-> IF k \in running THEN "runs" ELSE "none"]
    /\ close = [k \in Args |-> "uncalled"]
    /\ scope = "active" /\ alone = {}

-----------------------------------------------------------------------------
\* handle_signal()
Signal ==
    /\ installed /\ ~event
    /\ event' = TRUE
    /\ UNCHANGED <<running, installed, watcher, run, close, scope, alone>>

(* shutdown_watcher()                                                      *)
(* A cancellation that comes when it is about to wake up or close() is     *)
(* about to return is noticed in the next close().                         *)

CallsNext(k, how) ==
    /\ watcher' = k + 1
    /\ close' = [j \in Args |->
                    IF j = k THEN how ELSE IF j = k + 1 THEN "called" ELSE close[j]]

WatcherWakes ==
    /\ event /\ watcher = 0 /\ scope # "left"
    /\ CallsNext(0, "returned")
    /\ UNCHANGED <<running, installed, event, run, scope, alone>>

CloseUnderWay == watcher \in Args /\ close[watcher] = "called"

GoesOn ==  \* mutant: close() is started and not awaited
    /\ CloseUnderWay
    /\ CallsNext(watcher, "called")
    /\ UNCHANGED <<running, installed, event, run, scope, alone>>

CloseReturns ==
    /\ CloseUnderWay
    /\ CallsNext(watcher, "returned")
    /\ UNCHANGED <<running, installed, event, run, scope, alone>>

\* The watcher ends there, which cancels the body.
CloseRaises ==
    /\ CloseUnderWay
    /\ close' = [close EXCEPT ![watcher] = "failed"]
    /\ scope' = "cancelled"
    /\ UNCHANGED <<running, installed, event, watcher, run, alone>>

WatcherCancelled ==
    /\ scope = "cancelled"
    /\ CloseUnderWay
    /\ close' = [close EXCEPT ![watcher] = "cut"]
    /\ UNCHANGED <<running, installed, event, watcher, run, scope, alone>>

-----------------------------------------------------------------------------
(* The body                                                                *)

RunEnds(k) ==
    /\ run[k] = "runs"
    /\ run' = [run EXCEPT ![k] = "ended"]
    /\ alone' = IF close[k] = "uncalled" THEN alone \cup {k} ELSE alone
    /\ UNCHANGED <<running, installed, event, watcher, close, scope>>

\* It cancels the other services, and the exception leaves the body.
RunRaises(k) ==
    /\ run[k] = "runs"
    /\ run' = [run EXCEPT ![k] = "failed"]
    /\ scope' = "cancelled"
    /\ UNCHANGED <<running, installed, event, watcher, close, alone>>

RunCancelled(k) ==
    /\ scope = "cancelled" /\ run[k] = "runs"
    /\ run' = [run EXCEPT ![k] = "cut"]
    /\ UNCHANGED <<running, installed, event, watcher, close, scope, alone>>

\* The body returns, and tg.cancel_scope is cancelled.
BodyEnds ==
    /\ scope = "active" /\ \A k \in running : run[k] = "ended"
    /\ scope' = "cancelled"
    /\ UNCHANGED <<running, installed, event, watcher, run, close, alone>>

\* Both tasks are over; the finally clause restores the handlers.
Restore ==
    /\ scope = "cancelled" /\ ~CloseUnderWay /\ \A k \in running : run[k] # "runs"
    /\ scope' = "left" /\ installed' = FALSE
    /\ UNCHANGED <<running, event, watcher, run, close, alone>>

Next ==
    \/ Signal \/ WatcherWakes \/ CloseReturns \/ CloseRaises \/ WatcherCancelled
    \/ \E k \in Args : RunEnds(k) \/ RunRaises(k) \/ RunCancelled(k)
    \/ BodyEnds \/ Restore

Spec == Init /\ [][Next]_vars

-----------------------------------------------------------------------------
\* no close() and no run() raised, and no service ended before it was closed
Calm == alone = {} /\ \A k \in Args : "failed" \notin {run[k], close[k]}

\* A shutdown in which nothing fails cancels no service before its close() has let it end, and
\* closes all that come before the last service to the end.  (It may cancel the close() of the
\* last service, and leaves what comes after it open, if the body ends first.)
CalmShutdownIsOrderly ==
    Calm =>
        /\ \A k \in Args : run[k] # "cut"
        /\ scope = "left" =>
            \A k \in Args : (\E j \in running : k < j) => close[k] = "returned"
=============================================================================
