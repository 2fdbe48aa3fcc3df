----------------------------- MODULE Middleware -----------------------------
(***************************************************************************)
(* The built-in middlewares around a handler function, for one delivery of *)
(* a message: retry(), timeout(), poison_queue() or dead_letter_queue(),   *)
(* which both divert a failed message to another topic, and the tracing    *)
(* and metrics of OpenTelemetry, which observe.  The chain is any sequence *)
(* of them, the first one outermost.  What it returns or raises decides    *)
(* whether the router acks or nacks.                                       *)
(*                                                                         *)
(* recoverer() logs and raises again, so it changes nothing.  retry() has  *)
(* its default retry_on, the diverting middlewares their default catch.    *)
(* The callbacks on_retry, on_poison and on_dlq may raise.  Delays are     *)
(* left out.                                                               *)
(***************************************************************************)
EXTENDS Naturals, Sequences

CONSTANTS
    MaxRetries,    \* max_retries of every retry() in the chain
    MaxDepth       \* bound on the length of the chain

Kinds == {"retry", "timeout", "divert", "observe"}
Chains == UNION {[1..k -> Kinds] : k \in 0..MaxDepth}

VARIABLES
    chain,         \* the middlewares, outermost first
    at,            \* the one whose code is running; one more than their number: the function
    doing,         \* what it is doing
    result,        \* what the one below returned or raised
    tries,         \* retry() -> its loop variable attempt
    span,          \* tracing -> its last span: none, "open", or its status: "ok", "error", "unset"
    counted,       \* metrics -> messages it counted as consumed
    handled,       \* history: a call returned
    diverted,      \* history: messages published by the diverting middlewares, at most 2 counted
    permanent,     \* history: a call raised PermanentError
    recalled       \* history: the function was called after that

observed == <<span, counted>>
vars == <<chain, at, doing, result, tries, observed, handled, diverted, permanent, recalled>>

Depth == Len(chain)

Observers == {k \in 1..Depth : chain[k] = "observe"}

\* A call that passes through the middlewares below level k starts a span in each that traces.
Opened(spans, k) == [j \in 1..MaxDepth |-> IF j > k /\ j \in Observers THEN "open" ELSE spans[j]]

Init ==
    /\ chain \in Chains
    /\ at = Depth + 1 /\ doing = "run" /\ result = "none"
    /\ tries = [k \in 1..MaxDepth |-> 0]
    /\ span = Opened([k \in 1..MaxDepth |-> "none"], 0)
    /\ counted = [k \in 1..MaxDepth |-> 0]
    /\ handled = FALSE /\ diverted = 0
    /\ permanent = FALSE /\ recalled = FALSE

-----------------------------------------------------------------------------
Keep == UNCHANGED <<chain, tries, observed, handled, diverted, permanent, recalled>>

\* Back to the middleware outside of level k with result r.
Out(k, r) == at' = k - 1 /\ doing' = "up" /\ result' = r

\* An attempt of the retry() at level k: nothing below it suspends before the function runs.
Call(k) ==
    /\ at' = Depth + 1 /\ doing' = "run"
    /\ tries' = [j \in 1..MaxDepth |->
                    IF j = k THEN tries[k] + 1 ELSE IF j > k THEN 0 ELSE tries[j]]
    /\ span' = Opened(span, k)
    /\ recalled' = (recalled \/ permanent)

\* The handler function returns, raises an exception, or raises PermanentError.
Handle(r) ==
    /\ doing = "run"
    /\ Out(at, r)
    /\ handled' = (handled \/ r = "ok") /\ permanent' = (permanent \/ r = "permanent")
    /\ UNCHANGED <<chain, tries, observed, diverted, recalled>>

Up(kind) == doing = "up" /\ at > 0 /\ chain[at] = kind

UnwrapsFirst(r) == r = "ok"  \* mutant: the exception is unwrapped before it is looked at
Final(r) == r \in {"ok", "permanent"}

\* PermanentError is not retried, but what it wraps is what retry() raises.
Retry ==
    /\ Up("retry")
    /\ IF Final(result) \/ tries[at] >= MaxRetries
       THEN Out(at, IF result = "permanent" THEN "error" ELSE result)
       ELSE \/ doing' = "sleep" /\ UNCHANGED <<at, result>>
            \/ Out(at, "error")   \* on_retry raised
    /\ Keep

RetrySlept ==
    /\ doing = "sleep"
    /\ Call(at)
    /\ UNCHANGED <<chain, result, counted, handled, diverted, permanent>>

CountAlways(r) == 1  \* mutant: failures are counted, too
CountOf(r) == IF r = "ok" THEN 1 ELSE 0

\* What was returned or raised goes on; only what was returned counts as consumed.
Observe ==
    /\ Up("observe")
    /\ Out(at, result)
    /\ span' = [span EXCEPT ![at] = IF result = "ok" THEN "ok" ELSE "error"]
    /\ counted' = [counted EXCEPT ![at] = @ + CountOf(result)]
    /\ UNCHANGED <<chain, tries, handled, diverted, permanent, recalled>>

TimeoutInTime == Up("timeout") /\ Out(at, result) /\ Keep

Divert ==
    /\ Up("divert")
    /\ IF result = "ok" THEN Out(at, "ok") ELSE doing' = "publish" /\ UNCHANGED <<at, result>>
    /\ Keep

Publishes == diverted' = IF diverted < 2 THEN diverted + 1 ELSE 2

\* The exception is forgotten, unless the callback raises another.
DivertPublished(r) ==
    /\ doing = "publish" /\ r \in {"ok", "error"}
    /\ Out(at, r)
    /\ Publishes
    /\ UNCHANGED <<chain, tries, observed, handled, permanent, recalled>>

SwallowsFailure == Out(at, "ok")  \* mutant: a failed publish is not raised
RaisesFailure == Out(at, "error")

DivertRefused ==
    /\ doing = "publish"
    /\ RaisesFailure
    /\ Keep

-----------------------------------------------------------------------------
\* fail_after() cancels whatever runs inside, at its await, and raises TimeoutError.  A publish
\* that is cancelled may have reached the broker.  A span that is left by a cancellation, which
\* is no Exception, ends without a status.
TimeoutElapses(k) ==
    /\ doing \in {"run", "sleep", "publish"}
    /\ k < at /\ chain[k] = "timeout"
    /\ Out(k, "error")
    /\ \/ UNCHANGED diverted
       \/ doing = "publish" /\ Publishes
    /\ span' = [j \in 1..MaxDepth |-> IF j > k /\ span[j] = "open" THEN "unset" ELSE span[j]]
    /\ UNCHANGED <<chain, tries, counted, handled, permanent, recalled>>

\* The router acks or nacks.
Settle ==
    /\ doing = "up" /\ at = 0
    /\ doing' = "done"
    /\ UNCHANGED <<at, result>> /\ Keep

Proceeds ==
    \/ Retry \/ RetrySlept \/ Observe \/ TimeoutInTime \/ Divert \/ Settle
    \/ DivertRefused \/ \E r \in {"ok", "error"} : DivertPublished(r)

Next ==
    \/ Proceeds
    \/ \E r \in {"ok", "error", "permanent"} : Handle(r)
    \/ \E k \in 1..Depth : TimeoutElapses(k)

\* Publishing and sleeping come to an end, and so do timeouts; a handler function may go on
\* for ever.
Fairness == WF_vars(Proceeds) /\ WF_vars(\E k \in 1..Depth : TimeoutElapses(k))

Spec == Init /\ [][Next]_vars /\ Fairness

-----------------------------------------------------------------------------
\* kind a somewhere outside of kind b
Around(a, b) == \E i, j \in 1..Depth : i < j /\ chain[i] = a /\ chain[j] = b

\* The types; no retry() calls on after max_retries further attempts.
TypeOK ==
    /\ chain \in Chains /\ at \in 0..(Depth + 1)
    /\ doing \in {"run", "up", "sleep", "publish", "done"}
    /\ result \in {"none", "ok", "error", "permanent"}
    /\ tries \in [1..MaxDepth -> 0..MaxRetries]
    /\ span \in [1..MaxDepth -> {"none", "open", "ok", "error", "unset"}]
    /\ counted \in [1..MaxDepth -> Nat]
    /\ handled \in BOOLEAN /\ diverted \in 0..2
    /\ permanent \in BOOLEAN /\ recalled \in BOOLEAN

\* A message that is acked was handled or diverted; it is both, or diverted twice, only if the
\* chain tries again around the middleware that diverts, or diverts again.
HandledOrDivertedOnce ==
    /\ doing = "done" /\ result = "ok" => handled \/ diverted > 0
    /\ diverted > 1 \/ (handled /\ diverted > 0)
        => Around("retry", "divert") \/ Around("divert", "divert")

\* PermanentError skips retries, as its docstring says, as long as the chain has not another
\* retry() around the one that unwraps it, or around a diverting middleware that fails itself.
PermanentErrorIsNotRetried ==
    recalled => Around("retry", "retry") \/ Around("retry", "divert")

\* Tracing and metrics tell what happened, whatever is retried, diverted or timed out around and
\* below them: a span is open exactly while its call is; a message counts as consumed once at
\* most, and only if it is acked in the end; the outermost middleware counts it if and only if
\* it is, and its last span says the same.
ObserversTellTheOutcome ==
    /\ \A k \in Observers :
         /\ span[k] = "open" <=> doing # "done" /\ k < IF doing = "up" THEN at + 1 ELSE at
         /\ counted[k] <= 1
         /\ counted[k] = 1 => result = "ok" /\ span[k] = "ok"
    /\ doing = "done" /\ 1 \in Observers =>
         /\ result = "ok" <=> span[1] = "ok"
         /\ result = "ok" <=> counted[1] = 1

\* With a timeout() in the chain the delivery is settled, even if the function never returns.
TimedChainEnds == (\E k \in 1..Depth : chain[k] = "timeout") => <>(doing = "done")
=============================================================================
