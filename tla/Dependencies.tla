---------------------------- MODULE Dependencies ----------------------------
(***************************************************************************)
(* call_with_deps(): a bus handler is called with its message and with the *)
(* results of its dependencies.  Every Depends parameter is resolved in    *)
(* the order of the signature, its own dependencies first, and anew for    *)
(* every parameter: nothing is shared within a call or between calls.      *)
(* Coroutine functions run on the event loop; all others in threads of     *)
(* anyio's limiter, of which there are Threads for all calls.              *)
(*                                                                         *)
(* A call is the stack of functions it is in; a frame is a function and    *)
(* its parameters resolved so far.  Dependencies without cycles are        *)
(* assumed (resolve_dependencies() would not end), and so are functions    *)
(* that return.                                                            *)
(***************************************************************************)
EXTENDS Naturals, FiniteSets, Sequences, SequencesExt

CONSTANTS
    Calls,          \* calls of the handler, each for one message
    Root,           \* the handler
    Needs,          \* the dependencies of a function, one for every Depends parameter
    Threads

VARIABLES
    inThread,       \* functions that are not coroutine functions
    stack,          \* per call, the handler first; <<>> when it has ended
    phase,          \* of the innermost function: "resolving", "queued" for a thread, or "running"
    cancelled        \* calls that a cancellation has reached

vars == <<inThread, stack, phase, cancelled>>

Frame(f) == [func |-> f, resolved |-> 0]

\* The handler and what it needs, directly or not, are of either kind.
Init ==
    /\ inThread \in SUBSET DOMAIN Needs
    /\ stack = [c \in Calls |-> <<Frame(Root)>>]
    /\ phase = [c \in Calls |-> "resolving"]
    /\ cancelled = {}

Ended(c) == stack[c] = <<>>
Inner(c) == Last(stack[c])

\* mutant: a function has its thread while its parameters are resolved, too
HeldThroughout == {c \in Calls : \E i \in DOMAIN stack[c] : stack[c][i].func \in inThread}

\* Threads are taken by functions that run, one for every call that has one running.
InUse == {c \in Calls : ~Ended(c) /\ phase[c] = "running" /\ Inner(c).func \in inThread}

-----------------------------------------------------------------------------
\* The next parameter: its function is resolved first, whatever was resolved before.
Resolve(c) ==
    /\ ~Ended(c) /\ phase[c] = "resolving"
    /\ Inner(c).resolved < Len(Needs[Inner(c).func])
    /\ stack' = [stack EXCEPT ![c] = Append(@, Frame(Needs[Inner(c).func][Inner(c).resolved + 1]))]
    /\ UNCHANGED <<inThread, phase, cancelled>>

\* All parameters are there.
CallFunction(c) ==
    /\ ~Ended(c) /\ phase[c] = "resolving"
    /\ Inner(c).resolved = Len(Needs[Inner(c).func])
    /\ phase' = [phase EXCEPT ![c] = IF Inner(c).func \in inThread THEN "queued" ELSE "running"]
    /\ UNCHANGED <<inThread, stack, cancelled>>

GetThread(c) ==
    /\ ~Ended(c) /\ phase[c] = "queued"
    /\ Cardinality(InUse) < Threads
    /\ phase' = [phase EXCEPT ![c] = "running"]
    /\ UNCHANGED <<inThread, stack, cancelled>>

\* The result becomes an argument of the caller; that of the handler ends the call.
Returned(s) == IF Len(s) = 1 THEN <<>> ELSE [Front(s) EXCEPT ![Len(s) - 1].resolved = @ + 1]

Return(c) ==
    /\ ~Ended(c) /\ phase[c] = "running"
    /\ stack' = [stack EXCEPT ![c] = Returned(@)]
    /\ phase' = [phase EXCEPT ![c] = "resolving"]
    /\ UNCHANGED <<inThread, cancelled>>

Unwind(c) ==
    /\ stack' = [stack EXCEPT ![c] = <<>>]
    /\ phase' = [phase EXCEPT ![c] = "resolving"]
    /\ UNCHANGED <<inThread, cancelled>>

\* An exception of a dependency is the handler's.
Raise(c) == ~Ended(c) /\ phase[c] = "running" /\ Unwind(c)

\* close() of the bus, or the failure of another handler, cancels the call: at the next await
\* of a coroutine, or while it is queued.  A thread is not interrupted: the call goes on when
\* the function has returned.
Cancel(c) ==
    /\ ~Ended(c) /\ cancelled' = cancelled \cup {c}
    /\ UNCHANGED <<inThread, stack, phase>>

Cancelled(c) ==
    /\ c \in cancelled /\ ~Ended(c)
    /\ phase[c] = "queued" \/ (phase[c] = "running" /\ Inner(c).func \notin inThread)
    /\ Unwind(c)

Proceeds(c) == Resolve(c) \/ CallFunction(c) \/ GetThread(c) \/ Return(c) \/ Raise(c) \/ Cancelled(c)

Next == \E c \in Calls : Proceeds(c) \/ Cancel(c)

\* A call that can go on does, and a thread that is free is given to one that waits.
Fairness == \A c \in Calls : WF_vars(Proceeds(c))

Spec == Init /\ [][Next]_vars /\ Fairness

-----------------------------------------------------------------------------
\* The type of the state.
TypeOK ==
    /\ inThread \subseteq DOMAIN Needs /\ cancelled \subseteq Calls
    /\ \A c \in Calls :
         /\ phase[c] \in {"resolving", "queued", "running"}
         /\ \A i \in DOMAIN stack[c] :
              /\ stack[c][i].func \in DOMAIN Needs
              /\ stack[c][i].resolved \in 0..Len(Needs[stack[c][i].func])
    /\ Cardinality(InUse) <= Threads

\* Every call ends, however few threads there are and however deeply functions that need one
\* depend on others that do: a function has its thread only while it runs.
CallEnds == \A c \in Calls : <>Ended(c)
=============================================================================
