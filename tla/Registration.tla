---------------------------- MODULE Registration ----------------------------
(***************************************************************************)
(* Which handlers a CommandBus or an EventBus knows, the topics it         *)
(* publishes to and those it subscribes to: handler() and include_router() *)
(* of both buses, handler() of CommandRouter and EventRouter, the          *)
(* subscriptions that run() makes, and whom a send() or publish() reaches. *)
(*                                                                         *)
(* run() fixes the topics of its loops once; send() and publish() compute  *)
(* the topic at every call.  A topic is a sequence: the extra prefix of    *)
(* the type, then its name.  (topic_prefix is the same for all types of a  *)
(* bus and left out.)                                                      *)
(***************************************************************************)
EXTENDS Naturals, FiniteSets, Sequences, SequencesExt

CONSTANTS
    Types,          \* the types of commands, or of events
    Funcs,          \* the functions that are registered
    TypeOf,         \* a function's first parameter has this type
    Extras,         \* prefixes given to include_router(), <<>> is none
    Setups,         \* how the bus and its backend are set up, see Topic and Subscriber
    MaxCalls        \* bound on the calls that register

VARIABLES
    kind,           \* "command" or "event"
    handlers,       \* _handlers of the bus: a type's functions, of a command at most one
    prefixes,       \* _handler_prefixes
    order, routed,  \* _handlers of the router: its types as they came, and their functions
    loops,          \* one _run_handler() for every handler there was at run(), {} when stopped
    calls

vars == <<kind, handlers, prefixes, order, routed, loops, calls>>

Init ==
    /\ kind \in {"command", "event"}
    /\ handlers = [t \in Types |-> <<>>] /\ routed = handlers
    /\ prefixes = [t \in Types |-> <<>>]
    /\ order = <<>> /\ loops = {} /\ calls = 0

-----------------------------------------------------------------------------
(* Registering.                                                            *)

\* A command's handler silently replaces the one there was.
With(fs, f) == IF kind = "command" THEN <<f>> ELSE Append(fs, f)

Registers == calls < MaxCalls /\ calls' = calls + 1 /\ UNCHANGED <<kind, loops>>

Handler(f) ==
    /\ Registers
    /\ handlers' = [handlers EXCEPT ![TypeOf[f]] = With(@, f)]
    /\ UNCHANGED <<prefixes, order, routed>>

RouterHandler(f) ==
    /\ Registers
    /\ routed' = [routed EXCEPT ![TypeOf[f]] = With(@, f)]
    /\ order' = IF TypeOf[f] \in ToSet(order) THEN order ELSE Append(order, TypeOf[f])
    /\ UNCHANGED <<handlers, prefixes>>

\* Raises at the first type that has a handler; the types before it stay registered.
BeforeDuplicate ==
    {order[i] : i \in {i \in DOMAIN order : \A j \in 1..i : handlers[order[j]] = <<>>}}

\* mutant: the prefix is stored before the duplicate is refused
PrefixFirst(p) ==
    /\ kind = "command"
    /\ Registers
    /\ handlers' = [t \in Types |-> IF t \in BeforeDuplicate THEN routed[t] ELSE handlers[t]]
    /\ prefixes' = [t \in Types |-> IF t \in ToSet(order) /\ p # <<>> THEN p ELSE prefixes[t]]
    /\ UNCHANGED <<order, routed>>

IncludeCommands(p) ==
    /\ kind = "command"
    /\ Registers
    /\ handlers' = [t \in Types |-> IF t \in BeforeDuplicate THEN routed[t] ELSE handlers[t]]
    /\ prefixes' = [t \in Types |->
                      IF t \in BeforeDuplicate /\ p # <<>> THEN p ELSE prefixes[t]]
    /\ UNCHANGED <<order, routed>>

\* mutant: every router's prefix replaces the one before
PrefixReplaced(p) ==
    /\ kind = "event"
    /\ Registers
    /\ handlers' = [t \in Types |-> handlers[t] \o routed[t]]
    /\ prefixes' = [t \in Types |-> IF t \in ToSet(order) THEN p ELSE prefixes[t]]
    /\ UNCHANGED <<order, routed>>

\* The prefix is the type's, not the handlers': it also moves those registered before.
IncludeEvents(p) ==
    /\ kind = "event"
    /\ Registers
    /\ handlers' = [t \in Types |-> handlers[t] \o routed[t]]
    /\ prefixes' = [t \in Types |->
                      IF t \in ToSet(order) /\ prefixes[t] = <<>> THEN p ELSE prefixes[t]]
    /\ UNCHANGED <<order, routed>>

\* A run without handlers has no tasks and is over at once: nothing changes.
Run ==
    /\ loops = {}
    /\ loops' = UNION {{[type |-> t, func |-> handlers[t][i], nth |-> i, extra |-> prefixes[t]] :
                            i \in DOMAIN handlers[t]} : t \in Types}
    /\ UNCHANGED <<kind, handlers, prefixes, order, routed, calls>>

RunEnds ==
    /\ loops # {} /\ loops' = {}
    /\ UNCHANGED <<kind, handlers, prefixes, order, routed, calls>>

Next ==
    \/ \E f \in Funcs : Handler(f) \/ RouterHandler(f)
    \/ \E p \in Extras : IncludeCommands(p) \/ IncludeEvents(p)
    \/ Run \/ RunEnds

Spec == Init /\ [][Next]_vars

-----------------------------------------------------------------------------
(* Sending and publishing change nothing of the bus; whom they reach is a  *)
(* function of its state and its setup: generate_topic given ("each" type  *)
(* its own topic, or "one" for all) or "default"; the names that the       *)
(* marshaler gives the types; a backend that broadcasts to all             *)
(* subscriptions, or one whose subscriptions compete, with a "shared"      *)
(* subscriber or the handlers' "own" ones from subscriber_factory, which   *)
(* the bus keeps by the functions' names; functions with the same name.    *)

Topic(s, t, extra) ==
    CASE s.topics = "default" -> extra \o s.names[t]
      [] s.topics = "each" -> s.names[t]
      [] s.topics = "one" -> <<>>

Subscriber(s, f) ==
    IF s.delivery = "shared" THEN "subscriber" ELSE IF f \in s.namesakes THEN "namesake" ELSE f

Hears(s, t) == {l \in loops : Topic(s, l.type, l.extra) = Topic(s, t, prefixes[t])}

\* The sets of loops that may get what is sent: competing ones of a subscriber share it.
Receivers(s, t) ==
    IF s.delivery = "broadcast" THEN {Hears(s, t)}
    ELSE {got \in SUBSET Hears(s, t) :
            \A l \in Hears(s, t) :
                Cardinality({k \in got : Subscriber(s, k.func) = Subscriber(s, l.func)}) = 1}

-----------------------------------------------------------------------------
LoopType == [type : Types, func : Funcs, nth : Nat, extra : Extras]

\* The type of the state: a command has one handler at most, and a prefix only with a handler.
TypeOK ==
    /\ kind \in {"command", "event"} /\ calls \in 0..MaxCalls
    /\ handlers \in [Types -> Seq(Funcs)] /\ routed \in [Types -> Seq(Funcs)]
    /\ prefixes \in [Types -> Extras]
    /\ ToSet(order) = {t \in Types : routed[t] # <<>>} /\ IsInjective(order)
    /\ \A l \in loops : l \in LoopType /\ TypeOf[l.func] = l.type
    /\ kind = "command" => \A t \in Types : Len(handlers[t]) <= 1 /\ Len(routed[t]) <= 1
    /\ \A t \in Types : prefixes[t] # <<>> => handlers[t] # <<>>

\* "Publish an event to all registered handlers" (event_bus.py:172), and a command to its one
\* handler, whatever is registered while the bus runs: a handler there was at run() misses what
\* is sent only because the subscriptions compete and another loop on its topic has the same
\* subscriber, or because an event router with a prefix, included since run(), moved the topic
\* the bus publishes to and not the one the loop listens on.  A command bus never moves a topic
\* it listens on.
RunningHandlersAreReached ==
    \A s \in Setups, l \in loops :
        \A got \in Receivers(s, l.type) :
            \/ l \in got
            \/ /\ kind = "event" /\ s.topics = "default"
               /\ l.extra = <<>> /\ prefixes[l.type] # <<>>
            \/ /\ s.delivery # "broadcast"
               /\ \E k \in loops \ {l} :
                    /\ Topic(s, k.type, k.extra) = Topic(s, l.type, l.extra)
                    /\ s.delivery = "own" => k.func = l.func \/ {k.func, l.func} \subseteq s.namesakes

\* Registering only adds: the handlers of a type are replaced only by handler() of a command
\* bus, the first prefix of a type is its last, and once a type has handlers its topic changes
\* at most by an event router's prefix.
OnlyAdds ==
    \A t \in Types :
      /\ IsPrefix(handlers[t], handlers'[t]) \/ (kind = "command" /\ \E f \in Funcs : Handler(f))
      /\ prefixes[t] # <<>> => prefixes'[t] = prefixes[t]
      /\ prefixes'[t] # prefixes[t] /\ kind = "command" => handlers[t] = <<>>

RegistrationOnlyAdds == [][OnlyAdds]_vars
=============================================================================
