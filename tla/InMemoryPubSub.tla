--------------------------- MODULE InMemoryPubSub ---------------------------
(***************************************************************************)
(* InMemoryPubSub (natricine/pubsub/memory.py): publish() fans a message   *)
(* out to one bounded memory stream per subscription, subscribe() returns  *)
(* an async generator over such a stream, close() shuts every stream.      *)
(*                                                                         *)
(* Everything runs on one event loop, so control moves between tasks only  *)
(* where an await really suspends.  A send into a stream that has room     *)
(* does not suspend: the variable loop names the task that still holds the *)
(* event loop, None when every task is suspended.                          *)
(***************************************************************************)
EXTENDS Integers, SequencesExt

CONSTANTS
    Topics,      \* topic names
    Subs,        \* calls of subscribe(), each with its own pair of streams
    Calls,       \* calls of publish(), each with its own batch
    Closers,     \* calls of close()
    TopicOf,     \* the topic argument of each subscribe() and publish()
    BatchSize,   \* messages per publish()
    BufferSize,  \* buffer_size of the constructor
    None

ASSUME PubSubAssumption ==
    /\ TopicOf \in [Subs \cup Calls -> Topics]
    /\ BatchSize \in Nat /\ BufferSize \in Nat
    /\ None \notin Subs \cup Calls \cup Closers \cup Topics
    /\ Calls \cap Closers = {}  \* a call is of publish() or of close()

VARIABLES
    closed,       \* _closed
    topics,       \* the keys of _topics
    subscribers,  \* topic -> its _TopicState.subscribers
    buffer,       \* sub -> items buffered in its stream
    senders,      \* sub -> publish() calls waiting for room, oldest first
    inbox,        \* sub -> item handed to a waiting receiver that has not run yet
    sendClosed,   \* subs whose send stream is closed
    recvClosed,   \* subs whose receive stream is closed
    it,           \* sub -> where its generator stands
    pc,           \* call -> where publish() stands
    msg, pos, at, \* call -> message index, list-iterator index, current stream
    cpc,          \* closer -> where close() stands
    cleft, ctopic, cpos,  \* closer -> topics to visit, current topic, list index
    loop,         \* the task holding the event loop
    received,     \* history: sub -> messages its generator yielded
    audience,     \* history: call or closer -> subs listed when it started
    passedOver,   \* history: call or closer -> subs its list iterator passed over
    before        \* history: call -> calls that had returned when it started

streamVars == <<buffer, senders, inbox, sendClosed, recvClosed>>
callVars   == <<pc, msg, pos, at>>
closeVars  == <<cpc, cleft, ctopic, cpos>>
histVars   == <<received, audience, passedOver, before>>
vars == <<closed, topics, subscribers, streamVars, it, callVars, closeVars, loop, histVars>>

Message == Calls \X (1..BatchSize)
Tasks   == Calls \cup Closers

IterStates == {"none",    \* subscribe() not called yet
               "new",     \* generator returned, never iterated
               "active",  \* in the loop body or about to receive
               "wait",    \* suspended in receive() on an empty stream
               "given",   \* handed an item, about to resume
               "fin",     \* loop left by break or exception, generator not finalised
               "unsent",  \* finally: send stream closed, receive stream to close
               "zombie",  \* finally interrupted: receive stream left open
               "done"}
CallStates == {"idle", "run", "blocked", "sent", "broken", "ok", "raised"}
CloseStates == {"idle", "run", "done", "raised"}

TypeOK ==
    /\ closed \in BOOLEAN
    /\ topics \in SUBSET Topics
    /\ subscribers \in [Topics -> Seq(Subs)]
    /\ buffer \in [Subs -> Seq(Message)] /\ inbox \in [Subs -> Seq(Message)]
    /\ senders \in [Subs -> Seq(Calls)]
    /\ sendClosed \in SUBSET Subs /\ recvClosed \in SUBSET Subs
    /\ it \in [Subs -> IterStates]
    /\ pc \in [Calls -> CallStates]
    /\ msg \in [Calls -> Nat] /\ pos \in [Calls -> Nat]
    /\ at \in [Calls -> Subs \cup {None}]
    /\ cpc \in [Closers -> CloseStates]
    /\ cleft \in [Closers -> SUBSET Topics]
    /\ ctopic \in [Closers -> Topics \cup {None}]
    /\ cpos \in [Closers -> Nat]
    /\ loop \in Tasks \cup {None}
    /\ received \in [Subs -> Seq(Message)]
    /\ audience \in [Tasks -> SUBSET Subs]
    /\ passedOver \in [Tasks -> SUBSET Subs]
    /\ before \in [Calls -> SUBSET Calls]

Init ==
    /\ closed = FALSE /\ topics = {} /\ subscribers = [t \in Topics |-> <<>>]
    /\ buffer = [s \in Subs |-> <<>>] /\ inbox = [s \in Subs |-> <<>>]
    /\ senders = [s \in Subs |-> <<>>]
    /\ sendClosed = {} /\ recvClosed = {}
    /\ it = [s \in Subs |-> "none"]
    /\ pc = [p \in Calls |-> "idle"]
    /\ msg = [p \in Calls |-> 1] /\ pos = [p \in Calls |-> 1]
    /\ at = [p \in Calls |-> None]
    /\ cpc = [c \in Closers |-> "idle"] /\ cleft = [c \in Closers |-> {}]
    /\ ctopic = [c \in Closers |-> None] /\ cpos = [c \in Closers |-> 1]
    /\ loop = None
    /\ received = [s \in Subs |-> <<>>]
    /\ audience = [x \in Tasks |-> {}] /\ passedOver = [x \in Tasks |-> {}]
    /\ before = [p \in Calls |-> {}]

-----------------------------------------------------------------------------
(* A subscription: subscribe() and its generator.                          *)

Subscribe(s) ==
    LET t == TopicOf[s] IN
    /\ loop = None /\ it[s] = "none" /\ ~closed
    /\ topics' = topics \cup {t}
    /\ subscribers' = [subscribers EXCEPT ![t] = Append(@, s)]
    /\ it' = [it EXCEPT ![s] = "new"]
    /\ UNCHANGED <<closed, streamVars, callVars, closeVars, loop, histVars>>

\* The first __anext__ runs the generator up to its first receive().
StartIterating(s) ==
    /\ loop = None /\ it[s] = "new"
    /\ it' = [it EXCEPT ![s] = "active"]
    /\ UNCHANGED <<closed, topics, subscribers, streamVars, callVars, closeVars, loop, histVars>>

Deliver(s, m) == received' = [received EXCEPT ![s] = Append(@, m)]

\* The copy of its current message that publish() sends.
FirstCopied(p) == <<p, 1>>  \* mutant: the first message of the batch is copied every time
Item(p) == <<p, msg[p]>>

\* The item that s's oldest waiting sender brings.
Offered(s) == Item(Head(senders[s]))

Refilled(s) == Append(buffer[s], Offered(s))

\* receive(): the oldest waiting sender's item enters the buffer and that sender
\* wakes up; then the head of the buffer is yielded.
ReceiveFromSender(s) ==
    /\ loop = None /\ it[s] = "active" /\ senders[s] # <<>>
    /\ senders' = [senders EXCEPT ![s] = Tail(@)]
    /\ pc' = [pc EXCEPT ![Head(senders[s])] = "sent"]
    /\ buffer' = [buffer EXCEPT ![s] = Tail(Refilled(s))]
    /\ Deliver(s, Head(Refilled(s)))
    /\ UNCHANGED <<closed, topics, subscribers, inbox, sendClosed, recvClosed, it, msg, pos, at,
                   closeVars, loop, audience, passedOver, before>>

ReceiveFromBuffer(s) ==
    /\ loop = None /\ it[s] = "active" /\ senders[s] = <<>> /\ buffer[s] # <<>>
    /\ buffer' = [buffer EXCEPT ![s] = Tail(@)]
    /\ Deliver(s, Head(buffer[s]))
    /\ UNCHANGED <<closed, topics, subscribers, senders, inbox, sendClosed, recvClosed, it,
                   callVars, closeVars, loop, audience, passedOver, before>>

ReceiveWaits(s) ==
    /\ loop = None /\ it[s] = "active" /\ senders[s] = <<>> /\ buffer[s] = <<>>
    /\ s \notin sendClosed
    /\ it' = [it EXCEPT ![s] = "wait"]
    /\ UNCHANGED <<closed, topics, subscribers, streamVars, callVars, closeVars, loop, histVars>>

TakeHandedOver(s) ==
    /\ loop = None /\ it[s] = "given"
    /\ inbox' = [inbox EXCEPT ![s] = <<>>]
    /\ it' = [it EXCEPT ![s] = "active"]
    /\ Deliver(s, Head(inbox[s]))
    /\ UNCHANGED <<closed, topics, subscribers, buffer, senders, sendClosed, recvClosed,
                   callVars, closeVars, loop, audience, passedOver, before>>

\* Where task x's iterator over the subscriber list of topic t stands, 0 if it has none.
Cursor(x, t) ==
    IF x \in Calls
    THEN IF TopicOf[x] = t /\ pc[x] \in {"run", "blocked", "sent", "broken"} THEN pos[x] ELSE 0
    ELSE IF ctopic[x] = t /\ cpc[x] = "run" THEN cpos[x] ELSE 0

\* The stream that a list iterator at index k passes over when s is removed from list:
\* every stream behind s moves one place to the front.
PassedOver(list, s, k) ==
    {list[j] : j \in {j \in 1..Len(list) : j = k /\ \E i \in 1..(k - 1) : list[i] = s}}

SendStreamLeftOpen(s) == UNCHANGED sendClosed  \* mutant: aclose() is missing
CloseSendStream(s) == sendClosed' = sendClosed \cup {s}

\* The finally block up to its first suspension: the send stream leaves the list,
\* unless close() has already cleared the topics, and is closed.
CleanUp(s, next) ==
    LET t == TopicOf[s] IN
    /\ subscribers' = [subscribers EXCEPT ![t] = IF t \in topics THEN RemoveFirst(@, s) ELSE @]
    /\ passedOver' = [x \in Tasks |->
                         IF t \in topics
                         THEN passedOver[x] \cup PassedOver(subscribers[t], s, Cursor(x, t))
                         ELSE passedOver[x]]
    /\ CloseSendStream(s)
    /\ it' = [it EXCEPT ![s] = next]
    /\ UNCHANGED <<closed, topics, buffer, senders, inbox, recvClosed, callVars, closeVars, loop,
                   received, audience, before>>

\* Nothing is left to receive: what a receiver finds, or what it slept on.
DrainedOnly(s) == it[s] = "active" /\ senders[s] = <<>> /\ buffer[s] = <<>>  \* mutant
Drained(s) == it[s] = "wait" \/ (it[s] = "active" /\ senders[s] = <<>> /\ buffer[s] = <<>>)

EndOfStream(s) == loop = None /\ s \in sendClosed /\ Drained(s) /\ CleanUp(s, "unsent")

\* break, an exception in the loop body, or a plain task cancellation: the
\* generator is closed later, by the event loop's finaliser.
Leave(s) ==
    /\ loop = None /\ it[s] \in {"active", "wait"}
    /\ it' = [it EXCEPT ![s] = "fin"]
    /\ UNCHANGED <<closed, topics, subscribers, streamVars, callVars, closeVars, loop, histVars>>

Finalise(s) == loop = None /\ it[s] = "fin" /\ CleanUp(s, "unsent")

\* An anyio scope around the loop is cancelled: cancellation is level triggered, so
\* send_stream.aclose() raises at its checkpoint and receive_stream.aclose() is skipped.
CancelScope(s) == loop = None /\ it[s] \in {"active", "wait"} /\ CleanUp(s, "zombie")

ReceiverLeftOpen(s) ==  \* mutant: receive_stream.aclose() is missing
    /\ loop = None /\ it[s] = "unsent"
    /\ it' = [it EXCEPT ![s] = "done"]
    /\ UNCHANGED <<closed, topics, subscribers, streamVars, callVars, closeVars, loop, histVars>>

\* receive_stream.aclose(): senders still waiting on it get BrokenResourceError.
CloseReceiver(s) ==
    /\ loop = None /\ it[s] = "unsent"
    /\ it' = [it EXCEPT ![s] = "done"]
    /\ recvClosed' = recvClosed \cup {s}
    /\ senders' = [senders EXCEPT ![s] = <<>>]
    /\ pc' = [p \in Calls |-> IF p \in ToSet(senders[s]) THEN "broken" ELSE pc[p]]
    /\ UNCHANGED <<closed, topics, subscribers, buffer, inbox, sendClosed, msg, pos, at,
                   closeVars, loop, histVars>>

-----------------------------------------------------------------------------
(* publish()                                                               *)

Finish(p, outcome) == pc' = [pc EXCEPT ![p] = outcome] /\ loop' = None

PublishRefused(p) ==
    /\ loop = None /\ pc[p] = "idle" /\ closed
    /\ Finish(p, "raised")
    /\ UNCHANGED <<closed, topics, subscribers, streamVars, it, msg, pos, at, closeVars, histVars>>

PublishDropped(p) ==
    /\ loop = None /\ pc[p] = "idle" /\ ~closed /\ TopicOf[p] \notin topics
    /\ Finish(p, "ok")
    /\ UNCHANGED <<closed, topics, subscribers, streamVars, it, msg, pos, at, closeVars, histVars>>

Publish(p) ==
    /\ loop = None /\ pc[p] = "idle" /\ ~closed /\ TopicOf[p] \in topics
    /\ pc' = [pc EXCEPT ![p] = "run"]
    /\ loop' = p
    /\ audience' = [audience EXCEPT ![p] = ToSet(subscribers[TopicOf[p]])]
    /\ before' = [before EXCEPT ![p] = {q \in Calls : pc[q] \in {"ok", "raised"}}]
    /\ UNCHANGED <<closed, topics, subscribers, streamVars, it, msg, pos, at, closeVars,
                   received, passedOver>>

\* p runs now: it kept the event loop, or its waiting send() has just succeeded.
Runs(p) == pc[p] \in {"run", "sent"} /\ (loop = p \/ (loop = None /\ pc[p] = "sent"))

OneMoreMessage(p) == msg[p] <= BatchSize + 1  \* mutant: off by one
HasMessage(p) == msg[p] <= BatchSize

AllButLast(p) == pos[p] < Len(subscribers[TopicOf[p]])  \* mutant: off by one
HasNextStream(p) == pos[p] <= Len(subscribers[TopicOf[p]])

Stream(p) == subscribers[TopicOf[p]][pos[p]]

Open(s) == s \notin sendClosed

Awaited(s) == it[s] = "wait"

Unbounded(s) == TRUE  \* mutant: the stream is created without buffer_size
HasRoom(s) == Len(buffer[s]) < BufferSize

\* The next stream of the live list that send() is called on.
AtStream(p) ==
    /\ Runs(p) /\ HasMessage(p) /\ HasNextStream(p)
    /\ pos' = [pos EXCEPT ![p] = @ + 1]
    /\ at' = [at EXCEPT ![p] = Stream(p)]
    /\ UNCHANGED <<closed, topics, subscribers, sendClosed, recvClosed, msg, closeVars, histVars>>

SendRefused(p) ==
    /\ AtStream(p) /\ ~Open(Stream(p))
    /\ Finish(p, "raised")
    /\ UNCHANGED <<buffer, senders, inbox, it>>

SendHandsOver(p) ==
    LET s == Stream(p) IN
    /\ AtStream(p) /\ Open(s) /\ Awaited(s)
    /\ inbox' = [inbox EXCEPT ![s] = <<Item(p)>>]
    /\ it' = [it EXCEPT ![s] = "given"]
    /\ pc' = [pc EXCEPT ![p] = "run"] /\ loop' = p
    /\ UNCHANGED <<buffer, senders>>

\* That send() does not suspend when there is room is what the code relies on anyio for.
SendBuffers(p) ==
    LET s == Stream(p) IN
    /\ AtStream(p) /\ Open(s) /\ ~Awaited(s) /\ HasRoom(s)
    /\ buffer' = [buffer EXCEPT ![s] = Append(@, Item(p))]
    /\ pc' = [pc EXCEPT ![p] = "run"] /\ loop' = p
    /\ UNCHANGED <<senders, inbox, it>>

SendBlocks(p) ==
    LET s == Stream(p) IN
    /\ AtStream(p) /\ Open(s) /\ ~Awaited(s) /\ ~HasRoom(s)
    /\ senders' = [senders EXCEPT ![s] = Append(@, p)]
    /\ Finish(p, "blocked")
    /\ UNCHANGED <<buffer, inbox, it>>

NextMessage(p) ==
    /\ Runs(p) /\ HasMessage(p) /\ ~HasNextStream(p)
    /\ msg' = [msg EXCEPT ![p] = @ + 1]
    /\ pos' = [pos EXCEPT ![p] = 1]
    /\ pc' = [pc EXCEPT ![p] = "run"] /\ loop' = p
    /\ UNCHANGED <<closed, topics, subscribers, streamVars, it, at, closeVars, histVars>>

PublishReturns(p) ==
    /\ Runs(p) /\ ~HasMessage(p)
    /\ Finish(p, "ok")
    /\ UNCHANGED <<closed, topics, subscribers, streamVars, it, msg, pos, at, closeVars, histVars>>

\* The receive stream was closed under a waiting send().
SendBroken(p) ==
    /\ loop = None /\ pc[p] = "broken"
    /\ Finish(p, "raised")
    /\ UNCHANGED <<closed, topics, subscribers, streamVars, it, msg, pos, at, closeVars, histVars>>

\* The publisher's task is cancelled while send() waits: its item is withdrawn.
CancelPublish(p) ==
    /\ loop = None /\ pc[p] = "blocked"
    /\ senders' = [senders EXCEPT ![at[p]] = RemoveFirst(@, p)]
    /\ Finish(p, "raised")
    /\ UNCHANGED <<closed, topics, subscribers, buffer, inbox, sendClosed, recvClosed, it,
                   msg, pos, at, closeVars, histVars>>

-----------------------------------------------------------------------------
(* close()                                                                 *)

CloseBegins(c) ==
    /\ loop = None /\ cpc[c] = "idle"
    /\ closed' = TRUE
    /\ cpc' = [cpc EXCEPT ![c] = "run"] /\ loop' = c
    /\ cleft' = [cleft EXCEPT ![c] = topics]
    /\ audience' = [audience EXCEPT ![c] = UNION {ToSet(subscribers[t]) : t \in topics}]
    /\ UNCHANGED <<topics, subscribers, streamVars, it, callVars, ctopic, cpos, received,
                   passedOver, before>>

Closing(c) == cpc[c] = "run" /\ loop \in {None, c}

\* The live list of the topic under way still has a stream for c.
HasStreamButLast(c) == ctopic[c] # None /\ cpos[c] < Len(subscribers[ctopic[c]])  \* mutant
HasStream(c) == ctopic[c] # None /\ cpos[c] <= Len(subscribers[ctopic[c]])

\* send_stream.aclose() closes the stream and always suspends.
CloseStream(c) ==
    /\ Closing(c) /\ HasStream(c)
    /\ sendClosed' = sendClosed \cup {subscribers[ctopic[c]][cpos[c]]}
    /\ cpos' = [cpos EXCEPT ![c] = @ + 1]
    /\ loop' = None
    /\ UNCHANGED <<closed, topics, subscribers, buffer, senders, inbox, recvClosed, it, callVars,
                   cpc, cleft, ctopic, histVars>>

\* Another close() has emptied the dictionary that c iterates over.
DictChanged(c) == ctopic[c] # None /\ topics = {}

CloseNextTopic(c) ==
    /\ Closing(c) /\ ~HasStream(c) /\ ~DictChanged(c)
    /\ \E t \in cleft[c] :
          /\ ctopic' = [ctopic EXCEPT ![c] = t]
          /\ cleft' = [cleft EXCEPT ![c] = @ \ {t}]
    /\ cpos' = [cpos EXCEPT ![c] = 1]
    /\ loop' = c
    /\ UNCHANGED <<closed, topics, subscribers, streamVars, it, callVars, cpc, histVars>>

CloseReturns(c) ==
    /\ Closing(c) /\ ~HasStream(c) /\ ~DictChanged(c) /\ cleft[c] = {}
    /\ topics' = {}
    /\ cpc' = [cpc EXCEPT ![c] = "done"] /\ loop' = None
    /\ UNCHANGED <<closed, subscribers, streamVars, it, callVars, cleft, ctopic, cpos, histVars>>

\* RuntimeError: dictionary changed size during iteration.
CloseRaises(c) ==
    /\ Closing(c) /\ ~HasStream(c) /\ DictChanged(c)
    /\ cpc' = [cpc EXCEPT ![c] = "raised"] /\ loop' = None
    /\ UNCHANGED <<closed, topics, subscribers, streamVars, it, callVars, cleft, ctopic, cpos,
                   histVars>>

-----------------------------------------------------------------------------
Receive(s) == ReceiveFromSender(s) \/ ReceiveFromBuffer(s) \/ ReceiveWaits(s)

\* What a subscription does by itself once its generator runs.
Iterate(s) == Receive(s) \/ TakeHandedOver(s) \/ EndOfStream(s) \/ Finalise(s) \/ CloseReceiver(s)

PublishStep(p) ==
    \/ PublishRefused(p) \/ PublishDropped(p) \/ Publish(p)
    \/ SendRefused(p) \/ SendHandsOver(p) \/ SendBuffers(p) \/ SendBlocks(p)
    \/ NextMessage(p) \/ PublishReturns(p) \/ SendBroken(p)

CloseStep(c) == CloseStream(c) \/ CloseNextTopic(c) \/ CloseReturns(c) \/ CloseRaises(c)

Next ==
    \/ \E s \in Subs : Subscribe(s) \/ StartIterating(s) \/ Iterate(s) \/ Leave(s) \/ CancelScope(s)
    \/ \E p \in Calls : PublishStep(p) \/ CancelPublish(p)
    \/ \E c \in Closers : CloseBegins(c) \/ CloseStep(c)

\* A task that is ready runs eventually, and a started iteration keeps asking for
\* the next message; nobody has to subscribe, iterate, leave, cancel or close.
Fairness ==
    /\ \A s \in Subs : WF_vars(Iterate(s))
    /\ \A p \in Calls : WF_vars(PublishStep(p))
    /\ \A c \in Closers : WF_vars(CloseStep(c))

Spec == Init /\ [][Next]_vars /\ Fairness

-----------------------------------------------------------------------------
(* Properties                                                              *)

\* The items of the senders that wait on s's stream, in their order.
Waiting(s) == [i \in DOMAIN senders[s] |-> Item(senders[s][i])]

\* Everything s's stream has accepted or is about to accept, oldest first.
Pipeline(s) == received[s] \o inbox[s] \o buffer[s] \o Waiting(s)

Gone(s) == it[s] \in {"fin", "unsent", "zombie", "done"}

\* Backpressure (memory.py:49-51, 39): a stream never holds more than buffer_size
\* items, a publisher waits only while the stream is full, and an item handed over
\* directly is there exactly while the receiver that slept is yet to take it.
Backpressure ==
    \A s \in Subs :
        /\ Len(buffer[s]) <= BufferSize
        /\ senders[s] # <<>> => Len(buffer[s]) = BufferSize
        /\ inbox[s] # <<>> <=> it[s] = "given"

\* Each subscriber sees the messages of one publish() in batch order and none twice,
\* and those of a call that had returned before another one started before those of
\* that other call, whatever leaves, blocks or is cancelled in between.
InOrder ==
    \A s \in Subs : \A i, j \in 1..Len(Pipeline(s)) :
        LET m == Pipeline(s)[i]  n == Pipeline(s)[j]
        IN i < j => /\ m[1] = n[1] => m[2] < n[2]
                    /\ n[1] \notin before[m[1]]

Reached(p, s) == \A i \in 1..BatchSize : \E j \in DOMAIN Pipeline(s) : Pipeline(s)[j] = <<p, i>>

\* A publish() that returned reached every subscription listed when it started, except
\* those that left and those its iterator passed over because an earlier one left.
FanOutUnlessPassedOver ==
    \A p \in Calls : pc[p] = "ok" =>
        \A s \in audience[p] \ passedOver[p] : Reached(p, s) \/ Gone(s)

\* docs/backends/memory.md:46 "All subscribers receive all messages": a publish() that
\* returned normally reached every subscription that was there from start to end.
AllSubscribersReceiveAllMessages ==
    \A p \in Calls : pc[p] = "ok" => \A s \in audience[p] : Reached(p, s) \/ Gone(s)

\* When close() returns, every stream listed when it started is closed, except those
\* its iterator passed over because a subscription woken by close() left the list.
CloseReachesStreams ==
    \A c \in Closers : cpc[c] = "done" => audience[c] \ passedOver[c] \subseteq sendClosed

\* test_robustness.py: no zombie subscribers. Once a subscription has closed its send
\* stream, no publisher puts another message into it or starts to wait on it.
DepartedGetsNothing ==
    [][\A s \in Subs : it[s] \in {"unsent", "zombie", "done"} =>
          Len(Pipeline(s)') <= Len(Pipeline(s)) /\ Len(senders[s]') <= Len(senders[s])]_vars

\* A publisher that waits for room goes on, unless its subscription was never iterated
\* or its scope was cancelled: leaving and close() both release it.
BlockedPublisherGoesOn ==
    \A p \in Calls, s \in Subs :
        pc[p] = "blocked" /\ at[p] = s
            ~> ~(pc[p] = "blocked" /\ at[p] = s) \/ it[s] \in {"new", "zombie"}

\* An iteration whose send stream is closed drains what was sent and ends.
ClosedStreamEnds ==
    \A s \in Subs : s \in sendClosed ~> it[s] \in {"new", "zombie", "done"}

\* test_robustness.py "Closing pubsub during iteration should not hang": once close()
\* has returned, every iteration that was waiting for a message ends.
CloseEndsIteration ==
    \A c \in Closers, s \in Subs :
        cpc[c] = "done" /\ it[s] = "wait" ~> it[s] # "wait"
=============================================================================
