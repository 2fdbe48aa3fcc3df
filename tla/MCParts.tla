------------------------------ MODULE MCParts ------------------------------
(***************************************************************************)
(* Four backends, the clients of publishers, the middleware chain,         *)
(* graceful_shutdown(), the registration of bus handlers, their            *)
(* dependencies, and the formats of messages, checked by one run.  Init    *)
(* picks one of these parts, and from then on only that one moves: they    *)
(* do not interact.  The backends share what Competing declares, and what  *)
(* is fair for every one of them.                                          *)
(***************************************************************************)
EXTENDS Competing

CONSTANTS None, NoClient, Senders, MaxRetries, MaxDepth, Closeables,
          MaxCalls, Threads, MaxLayers, MaxHops

\* Consumers and senders are not None, and the numbered clients of AwsQueue are not NoClient.
ASSUME NobodyAssumption ==
    /\ {None, NoClient} \cap (Consumers \cup Senders) = {}
    /\ NoClient \notin Nat

\* The bounds and sizes are numbers; there is a process, and so a finite number of calls.
ASSUME SizesAssumption ==
    /\ {MaxRetries, MaxDepth, Closeables, MaxCalls, Threads, MaxLayers, MaxHops} \subseteq Nat
    /\ IsFiniteSet(Senders)

VARIABLES
    part,
    read, pel,                                              \* RedisStream
    committed, owner, position, nacked, overtaken,          \* KafkaPartition
    service, client, opened, shut, uses, closing, overlapped, policy, subscribed, setUp,
    visible, hidden, lapsed, wanted,                        \* AwsQueue
    pub, posted, queue, verdict, givenUp,                   \* HttpWebhook
    chain, at, doing, result, tries, span, counted,         \* Middleware
    handled, diverted, permanent, recalled,
    running, installed, event, watcher, run, close, scope, alone,            \* GracefulShutdown
    kind, handlers, prefixes, order, routed, loops, calls,  \* Registration
    inThread, stack, phase, cancelled,                      \* Dependencies
    sent, value, got, path, broken,                         \* MessageFormats
    sort, shared, clients, stage, using, refuses, exit, resolved, crossed    \* LazyClient

redisVars == <<read, pel>>
kafkaVars == <<committed, owner, position, nacked, overtaken>>
awsVars == <<service, client, opened, shut, uses, closing, overlapped, policy, subscribed, setUp,
             visible, hidden, lapsed, wanted>>
httpVars == <<pub, posted, queue, verdict, givenUp>>
chainVars == <<chain, at, doing, result, tries, span, counted, handled, diverted, permanent,
               recalled>>
shutdownVars == <<running, installed, event, watcher, run, close, scope, alone>>
registerVars == <<kind, handlers, prefixes, order, routed, loops, calls>>
callVars == <<inThread, stack, phase, cancelled>>
formatVars == <<sent, value, got, path, broken>>
sharedVars == <<sort, shared, clients, stage, using, refuses, exit, resolved, crossed>>
vars == <<part, commonVars, redisVars, kafkaVars, awsVars, httpVars, chainVars, shutdownVars,
          registerVars, callVars, formatVars, sharedVars>>

Redis == INSTANCE RedisStream
Kafka == INSTANCE KafkaPartition
Aws == INSTANCE AwsQueue WITH MaxHeld <- 1
Http == INSTANCE HttpWebhook
Chain == INSTANCE Middleware
Shutdown == INSTANCE GracefulShutdown

\* Two types of messages and three functions.  The topics are the names behind the prefix, with
\* one name for both types and one that begins with a prefix among the possibilities, or
\* what generate_topic makes of distinct names.
Names == {[t |-> <<"t">>, u |-> name] : name \in {<<"u">>, <<"t">>, <<"p", "t">>}}
Delivered == [delivery : {"broadcast", "shared", "own"}, namesakes : {{}, {"f", "g"}, {"f", "h"}}]
Setups ==
    {[topics |-> "default", names |-> names, delivery |-> d.delivery, namesakes |-> d.namesakes] :
        names \in Names, d \in Delivered}
    \cup
    {[topics |-> topics, names |-> [t |-> <<"t">>, u |-> <<"u">>],
      delivery |-> d.delivery, namesakes |-> d.namesakes] : topics \in {"each", "one"}, d \in Delivered}

Register == INSTANCE Registration WITH
    Types <- {"t", "u"}, Funcs <- {"f", "g", "h"}, TypeOf <- [f |-> "t", g |-> "t", h |-> "u"],
    Extras <- {<<>>, <<"p">>, <<"q">>}

\* A handler with two dependencies, the first of which needs the second.
Call == INSTANCE Dependencies WITH
    Calls <- Senders, Root <- "h", Needs <- [h |-> <<"a", "b">>, a |-> <<"b">>, b |-> <<>>]

Format == INSTANCE MessageFormats
Lazy == INSTANCE LazyClient WITH Publishes <- Senders

WithLog == {"redis", "kafka", "aws"}
WithConsumers == WithLog \cup {"http"}

\* The variables of a part that was not picked are 0 throughout.
Init ==
    /\ part \in {"redis", "kafka", "aws", "http", "chain", "shutdown",
                "register", "call", "format", "publish"}
    /\ IF part = "redis" THEN Redis!Init ELSE read = 0 /\ pel = 0
    /\ IF part = "kafka" THEN Kafka!Init
       ELSE committed = 0 /\ owner = 0 /\ position = 0 /\ nacked = 0 /\ overtaken = 0
    /\ IF part = "aws" THEN Aws!Init
       ELSE /\ service = 0 /\ client = 0 /\ opened = 0 /\ shut = 0 /\ uses = 0 /\ closing = 0
            /\ overlapped = 0 /\ policy = 0 /\ subscribed = 0 /\ setUp = 0
            /\ visible = 0 /\ hidden = 0 /\ lapsed = 0 /\ wanted = 0
    /\ IF part = "http" THEN Http!Init
       ELSE pub = 0 /\ posted = 0 /\ queue = 0 /\ verdict = 0 /\ givenUp = 0
    /\ IF part = "chain" THEN Chain!Init
       ELSE /\ chain = 0 /\ at = 0 /\ doing = 0 /\ result = 0 /\ tries = 0
            /\ span = 0 /\ counted = 0
            /\ handled = 0 /\ diverted = 0 /\ permanent = 0 /\ recalled = 0
    /\ IF part = "shutdown" THEN Shutdown!Init
       ELSE /\ running = 0 /\ installed = 0 /\ event = 0 /\ watcher = 0
            /\ run = 0 /\ close = 0 /\ scope = 0 /\ alone = 0
    /\ IF part = "register" THEN Register!Init
       ELSE /\ kind = 0 /\ handlers = 0 /\ prefixes = 0 /\ order = 0 /\ routed = 0
            /\ loops = 0 /\ calls = 0
    /\ IF part = "call" THEN Call!Init
       ELSE inThread = 0 /\ stack = 0 /\ phase = 0 /\ cancelled = 0
    /\ IF part = "format" THEN Format!Init
       ELSE sent = 0 /\ value = 0 /\ got = 0 /\ path = 0 /\ broken = 0
    /\ IF part = "publish" THEN Lazy!Init
       ELSE /\ sort = 0 /\ shared = 0 /\ clients = 0 /\ stage = 0 /\ using = 0
            /\ refuses = 0 /\ exit = 0 /\ resolved = 0 /\ crossed = 0
    /\ part \notin WithLog => published = 0 /\ acked = 0 /\ batch = 0 /\ crashes = 0
    /\ part \notin WithConsumers => it = 0 /\ held = 0 /\ closed = 0

\* A step of part p.
Of(p) ==
    /\ part = p /\ UNCHANGED part
    /\ p # "redis" => UNCHANGED redisVars
    /\ p # "kafka" => UNCHANGED kafkaVars
    /\ p # "aws" => UNCHANGED awsVars
    /\ p # "http" => UNCHANGED httpVars
    /\ p # "chain" => UNCHANGED chainVars
    /\ p # "shutdown" => UNCHANGED shutdownVars
    /\ p # "register" => UNCHANGED registerVars
    /\ p # "call" => UNCHANGED callVars
    /\ p # "format" => UNCHANGED formatVars
    /\ p # "publish" => UNCHANGED sharedVars
    /\ p \notin WithLog => UNCHANGED <<published, acked, batch, crashes>>
    /\ p \notin WithConsumers => UNCHANGED <<it, held, closed>>

Next ==
    \/ Of("redis") /\ Redis!Next
    \/ Of("kafka") /\ Kafka!Next
    \/ Of("aws") /\ Aws!Next
    \/ Of("http") /\ Http!Next
    \/ Of("chain") /\ Chain!Next
    \/ Of("shutdown") /\ Shutdown!Next
    \/ Of("register") /\ Register!Next
    \/ Of("call") /\ Call!Next
    \/ Of("format") /\ Format!Next
    \/ Of("publish") /\ Lazy!Next

\* The fairness of the modules, conjunct by conjunct.
Iterates(c) ==
    \/ Of("redis") /\ Redis!Iterates(c)
    \/ Of("kafka") /\ Kafka!Iterates(c)
    \/ Of("aws") /\ Aws!Iterates(c)
    \/ Of("http") /\ Http!Iterates(c)

Settles(c) ==
    \/ Of("kafka") /\ Kafka!Settles(c)
    \/ Of("aws") /\ Aws!Settles(c)
    \/ Of("http") /\ Http!Settles(c)

\* A lease of SQS, a sender of HTTP, the call of a handler.
Goes(i) ==
    \/ Of("aws") /\ i \in Msgs /\ Aws!TimeoutElapses(i)
    \/ Of("http") /\ i \in Senders /\ Http!Respond(i)
    \/ Of("call") /\ i \in Senders /\ Call!Proceeds(i)

IsAcked(m) ==
    \/ Of("redis") /\ Redis!IsAcked(m)
    \/ Of("kafka") /\ Kafka!IsAcked(m)
    \/ Of("aws") /\ Aws!IsAcked(m)

\* As only one part moves, a fairness condition of several parts is one of each.
Fairness ==
    /\ \A c \in Consumers : WF_vars(Iterates(c)) /\ WF_vars(Settles(c))
    /\ \A i \in Msgs \cup Senders : WF_vars(Goes(i))
    /\ \A m \in Msgs : SF_vars(IsAcked(m))
    /\ WF_vars(Of("chain") /\ Chain!Proceeds)
    /\ WF_vars(Of("chain") /\ \E k \in 1..Chain!Depth : Chain!TimeoutElapses(k))

Spec == Init /\ [][Next]_vars /\ Fairness

-----------------------------------------------------------------------------
(* The properties of the modules, where they are explained; each says      *)
(* nothing of the other parts.                                             *)

\* The types of the part that was picked.
TypeOK ==
    CASE part = "redis" -> Redis!TypeOK
      [] part = "kafka" -> Kafka!TypeOK
      [] part = "aws" -> Aws!TypeOK
      [] part = "http" -> Http!TypeOK
      [] part = "chain" -> Chain!TypeOK
      [] part = "shutdown" -> Shutdown!TypeOK
      [] part = "register" -> Register!TypeOK
      [] part = "call" -> Call!TypeOK
      [] part = "format" -> Format!TypeOK
      [] part = "publish" -> Lazy!TypeOK

\* Redis: a read entry is pending for one consumer, and nobody else has it; a sequential
\* application is not given it twice at a time.
OneOwner == part = "redis" => Redis!OneOwner /\ Redis!SequentialSeesPendingOnce
\* Kafka: only commits and seeks of other records, and handlers, lose a record.
LostOnlyIfOvertaken == part = "kafka" => Kafka!LostOnlyIfOvertaken
\* AWS: only a race of two iterations, or of one with close(), leaks a client; publishers: only
\* one of two publishes, or of one with close(), and only in AWS.
LeakedOnlyIfOverlapped ==
    /\ part = "aws" => Aws!LeakedOnlyIfOverlapped
    /\ part = "publish" => Lazy!LeakedOnlyIfCrossed
\* Publishers: what a publish goes on with is ready, or closed meanwhile; except in Kafka.
ReadyUnlessNotStarted == part = "publish" => Lazy!ReadyUnlessNotStarted
\* AWS: from its subscription on no message passes the queue by.
SubscribedMissesNothing == part = "aws" => Aws!SubscribedMissesNothing
\* HTTP: publish() goes on only when the subscriber acked.
SuccessMeansAcked == part = "http" => Http!SuccessMeansAcked
\* Chain: an acked message was handled or diverted, and both only if the order allows it.
HandledOrDivertedOnce == part = "chain" => Chain!HandledOrDivertedOnce
\* Chain: one retry() does not call again after PermanentError.
PermanentErrorIsNotRetried == part = "chain" => Chain!PermanentErrorIsNotRetried
\* Shutdown: without failures nothing is cancelled, and all before the last service is closed.
CalmShutdownIsOrderly == part = "shutdown" => Shutdown!CalmShutdownIsOrderly

\* Chain: spans and counters tell how the delivery went.
ObserversTellTheOutcome == part = "chain" => Chain!ObserversTellTheOutcome
\* Registration: what a handler of a running bus may miss.
RunningHandlersAreReached == part = "register" => Register!RunningHandlersAreReached
\* Registration: registering takes nothing away, and moves a topic at most once.
RegistrationOnlyAdds ==
    [][part = "register" => Register!OnlyAdds]_vars
\* Formats: what of a message is lost on which way.
ArrivesAsSent == part = "format" => Format!ArrivesAsSent

On(p, P) == part = p /\ P

\* AddedIsAcked of RedisStream, ProducedIsAcked of KafkaPartition and SentIsAcked of AwsQueue:
\* delivery at least once, with the exceptions that each names.  WaitingIsAnswered of
\* HttpWebhook: a sender that waits gets its response.
DeliveredInTheEnd ==
    \A i \in Msgs \cup Senders :
        \/ On("redis", i \in 1..published) \/ On("kafka", i \in 1..published)
        \/ On("aws", i \in wanted)
        \/ On("http", i \in Senders /\ pub[i] = "waiting")
        ~> \/ On("redis", i \in acked \/ AllEnded \/ Redis!Orphaned(i))
           \/ On("kafka", i \in acked \cup overtaken \/ AllEnded)
           \/ On("aws", i \in acked \/ AllEnded)
           \/ On("http", pub[i] # "waiting" \/ Http!CutShort(i) \/ AllEnded)

\* TimedChainEnds of Middleware: with a timeout() a delivery is settled in the end.  CallEnds of
\* Dependencies: the calls of bus handlers end, however few threads there are; an ended one stays
\* so.
HandlerCallEnds ==
    On("chain", \E k \in 1..Chain!Depth : chain[k] = "timeout") \/ On("call", TRUE)
    ~> On("chain", doing = "done") \/ On("call", \A p \in Senders : Call!Ended(p))

-----------------------------------------------------------------------------
(* The four backends implement one abstract work queue.  The messages are  *)
(* those of the log, or those of the senders' requests.                    *)

Log(S) == {<<None, m>> : m \in S}

MessagesSent ==
    CASE part \in {"redis", "kafka"} -> Log(1..published)
      [] part = "aws" -> Log(1..published)
      [] part = "http" -> Http!Posted
      [] OTHER -> {}

MessagesDone ==
    CASE part \in WithLog -> Log(acked)
      [] part = "http" -> {r \in Http!Requests : verdict[r] # "none"}
      [] OTHER -> {}

\* A Kafka consumer that has left its loop, and so the group, cannot settle what it has.
Has(c, m) ==
    CASE part \in WithLog /\ m[1] = None ->
            /\ m[2] \in batch[c] \/ held[c][m[2]] > 0
            /\ part = "kafka" => it[c] # "ended"
      [] part = "http" /\ m[1] # None -> m \in held[c]
      [] OTHER -> FALSE

\* SQS: the visibility timeout elapsed.  Kafka: after a crash or a rebalance the group reads
\* from the committed offset whatever its consumers had; before, only a seek rewinds.
MessagesLapsed ==
    CASE part = "aws" -> Log(lapsed)
      [] part = "kafka" -> Log(IF crashes > 0 THEN Msgs ELSE {m \in acked : m > position})
      [] OTHER -> {}

AllMessages == ({None} \cup Senders) \X Msgs

Abstract == INSTANCE WorkQueue WITH
    Messages <- AllMessages,
    sent <- MessagesSent, done <- MessagesDone, lapsed <- MessagesLapsed,
    hands <- [m \in AllMessages |-> {c \in Consumers : Has(c, m)}]

\* No two consumers have a message, and none is given one that is settled, unless the backend's
\* hold on it has lapsed: never in Redis and HTTP.
IsWorkQueue == Abstract!Spec
=============================================================================
