# Verification of natricine

natricine is a Python toolkit for event-driven services: publishers and
subscribers over several brokers, a router that runs handlers on
subscriptions, and command and event buses on top.  This directory holds TLA+
models of its core, the TLC configurations that check them, and TLAPS proofs of
the results that matter most.  Paths of the core package below are relative to
`src/packages/natricine/src/natricine/`.

    tlasany M.tla                       # parse
    tlc -workers 2 -config X.cfg M      # model-check
    tlapm M.tla                         # check the proofs of M

## 1. Inventory

| Component | State | Operations | Talks to |
|---|---|---|---|
| `InMemoryPubSub` (`pubsub/memory.py`) | `_closed`, `_topics`: topic to list of send streams; the memory streams | `publish`, `subscribe` and its generator, `close` | publishers and consumers on one event loop, through anyio streams |
| `Message` (`pubsub/message.py`) | `_acked`, `_nacked` | `ack`, `nack`, `copy` | the broker behind the ack and nack functions |
| `Router` (`router/router.py`) | `_running`, `_closing`, `_in_flight`, `_cancel_scope` | `run`, `close`, one task per handler | subscribers, publishers, handler functions |
| `CommandBus`, `EventBus` (`cqrs/*_bus.py`) | the same and `_handlers`, `_handler_prefixes`, `_handler_subscribers` | `run`, `close`, `handler`, `include_router`, `send`/`publish` | subscriber factory, marshaler, handlers |
| `CommandRouter`, `EventRouter` (`cqrs/router.py`) | `_handlers` | `handler` | buses |
| Middleware (`router/middleware.py`) | none between calls | `retry`, `timeout`, `poison_queue`, `dead_letter_queue`, `recoverer` | handler functions, publishers |
| `graceful_shutdown` (`router/shutdown.py`) | the shutdown event, saved signal handlers | signal handler, watcher | `close` of routers and buses |
| Dependencies (`cqrs/depends.py`) | none: each dependency is resolved anew for each call, a synchronous one in a thread | resolving and calling a handler | handler functions |
| Redis Streams | one pending list for each consumer of the group (in Redis) | `publish`, iteration, `ack`, `nack` | Redis |
| SQL (SQLite, PostgreSQL) | rows with claim, ack and next delivery time | `publish`, poll, `ack`, `nack` | the database |
| Kafka | consumers, committed and read offsets | `publish`, iteration, `ack`, `nack` | Kafka |
| publishers of HTTP, Kafka, SQS and SNS | `_client` or `_producer`, opened by the first `publish`; `_closed` | `publish`, `close` | HTTP, Kafka, AWS |
| SQS, SNS | `_client`, `_queue_urls`, `_setup_complete`, `_closed`; visibility and subscription (in AWS) | `publish`, iteration, `ack`, `nack`, queue subscription | AWS |
| HTTP | `_queues` of requests whose responses are held | request handler, iteration, `ack`, `nack` | the web server |
| message formats (`marshaling.py` of AWS, Kafka and HTTP, the fields and columns of Redis and SQL) | none | a message to what the service carries, and back | publishers, subscribers |
| OpenTelemetry (`natricine-otel`) | spans and counters outside of the program | tracing and metrics middlewares, wrappers of publishers, `inject_context` | middleware chain, message metadata |
| marshaler (`cqrs/marshaler.py`) | none | payload to object and back, by pydantic | buses |

### How they interact

A publisher gives a message to a broker; `InMemoryPubSub` is a broker inside
the process.  A subscription is an async iterator of messages, each with an ack
and a nack function of its broker.  `Router` and the buses run tasks over such
iterators, call the handler (through the middleware chain) and settle the
message.  `close()` may be called from any task, from a handler, or by
`graceful_shutdown` after a signal, and works through shared attributes
(`_closing`, `_in_flight`, `_cancel_scope`) that the tasks read and write
between suspensions.

### Which behaviours are hard

* Suspension points.  Everything runs on one event loop, so state changes under
  a task exactly where it awaits: `publish()` and `close()` of the in-memory
  pub/sub iterate over a list that others shorten meanwhile; `close()` of a
  router polls a counter; a bus starts tasks that run later.
* Cancellation.  Every await may raise; cancellation inside a `finally` cuts the
  clean-up short; a call to a broker that is cancelled may have taken effect.
* Failure.  ack, nack, publish and the subscription itself may raise, before or
  after taking effect.
* Restarts.  `run()` may be called again while a `close()` of the run before is
  suspended; crashes lose what was not settled at the broker.
* Registration at any time.  A bus takes handlers and routers before, during and
  between runs; topics are computed at different times on the two sides.
* Time.  Close timeouts, visibility timeouts, claims and retries race with late
  answers.

### What makes each component correct

* in-memory pub/sub: a publish reaches every subscription that stays, in order
  and once; a full buffer suspends the publisher and nothing else; nobody sleeps
  on a stream that cannot wake them; `close()` ends every iteration.
* router and buses: a message is acknowledged only after its handler succeeded,
  returned only if it did not, settled once; `_in_flight` is exact; `close()`
  waits for what is in flight, and the run ends; subscribers are closed.
* middleware: retries stop where they should, a message that is diverted is
  published before it is acknowledged.
* registration: what is registered stays, and a message reaches the handlers that
  were there when the run began; a call with dependencies ends.
* formats: a message arrives as it was sent, over any sequence of services.
* backends: at least once until acknowledged; competing consumers do not hold
  the same message unless a timeout elapsed; an ack settles its own message.

`PROJECT.json` lists the hazards of the code at their lines.

## 2. Modules

| Module | Models | State | Runs |
|---|---|---|---|
| `InMemoryPubSub` | `pubsub/memory.py` | `closed`, `topics`, `subscribers`; the streams `buffer`, `senders`, `inbox`, `sendClosed`, `recvClosed`; where every generator (`it`), publish (`pc`) and close (`cpc`) stands; `loop` | `memory`, `memory_liveness`, `memory_fanout`, `memory_close` |
| `MCInMemoryPubSub` | its instances for TLC | | |
| `Settlement` | what a consumer promises about one delivery | `state` of each delivery | through `Router` and `CqrsBus` |
| `Router` | `router/router.py`, the flags of `Message` | `running`, `closing`, `inFlight`, `scope`, where every task (`hpc`) and close (`cpc`) stands, `flag` | `router`, `router_selfack` |
| `CqrsBus` | the running side of `cqrs/command_bus.py` and `event_bus.py` | as `Router`, with a task per message (`mpc`), the task group of each handler (`group`) and the factory's subscribers (`sub`) | `bus`, `bus_inflight` |
| `Competing` | what the subscribers of every backend share: the iteration, its batch, what the application holds, crashes | `published`, `acked`, `it`, `batch`, `held`, `closed`, `crashes` | through the four modules below |
| `SqlQueue` | `natricine-sql`, both dialects | the table: `due` (rows in the order of `next_delivery_at`), `claimed` | `sql`, `sql_race` |
| `RedisStream` | `natricine-redisstream` | `read`, `pel` (the pending lists) | `parts` |
| `KafkaPartition` | `natricine-kafka`, one partition | `committed`, `owner`, `position` | `parts`, `kafka_nacks` |
| `AwsQueue` | the subscribers of `natricine-aws` | `client`, `opened`, `shut`, `uses`, `closing`; `policy`, `subscribed`, `setUp`; `visible`, `hidden` | `parts` |
| `LazyClient` | the clients of the HTTP, SQS, SNS and Kafka publishers | `shared`, `clients`; where every publish stands (`stage`, `using`); `refuses`, `exit` | `parts` |
| `HttpWebhook` | `natricine-http` | `pub`, `posted`, `queue`, `held`, `verdict` | `parts` |
| `WorkQueue` | what a backend with competing consumers promises | `sent`, `done`, `hands`, `lapsed` | `parts` and `sql`, through the five backends |
| `Middleware` | `router/middleware.py`, the middlewares of `natricine-otel` | `chain`, and where in it the delivery stands: `at`, `doing`, `result`, `tries`; `span`, `counted` | `parts` |
| `Registration` | the registering side of both buses, `cqrs/router.py`, the topics | `handlers`, `prefixes`, the router's `order` and `routed`, `loops` | `parts` |
| `Dependencies` | `cqrs/depends.py` | `stack` and `phase` of every call, `inThread` | `parts` |
| `MessageFormats` | the marshalling of all backends, `inject_context` | `sent`, `got`, `path`, `broken` | `parts` |
| `GracefulShutdown` | `router/shutdown.py` | `event`, `watcher`, `scope`, `installed`; `run` and `close` of every closeable | `parts` |
| `MCParts` | the instance of Redis, Kafka, AWS, HTTP, `LazyClient` and the five modules above: its initial states pick one of them | `part` | `parts` |
| `RouterProofs`, `CqrsBusProofs`, `WorkQueueProofs` | theorems about `Router`, `CqrsBus` and `WorkQueue` | | |
| `InMemoryProofs`, `SqlProofs` | theorems about `InMemoryPubSub` (its instance `MCInMemoryPubSub`) and `SqlQueue` | | |
| `BackendProofs`, `RefinementProofs`, `ServiceProofs` | theorems about `MCParts`: the backends and clients, their refinement of `WorkQueue`, the five modules around the buses | | |

In every module an action is what a task does between two suspensions: the code
runs on one event loop and cannot be interrupted elsewhere.  In the backends it
is one call of the service, with what the code does until the next one.  History variables,
marked as such, record what the properties speak of and guard nothing.

### InMemoryPubSub

The anyio memory stream is modelled by what `send` and `receive` do: `send` hands
the item to a waiting receiver (`inbox`), buffers it, or waits in `senders`;
`receive` moves the oldest waiting sender's item into the buffer and takes the
head.  A `send` that does not wait does not suspend either, so a publisher keeps
the event loop over several steps: `loop` names it, and nobody else moves
meanwhile.  That is an assumption about anyio (`SendBuffers`), and the one that
lets most happen between two suspensions.  Lists are live, as in the code: `publish` and `close` hold an index
into `subscribers`, and a removal shifts what is behind it.  The end of a
generator takes three forms: its send stream is closed (`EndOfStream`), its
consumer leaves and the event loop finalises it (`Leave`, `Finalise`), or an
anyio scope around it is cancelled, which cuts the `finally` clause short
(`CancelScope`, the state `zombie`).  Which of several ready tasks runs next is
left open; trio shuffles them, and a consumer of the library must not depend on
the order that asyncio happens to choose.

### Router

`Accept`, `Returns`, `Raises`, `AckEnds`, `PublishEnds`, `NackEnds` and `Refuse`
are the segments of `_run_handler` between its awaits; `Cancelled` is a
`CancelledError` at any of them, after which `except Exception` does not run but
`finally` does.  A broker call ends with one of: it took effect; it took effect
and raised; it raised without effect (the last two only for handlers in
`Faulty`).  A cancelled call may have taken effect.  `close()` is one step when
nothing is in flight, for it does not suspend then; otherwise it waits, and ends
by a poll or by its timeout.  `cause` and `cut` remember why the run was
cancelled and whom that interrupted.

### CqrsBus

Both buses share their code, so there is one module.  Unlike the router a loop
starts a task per message: a message is `spawned` first and counted in
`inFlight` only from the task's first step.  A failing message cancels the group
of its handler, then the loop fails, then the run.  `close()` visits the
dictionary of subscribers, which raises when its size changed meanwhile.  Where a
subscriber's own `close()` raises (`Faulty`), it ends there: the subscribers
behind it stay open, and the dictionary keeps all of them.  Otherwise it clears the
dictionary (`command_bus.py:285`), which closes nothing: an open subscriber that is
in it by then is `dropped`, and nobody can close it any more.
`close()` looks at nothing when no run is under way (`command_bus.py:267`), so
subscribers of the factory that an ended run leaves behind stay open, although
its docstring says that it closes them.

A `close()` in `Inside` may be called by a handler function (`caller`).  It waits
for the message that calls it, in vain, until its timeout, then cancels its own
caller and is interrupted at its next await: so it closes one subscriber of the
factory and leaves the others open.  A synchronous function runs in a `thread`,
which a cancellation does not interrupt: a closing run ends only when the function
has returned, whatever `close_timeout_s` is, although the docstring
(`command_bus.py:264`) speaks of forcing.  A loop of a cancelled run that had not
begun gets a subscriber all the same (`late`), which nobody closes.  A `close()`
that is still closing subscribers when the next run begins is `outliving`: it
goes on over the dictionary that the new loops use.
`SubscribersFollowLoops` says for each place that such a `close()` can be in what it
does to them: while it is closing, and when it raised, it has closed subscribers
under their loops; when it is done, it has also dropped some that are open.

### Registration

`Handler` and `RouterHandler` are the decorators, `IncludeCommands` and
`IncludeEvents` the `include_router()` of the two buses, `Run` the dictionary that
`run()` reads once into `loops`.  A topic is the sequence of its parts, so that a
prefix may look like the beginning of a name.  `send()` and `publish()` change
nothing; `Receivers` says which loops get what they send, for every setup: the
topics (`generate_topic` or the default), a backend that broadcasts or one whose
subscriptions compete, one subscriber or a factory, functions with the same name.
What a command bus does silently, `docs/concepts/cqrs.md:49` does not say: a second
`handler()` for a command replaces the first.

### Dependencies

A call is the `stack` of functions that it is in.  `Resolve` goes down into the
next `Depends` parameter, `CallFunction` runs a coroutine function or queues for a
thread, `Return` hands the result up.  All functions take threads from one
limiter, and hold them only while they run.

### MessageFormats

A payload is text or other bytes, inside of some layers of canonical base64, which
is all that encoding and decoding tell apart; metadata are a set of keys, of which
the FIFO ids and the name of the UUID are special.  `Hop` publishes to one service
and receives from it, with or without an injected trace context.
A message may have no UUID, or one under another name than the subscriber is
configured for: AWS and Kafka, which have attributes and headers in one table,
take that name for one more metadata key (`alias`), and all others ignore it.
A UUID that cannot be parsed is never yielded (`broken`).  Over HTTP the poster is
told of an error and the iteration goes on; elsewhere the iteration raises, and the
message comes back as far as the service brings it back: SQLite does not, for it
was claimed before.

### The backends

`Competing` is the part of the backends that the application sees (`HttpWebhook`
repeats it for requests, which are not numbered messages of one publisher).  An iteration
fetches a batch, yields it message by message (`Yield`), and the application
settles each message when it likes, or, if the consumer is in `Sequential`, before
it asks for the next (`MayAsk`).  `Router` is such a sequential application; a
bus, which handles messages concurrently, is not.  The five modules add what
the service keeps and what the code does with it:

* `SqlQueue`: `Select` is `select_pending`, `ClaimAndYield` one `claim_message`;
  between them other subscribers run.  What the claimed row holds may be
  unreadable: then the iteration ends, and the row stays claimed without having been
  yielded (`ClaimAndRaise`).  A row whose `next_delivery_at` lies ahead
  is not in `due`; `DeadlineElapses` puts it back.  Only SQLite also asks for
  `claimed_at IS NULL` (`dialect.py:77`), so there a row whose subscriber died is
  `Stranded` for good, although `docs/backends/sql.md:102` says otherwise.
* `RedisStream`: `ReadPending` reads the consumer's own pending list from its
  start on every turn, `ReadNew` what nobody has read.  A nack does nothing.
  Entries of a consumer that is gone stay with it: unlike
  `docs/backends/redis.md` says, no other consumer of the group gets them.
  An application that works on several messages at once, a bus for example, is
  given those in hand again on every turn; `held` counts the copies.
* `KafkaPartition`: `Ack` commits the offset behind its record, `Nack` seeks back
  to it, whatever else of the batch is open.  `overtaken` remembers the records
  that somebody else's commit or seek has moved past.
* `AwsQueue`: two iterations share `_client`; `_get_client` suspends while it
  opens one, and so does `close()` while it exits it.  The set-up of a queue for
  SNS is three calls.  SQS and SNS differ only in that set-up and in what
  `publish()` reaches.  The exit of a client may raise, and `_client` then keeps it.
  SNS has two clients, which it opens and exits in turn; one stands for both.
* `HttpWebhook`: the request handler holds the response until `verdict` is set;
  the publisher posts its messages one after the other.

`LazyClient` is what the publishers of three backends have in common: the first
`publish()` opens a client that later ones share.  SQS and SNS suspend before they
keep it (`ClientOpens`), so two publishes may each open one; Kafka keeps its producer
before it starts it (`AssignedFirst`), so that another publish may use it too early,
and a producer that failed to start stays (`natricine_kafka/publisher.py:26`); HTTP
does not suspend.  `OnlyRefuse` is Kafka's `close()`, which stops nothing,
`BeginsExit` and `EndsExit` its `__aexit__` and the `close()` of the others.  The
publishers of Redis and SQL use a connection that is given to them.

`WorkQueue` is what the backends promise: a message that was sent is in one hand at
a time and is not given away once it is done, except while the backend's hold on
it has lapsed.  `MCParts` maps the states of four backends to it
(`IsWorkQueue`): what is sent, settled, and fetched or in an application.  In Redis
and HTTP nothing ever lapses.  In SQS the visibility timeout does it; in Kafka a
seek behind what is settled, and any crash or rebalance, after which the group
reads from the committed offset.  `SqlQueue` has a mapping of its own.  There the
hold on a row begins with the claim and not with the selection, because the claim
does not ask whether another subscriber came first (`sql_race`): rows that are
selected and not yet claimed count as `Lapsed`, as do those that two subscribers
share and, in PostgreSQL, those whose deadline elapsed.

### Middleware

One delivery through any chain of at most `MaxDepth` middlewares.  The function
at the inside returns, raises, or raises `PermanentError`; the result goes
`up` level by level.  Every await (the function, the sleep of `retry`, the publish
of a diverting middleware) can be interrupted by a `timeout` around it, and a
publish that is interrupted may have reached the broker.  `poison_queue` and
`dead_letter_queue` differ in metadata only and are one kind.  Tracing and metrics
are the kind `observe`, each with a span and a counter.  `recoverer` logs
and raises again, so it is none.

### GracefulShutdown

Any of the closeables may be services whose `run()` is in the body (`running`);
the others are only there to be closed.  The watcher is in the `close()` of one
of them at a time.  The body ends when its services have, and then cancels the
watcher wherever it is: so the `close()` of the last service may be cut short and
closeables behind it may never be closed, which `CalmShutdownIsOrderly` excepts,
as it does a shutdown in which something raises.
For a bus that is the part of `close()` that closes the factory's subscribers
(`command_bus.py:281`).

## 3. What the runs check

| Run | Instance | States | Shows |
|---|---|---|---|
| `memory` | 2 subscriptions, 2 publishers, batches of 2, buffer 1, 1 close | 1.2 M (symmetry) | safety of the in-memory pub/sub |
| `memory_liveness` | 2 subscriptions, 1 publisher, buffer 0, 2 closes | 245 k | release of publishers, end of iterations |
| `memory_fanout` | 3 subscriptions, 2 publishers | violation | see findings |
| `memory_close` | 2 subscriptions, 1 close | violation | see findings |
| `router` | 2 handlers, 2 deliveries each, 2 runs, 1 close | 366 k | settlement, counter, drain, termination |
| `router_selfack` | 1 self-acknowledging handler | violation | see findings |
| `bus` | 1 handler, 2 deliveries, 2 runs, 2 closes, one of them from inside | 958 k | the same for the buses, and subscribers |
| `bus_inflight` | 1 handler, 1 close | violation | see findings |
| `sql` | 2 sequential subscribers, 2 rows, batches of 2, 1 crash, both dialects | 116 k | who may have a row twice, that the table is a work queue up to that, which rows are acknowledged in the end |
| `sql_race` | the same without a crash | violation | see findings |
| `kafka_nacks` | 1 sequential consumer, 2 records in one batch | violation | see findings |
| `parts` | 2 consumers, one of them sequential, 2 messages, batches of 2, 1 crash or rebalance; 2 senders over HTTP; 2 publishes that share a client; chains of 0 to 3 middlewares with 2 retries; 3 closeables; 3 functions for 2 types, 4 registrations, 3 prefixes; 2 calls with nested dependencies and 1 thread; 2 hops over 7 services | 140 k | each backend's promises and the abstract queue, the publishers' clients, the middleware's, an orderly shutdown, who is reached, that calls end, what arrives |

Bounds.  A buffer of one and a batch of two make every stream empty, full and
overfull; two publishers contend for one stream, and a rendezvous stream
(buffer 0) is the extreme case of the other run.  Passing over a stream needs
two subscriptions, and a third one when a publisher must be suspended on a
second while the first leaves.  Two runs let a `close()` outlive its run, two
deliveries let a handler have one message before or beside another, and two
closes overlap in the bus, where the second one's visit of the dictionary
matters.  Two handlers suffice in `Router` because its tasks share only the
counter, the two flags and the scope.  In the backends two consumers compete,
two publishes cross each other's opening or come one after the other, two messages make a batch of which one is settled and the other is not, one of the
applications is sequential and the other is not, and one crash or rebalance
(`MaxCrashes`) hands over what was in flight; a third message would only repeat
the second.  `MaxHeld` bounds the copies of one message that one application has
in hand, which in Redis would grow for ever.  A chain of three middlewares has every
pair of kinds in both orders and a third one around or between them; of three
closeables one can be before, and one behind, the one that is being closed.  Four
registrations are enough to register a handler, fill a router and include it twice
with different prefixes; two functions of one type and one of another give every
conflict of topics, subscribers and names between two handlers.  One thread for
two calls is the tightest limiter, and one dependency that needs another the
deepest nesting that it can notice.  Two hops are one forwarding: what a
service loses or adds is lost or there for the next one, whatever it is.  Deadlock is not checked: a system whose
calls are used up, or that nobody uses, stops.

Fairness.  Weak fairness of what the event loop does by itself: a task that can
run does, a cancelled task gets its cancellation, `close()` is woken by its poll
or its timeout, a task group notices that its tasks ended.  Nothing is assumed of the
environment: handler functions, brokers and subscriptions may be silent for
ever, consumers may never iterate or leave.  In `InMemoryPubSub` an iteration
that began keeps asking for messages, which is what `async for` does; a
subscription that is never iterated, or cancelled as above, is excepted from
`BlockedPublisherGoesOn` by name.
In the backends iterations go on, leases elapse, and handlers come to an end
(their acks, nacks and aborts are weakly fair); a broker that is asked answers.
`IsAcked` is strongly fair: a handler that gets the same message again and again
succeeds some time, without which a message that always fails refutes every
promise of delivery.  Publishers, crashes, closes and rebalances have no fairness.
In `Middleware` sleeps and publishes end and a timeout elapses; the handler
function may run for ever.  In `CqrsBus` and `Dependencies` a function in a thread
returns, because nothing can stop it, and in `Dependencies` coroutine functions do,
too.  In `MCParts` only one part moves, so one fairness condition stands for one
of each part.

### Findings

1. `memory_fanout`: a subscription that leaves while `publish()` is suspended
   makes it pass over the next one (`memory.py:37`, `69`).
   `FanOutUnlessPassedOver` shows that this is the only way to be left out.
2. `memory_close`: `close()` of two waiting iterations closes only one, and the
   other waits for ever (`memory.py:76`).  `CloseReachesStreams` shows that
   nothing else escapes `close()`.
3. `router_selfack`: a handler that acknowledges its own message, as
   `docs/concepts/router.md:76` demands, brings the router down (`router.py:149`).
4. `bus_inflight`: a message accepted but not started is not in flight for
   `close()`, which interrupts it (`command_bus.py:249`);
   `DrainedCloseCutsOnlyUncounted` shows that no other message is.
5. `sql_race`: on PostgreSQL two subscribers yield the same row, for
   `FOR UPDATE SKIP LOCKED` ends with the statement that selects and the claim
   asks for nothing but the id (`subscriber.py:113`, `134`).
   `SharedOnlyByRaceOrDeadline` shows that this and the deadline are the only ways.
6. `kafka_nacks`: of two records of one batch that are nacked the first is not
   fetched again, for the second nack seeks forward past it (`subscriber.py:88`).
   `LostOnlyIfOvertaken` shows that only such commits and seeks, and messages
   never settled, lose a record.

What passes is as informative for what it excepts by name.  `DeliveredInTheEnd`
(and `InsertedIsAcked` for SQL) holds for Redis except for the entries of a
consumer that has ended, for Kafka except for records that were overtaken, for
SQLite except for stranded rows.  `LeakedOnlyIfOverlapped` names the two races in
which an AWS client stays open, of a subscriber or of a publisher;
`ReadyUnlessNotStarted` shows that only Kafka's publisher hands out a producer that
is not started, or never will be.  `PermanentErrorIsNotRetried` excepts a `retry`
around another one, which is shown the unwrapped exception
(`middleware.py:96`), and a `retry` around a diverting middleware that fails;
`HandledOrDivertedOnce` excepts the order of `retry` outside of `poison_queue` that
its docstring warns of.  `RunningHandlersAreReached` excepts the loops that share a
subscriber, or a name, on a competing backend, and those whose topic an included
event router has moved since `run()`, although `event_bus.py:172` says "to all
registered handlers"; a command bus has no such case, for its `include_router()`
refuses a type it knows.  `ArrivesAsSent` lists what is lost: a text that is
itself canonical base64, `b"test"` for one, arrives over AWS as other bytes
(`natricine_aws/marshaling.py:45`), although the conformance suite
(`pubsub.py:147`) has "Message payload is preserved"; a UUID under another name
becomes a metadata key over AWS and Kafka; a Redis entry without a UUID cannot be
forwarded (`natricine_redis/subscriber.py:160`).  `ObserversTellTheOutcome` shows that
the counter of consumed messages counts those that were acknowledged, not those
"delivered to the application" (`natricine_otel/metrics.py:105`).

Four of these exceptions stand where the repository promises more:

* `BlockedPublisherGoesOn` excepts a subscription whose anyio scope was cancelled
  (`zombie`): its `finally` clause ends at the first await (`memory.py:70`), and a
  publisher that waits there is never woken.  `test_robustness.py:104` says
  "Cancelled subscriber should clean up properly".
* `CalmShutdownIsOrderly` excepts a shutdown in which a `close()` raises, for that
  ends the watcher (`shutdown.py:59`), and what comes after the last service, for
  the end of the body cancels the watcher (`shutdown.py:66`).  In both cases
  closeables are never closed, and the docstring (`shutdown.py:29`) says that "all
  provided closeables" are.
* `SubscribersFollowLoops` says nothing of a `close()` that raised: the first subscriber
  whose own `close()` fails leaves those behind it open (`command_bus.py:284`), and a
  second `close()` of the bus does nothing once the run is over.
  `command_bus.py:265` says "Also closes any factory-created subscribers".
* `DeliveredInTheEnd` excepts what an ended Redis consumer has not acknowledged:
  nobody else reads its pending list (`natricine_redis/subscriber.py:87`), although
  `docs/backends/redis.md:127` says that other consumers get it.

Two further divergences were read in the code and need no model: the
documentation raises `PermanentError("text")`, whose cause is no exception, so that
`retry` ends in a `TypeError` (`middleware.py:109`); and an SNS queue is
subscribed only when its subscriber is first iterated, so what is published
before never reaches it (`sns.py:263`), which `SubscribedMissesNothing` takes as its
starting point.

## 4. What is proved

The theorems hold for every value of the constants that the named assumptions
allow; `PROJECT.json` lists them.  The assumptions say that the sets of handlers,
consumers and the like are finite, that bounds are natural numbers and that model
values differ from one another, among them the calls of `publish()` and those of
`close()` (`PubSubAssumption`, `RouterAssumption`, `BusAssumption`,
`CompetingAssumption`, those of the parts, and in `MCParts` `NobodyAssumption` and
`SizesAssumption`); TLC evaluates all of them in the runs.  Every invariant and every
action property that a passing run checks is stated by a theorem.

`InMemoryProofs` proves of `InMemoryPubSub`, for any topics, subscriptions, calls,
batches and buffer sizes:

* `StreamTyping`, `StreamsPressBack`: `StreamInv` is `TypeOK` and `Backpressure` with
  what they rest on: a subscription is listed once, under its topic (`ListedOnce`), a
  publisher waits at one stream (`WaitsOnce`), a receiver sleeps only on an empty
  stream without senders (`SleepsEmpty`), and a generator that cleaned up has closed
  its send stream (`DepartedIsClosed`).
* `DepartedStaysEmpty`: `Spec => DepartedGetsNothing`.  A step puts one item at the end
  of one pipeline (`Puts`), and only while its send stream is open, or thins
  pipelines (`Thinned`): what is left keeps its order, and nothing is lost but what
  cancelled publishers and departed subscriptions had waiting (`PipelineMoves`).
* `OrderIsKept`: `InOrder`.  That a new item is in order behind all others needs to
  know what a pipeline holds: items of earlier messages, and of the current message
  only once the list iterator has passed the subscription's place (`Belongs`).
* `FanOutIsComplete`: `FanOutUnlessPassedOver`.  `FansOut` says of a publish under
  way that each subscription of its audience is listed and has every message the
  call has been through.  Places shift when a subscription leaves: one keeps its
  place, moves up by one, in which case the iterators that stood at its old place
  have passed it over, or is gone with its stream closed (`PlaceMoves`).  This is
  where a loop over a list that changes could lose a subscription unnoticed.
* `CloseIsComplete`: `CloseReachesStreams`, by the same argument for the iterators of
  `close()`: what it has not closed is in a topic still to come or at a place still
  ahead (`StillAhead`).

`RouterProofs` proves of `Router`:

* `Typing`, `InFlightExact`: `Spec => []TypeOK`, `Spec => []InFlightIsExact`.
  The counter is a cardinality, so the invariant `CountInv` adds that a busy
  handler has been given a message and that tasks exist exactly while a run is
  under way.  A task becomes busy, stays as busy as it was, or stops (`Moves`):
  each changes the set of busy handlers by at most one element (`CountBusy`).
* `DrainedIsClean`: `Spec => []DrainedCloseCutsNothing`.  By itself this is not
  inductive: `DrainInv` adds that a `close()` that waits for the run under way
  has marked it as closing, that nothing was cut while the scope was active, and
  that once a run has been found drained no handler is busy and none can become
  so, because the router is closing.  An empty counter means no busy handler
  only because of `InFlightExact`.
* `Implementation`: `Spec => SettlesOnce`, that is, `Router` implements
  `Settlement` under the mapping `DeliveryState`.  `SettleInv` says what a task
  relies on at each suspension (the message is fresh in the handler; an ack is sent
  for a handled delivery and a nack for one that is not; nothing is settled
  before it is delivered); a step of one task leaves the deliveries of the
  others alone (`Frame`) and moves its own along the protocol (`MovesOne`).

`CqrsBusProofs` proves the same of `CqrsBus`, where what is counted are message
tasks, several for one handler, and a fourth property:

* `BusTypes`, `BusCountsTasks` from its `CountInv`: a task exists only for a message
  that its loop was given, while that loop is in its group, and a message that is
  being refused has none (`Given`); so a spawned task is new, and the end of a loop
  drops finished tasks only.
* `DrainedBusIsClean`: `CloseInv` relates each `close()` to the run that it was
  called for, `DrainInv` says that after a drained close the tasks that are left are
  those that were spawned and not counted.  Spawning ends with `closing`, which is
  why their set cannot grow.
* `BusSubscribers`: `SubscribersFollowLoops` is inductive together with `CloseInv`,
  with `LateInv`, the loops that a cancelled run has yet to start, and with `LeftInv`:
  while a `close()` of this run visits the subscribers, those that are open are still
  left for it, or late.
* `BusImplementsSettlement`: the refinement of `Settlement`.  `LoopMove` and
  `MessageMove` say what a step of a loop and of a task is to the broker, and the
  argument goes over these few cases.

`SqlProofs` proves of `SqlQueue`, in both dialects:

* `TableTypes`: the types, with each row due at most once (`DueOnce`) and a subscriber
  that claims only while its batch lasts (`BatchWaits`).
* `RowIsSharedForReason`: `SharedOnlyByRaceOrDeadline`.  Whether a claim shares a row
  depends on what keeps a row in hand from being selected, which is `claimed_at` in
  SQLite and a `next_delivery_at` in the future in PostgreSQL (`HandKeepsRow`).
* `TableIsWorkQueue`: `Spec => IsWorkQueue`.  A selection is a `Lapse` of its rows, since
  who polls has an empty batch (`PollsEmpty`), and each claim is the `Take` of a
  lapsed row.  Where a hold resumes, because the row is claimed, acked or let go, at
  most one subscriber may have it: that is `HandKeepsRow` again (`HoldsAgain`).

`BackendProofs` proves of the parts that are backends, from one inductive invariant
each (`RedisInv`, `KafkaInv`, `AwsInv`, `HttpInv`, `LazyInv`):

* `RedisHasOneOwner`, `KafkaLosesOnlyOvertaken`: the log backends.  Redis needs that
  a turn of the loop starts with an empty batch, and a sequential application
  empty-handed (`TurnStartsEmpty`): otherwise an entry that was acknowledged in between
  would be yielded again.  Kafka needs that whatever lies before the committed offset
  is settled or overtaken, and whatever lies before the position is so too or is with
  the owner (`CommittedIsSettled`, `FetchedIsKnown`).
* `AwsMissesNothing`, and of the client that iterations share
  `ClientsLeakOnlyIfOverlapped`, which also states the same of the publishers:
  there are at most as many clients as iterations that went on (`ClientInv`, a
  count), and the exit of a client and its loss exclude each other.
* `HttpSuccessMeansAcked`: a request is in one place at a time, the queue or one
  application, until it is settled.
* `PublishesFindReadyClients`: what a publish finds in place of the client it goes
  on with depends on the stage of the publish that opened that client (`OwnClient`).

`RefinementProofs` proves `BackendsImplementWorkQueue`, `Spec => IsWorkQueue`: every
step of Redis, Kafka, SQS with SNS, and HTTP is a step of `WorkQueue` or leaves its
variables alone.  A fetch is a `Take`, or nothing when the consumer has the message
already; an ack is a `Finish`; a nack, a crash or a rebalance gives hands back; a
timeout, a seek and a lost assignment are a `Lapse`.  What the abstract queue
guarantees is then inherited: `BackendsKeepInOneHand`, a theorem of the backends whose
proof only cites `Exclusion` under the same mapping, says that each message is with
one consumer unless the hold on it lapsed, and that nobody has one that was not sent.

`ServiceProofs` proves of the other five parts, from `ShutdownInv`, `ChainInv`,
`CallInv`, `RegisterInv` and `FormatInv`, the properties that `parts` checks:
`CalmShutdownCutsNothing`, `AckedIsHandledOrDiverted`, `PermanentErrorEndsRetries`,
`SpansAndCountersAreRight`, `HandlersAreReached`, `RegisteringOnlyAdds` and
`MessagesArriveAsSent`.  `ChainInv` says where in a chain of any length the delivery
can be when it does something, that what a function returned is never called
again (`OkIsFinal`), and that after a diversion, or a `PermanentError`, the delivery is outside
of the middleware concerned unless something around it tries again
(`DivertedInside`, `PermanentInside`).  `TypesOfParts` collects the types of all
ten parts.

`WorkQueueProofs` proves of the abstract queue, for all messages and consumers,
`QueueTyping` and `Exclusion`: `Spec => []Exclusive`, what a backend that
implements it inherits.  Every step but `Lapse` keeps all messages in one hand
whose hold has not lapsed, and `Holds` says it of those whose hold is over
(`StaysExclusive`).

Only model-checked: all liveness (`RunStops`, `CloseStopsRun`,
`BlockedPublisherGoesOn`, `ClosedStreamEnds`, `InsertedIsAcked`, `DeliveredInTheEnd`,
`HandlerCallEnds`), which is out of the prover's reach, as is what recursive
definitions compute.  The properties that a run refutes have no theorem, of course.

## 5. Plan

Every invariant and action property of the passing runs is proved.  What is left
is to shorten proofs: the longest case analyses, and the lemmas on sequences that
`SqlProofs` and `InMemoryProofs` both need, in one place.

## 6. Not modelled

* The marshaler of the buses has no state: a payload it cannot decode is a
  failing handler.  When `generate_topic` gives all types one topic, every loop
  decodes every message, and one that cannot brings the bus down, as any
  failure does.
* The OpenTelemetry wrappers of publishers pass everything on; durations and
  attributes are left out.
* What asyncpg returns for the columns of PostgreSQL (a UUID, decoded or undecoded
  JSONB) depends on codecs that the code does not set; `MessageFormats` has text
  columns, as in SQLite.
* The two clients of SNS one without the other: a failing exit of the SNS client
  leaves the SQS client open (`sns.py:331`).
* Statements of the SQL backends that fail: the database answers every one.
* Requests that are queued over HTTP after `close()`, and wait until their timeout:
  `HttpWebhook` has them, but no property says that they should not.
* A message that a router acknowledged and whose results it then failed to publish
  (`router.py:149`): the model has the behaviour (`PublishEnds`), `Settlement`
  allows it, and no property speaks of what was to be published.
* Reading type hints and signatures, logging, delays, jitter and the metadata of
  diverted messages.
* The conformance suite and the examples are tests and demonstrations.
* What happens inside anyio, redis, Kafka, the databases and AWS is modelled only by
  what the code relies on and is marked external in `PROJECT.json`.
