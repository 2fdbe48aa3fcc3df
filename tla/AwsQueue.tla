------------------------------ MODULE AwsQueue ------------------------------
(***************************************************************************)
(* The AWS backends (natricine_aws): one subscriber object and several     *)
(* iterations over the same queue.  SQSSubscriber polls a queue that       *)
(* publishers send to; SNSSubscriber first makes a queue of its consumer   *)
(* group, lets the topic send to it and subscribes it to the topic.  The   *)
(* iterations share the client that the first of them opens, and close()   *)
(* closes it under them.  A received message is invisible until its        *)
(* timeout elapses; ack() deletes it and nack() makes it visible, both by  *)
(* the receipt handle of that reception.                                   *)
(*                                                                         *)
(* SQS, SNS and their clients are modelled by what the code relies on, the *)
(* queue as a standard queue: unordered, and what a stale handle does is   *)
(* open.  SNSSubscriber opens its SNS client the same way as the SQS       *)
(* client, and closes both in turn: one client stands for the two, so what *)
(* one of them does without the other is not modelled (the SQS client is   *)
(* left open when the exit of the SNS client raises).                      *)
(***************************************************************************)
EXTENDS Competing

CONSTANT NoClient

VARIABLES
    service,       \* which of the two backends
    client,        \* _client
    opened,        \* clients opened so far, numbered from 1
    shut,          \* clients whose __aexit__ has been called
    uses,          \* iteration -> the client it got, or was opening when it was interrupted
    policy,        \* the queue's policy lets the topic send to it
    subscribed,    \* the queue is subscribed to the topic
    setUp,         \* _setup_complete or _queue_urls has the topic
    closing,       \* close() waits for __aexit__, or has returned
    visible,       \* messages that can be received
    hidden,        \* messages received and not visible again yet
    lapsed,        \* history: messages in hand whose visibility timeout elapsed
    wanted,        \* history: messages sent to the queue, or to the topic once it is subscribed
    overlapped     \* history: clients that another iteration replaced, or opened after close()

clientVars == <<client, opened, shut, uses, closing, overlapped>>
setupVars == <<policy, subscribed, setUp>>
queueVars == <<visible, hidden, lapsed, wanted>>
awsVars == <<service, clientVars, setupVars, queueVars>>
vars == <<commonVars, awsVars>>

\* The types; a message is not visible and hidden at a time.
TypeOK ==
    /\ CommonTypes({"start", "opening", "queue", "policy", "subscribe", "poll", "out", "ended"},
                   SUBSET (1..published))
    /\ closed \in {{}, Consumers} /\ closing \in {"no", "exit", "done"}
    /\ service \in {"sqs", "sns"}
    /\ opened \in 0..Cardinality(Consumers)
    /\ client \in 1..opened \cup {NoClient} /\ shut \subseteq 1..opened
    /\ uses \in [Consumers -> 1..opened \cup {NoClient}]
    /\ policy \in BOOLEAN /\ subscribed \in BOOLEAN /\ setUp \in BOOLEAN
    /\ visible \cup hidden \cup lapsed \cup wanted \subseteq 1..published
    /\ visible \cap hidden = {}
    /\ overlapped \subseteq 1..opened

Init ==
    /\ CommonInit("start", {})
    /\ service \in {"sqs", "sns"}
    /\ client = NoClient /\ opened = 0 /\ shut = {} /\ closing = "no"
    /\ uses = [c \in Consumers |-> NoClient]
    /\ policy = FALSE /\ subscribed = FALSE /\ setUp = FALSE
    /\ visible = {} /\ hidden = {} /\ lapsed = {} /\ wanted = {} /\ overlapped = {}

-----------------------------------------------------------------------------
\* SQSPublisher.publish(), one call for each message: the queue is made if need be.
Send ==
    /\ service = "sqs" /\ published < N
    /\ published' = published + 1
    /\ visible' = visible \cup {published'} /\ wanted' = wanted \cup {published'}
    /\ UNCHANGED <<acked, it, batch, held, closed, crashes>>
    /\ UNCHANGED <<service, clientVars, setupVars, hidden, lapsed>>

Accepts == subscribed /\ policy

\* SNSPublisher.publish(): the topic sends to the queue if that is subscribed and lets it.
PublishToTopic ==
    /\ service = "sns" /\ published < N
    /\ published' = published + 1
    /\ visible' = IF Accepts THEN visible \cup {published'} ELSE visible
    /\ wanted' = IF subscribed THEN wanted \cup {published'} ELSE wanted
    /\ UNCHANGED <<acked, it, batch, held, closed, crashes>>
    /\ UNCHANGED <<service, clientVars, setupVars, hidden, lapsed>>

-----------------------------------------------------------------------------
(* _get_client()                                                           *)

Opening == {c \in Consumers : it[c] = "opening"}

\* A client that is there is used, even if close() is about to close it.
GetClient(c) ==
    /\ it[c] = "start"
    /\ Goto(c, IF client = NoClient THEN "opening" ELSE "queue")
    /\ uses' = [uses EXCEPT ![c] = client]
    /\ UNCHANGED <<published, acked, batch, held, closed, crashes>>
    /\ UNCHANGED <<service, client, opened, shut, closing, overlapped, setupVars, queueVars>>

\* The client is kept, over whatever another iteration has put there meanwhile.
ClientOpened(c) ==
    /\ it[c] = "opening"
    /\ opened' = opened + 1
    /\ client' = opened' /\ uses' = [uses EXCEPT ![c] = opened']
    /\ overlapped' = overlapped \cup (IF closing # "no" THEN {opened'} ELSE {})
                                \cup (IF client # NoClient THEN {client} ELSE {})
    /\ Goto(c, "queue")
    /\ UNCHANGED <<published, acked, batch, held, closed, crashes>>
    /\ UNCHANGED <<service, shut, closing, setupVars, queueVars>>

-----------------------------------------------------------------------------
(* _get_queue_url(), _setup_subscription()                                 *)

Works(c) == uses[c] \notin shut

\* A closed client raises, which ends the iteration.
SetsUp(c, from, to) ==
    /\ it[c] = from
    /\ Goto(c, IF Works(c) THEN to ELSE "ended")
    /\ UNCHANGED <<published, acked, batch, held, closed, crashes>>
    /\ UNCHANGED <<service, clientVars, queueVars>>

LoopHead(c) == IF c \in closed THEN "ended" ELSE "poll"

\* The cache answers without the client.
Known(c) ==
    /\ it[c] = "queue" /\ setUp
    /\ Goto(c, LoopHead(c))
    /\ UNCHANGED <<published, acked, batch, held, closed, crashes, awsVars>>

NoPolicy(c) ==  \* mutant: the queue is subscribed without a policy
    /\ ~setUp
    /\ SetsUp(c, "queue", IF service = "sqs" THEN LoopHead(c) ELSE "subscribe")
    /\ setUp' = (Works(c) /\ service = "sqs")
    /\ UNCHANGED <<policy, subscribed>>

MakeQueue(c) ==
    /\ ~setUp
    /\ SetsUp(c, "queue", IF service = "sqs" THEN LoopHead(c) ELSE "policy")
    /\ setUp' = (Works(c) /\ service = "sqs")
    /\ UNCHANGED <<policy, subscribed>>

SetPolicy(c) ==
    /\ SetsUp(c, "policy", "subscribe")
    /\ policy' = (policy \/ Works(c))
    /\ UNCHANGED <<subscribed, setUp>>

\* The queue sends to the topic only what the topic gets from now on.
SubscribeQueue(c) ==
    /\ SetsUp(c, "subscribe", LoopHead(c))
    /\ subscribed' = (subscribed \/ Works(c)) /\ setUp' = (setUp \/ Works(c))
    /\ UNCHANGED policy

-----------------------------------------------------------------------------
(* _subscribe_iter()                                                       *)

Few(S) == {T \in SUBSET S : T # {} /\ Cardinality(T) <= Batch}

StaysVisible(T) == UNCHANGED <<visible, hidden>>  \* mutant: a visibility timeout of zero
Hide(T) == visible' = visible \ T /\ hidden' = hidden \cup T

\* receive_message hides what it returns; the first message is yielded.
Receive(c) ==
    /\ it[c] = "poll" /\ Works(c)
    /\ \E T \in Few(visible) :
        /\ Hide(T) /\ Yield(c, T)
    /\ Goto(c, "out")
    /\ UNCHANGED <<published, acked, closed, crashes>>
    /\ UNCHANGED <<service, clientVars, setupVars, lapsed, wanted>>

\* It returns nothing, and _closed is looked at; or it raises.
ReceiveEnds(c) ==
    /\ it[c] = "poll" /\ (c \in closed \/ ~Works(c))
    /\ Goto(c, "ended")
    /\ UNCHANGED <<published, acked, batch, held, closed, crashes, awsVars>>

Ask(c) ==
    /\ it[c] = "out" /\ MayAsk(c)
    /\ IF batch[c] # {} THEN Yield(c, batch[c]) /\ UNCHANGED it
       ELSE Goto(c, LoopHead(c)) /\ UNCHANGED <<held, batch>>
    /\ UNCHANGED <<published, acked, closed, crashes, awsVars>>

-----------------------------------------------------------------------------
InHand(m) == HandedTo(m) # {} \/ \E c \in Consumers : m \in batch[c]

\* The history is kept for messages in hand only.
Remember == lapsed' = {m \in lapsed : \E c \in Consumers : held'[c][m] > 0 \/ m \in batch[c]}

\* With a handle that is stale this may come to nothing, like Abandon.
Ack(c, m) ==
    /\ Works(c) /\ Release(c, m) /\ Remember
    /\ acked' = acked \cup {m}
    /\ visible' = visible \ {m} /\ hidden' = hidden \ {m}
    /\ UNCHANGED <<published, it, batch, closed, crashes, service, clientVars, setupVars, wanted>>

\* change_message_visibility refuses a message that is not hidden.
Nack(c, m) ==
    /\ Works(c) /\ m \in hidden /\ Release(c, m) /\ Remember
    /\ visible' = visible \cup {m} /\ hidden' = hidden \ {m}
    /\ UNCHANGED <<published, acked, it, batch, closed, crashes>>
    /\ UNCHANGED <<service, clientVars, setupVars, wanted>>

\* The application is cancelled, its ack or nack fails, comes to nothing because the receipt
\* handle is stale, or raises because close() has closed the client.
Abandon(c, m) ==
    /\ Release(c, m) /\ Remember
    /\ UNCHANGED <<published, acked, it, batch, closed, crashes>>
    /\ UNCHANGED <<service, clientVars, setupVars, visible, hidden, wanted>>

TimeoutElapses(m) ==
    /\ m \in hidden
    /\ visible' = visible \cup {m} /\ hidden' = hidden \ {m}
    /\ lapsed' = IF InHand(m) THEN lapsed \cup {m} ELSE lapsed
    /\ UNCHANGED <<commonVars, service, clientVars, setupVars, wanted>>

-----------------------------------------------------------------------------
(* close()                                                                 *)

CloseLater ==  \* mutant: close() forgets the client without closing it
    /\ closed = {}
    /\ closed' = Consumers /\ closing' = "exit"
    /\ UNCHANGED <<published, acked, it, batch, held, crashes>>
    /\ UNCHANGED <<service, client, opened, shut, uses, overlapped, setupVars, queueVars>>

Close ==
    /\ closed = {}
    /\ closed' = Consumers
    /\ closing' = IF client = NoClient THEN "done" ELSE "exit"
    /\ shut' = IF client = NoClient THEN shut ELSE shut \cup {client}
    /\ UNCHANGED <<published, acked, it, batch, held, crashes>>
    /\ UNCHANGED <<service, client, opened, uses, overlapped, setupVars, queueVars>>

\* __aexit__ has returned; _client is forgotten, even if it is another one by now.  If it has
\* raised, close() raises and _client stays.
ClientExited ==
    /\ closing = "exit"
    /\ closing' = "done" /\ client' \in {client, NoClient}
    /\ UNCHANGED <<commonVars, service, opened, shut, uses, overlapped, setupVars, queueVars>>

-----------------------------------------------------------------------------
SetsUpQueue(c) == Known(c) \/ MakeQueue(c) \/ SetPolicy(c) \/ SubscribeQueue(c)
Iterates(c) ==
    GetClient(c) \/ ClientOpened(c) \/ SetsUpQueue(c) \/ Receive(c) \/ ReceiveEnds(c) \/ Ask(c)
Settles(c) == \E m \in Msgs : Ack(c, m) \/ Nack(c, m) \/ Abandon(c, m)
IsAcked(m) == \E c \in Consumers : Ack(c, m)

Next ==
    \/ Send \/ PublishToTopic \/ Close \/ ClientExited
    \/ \E c \in Consumers : Iterates(c) \/ Settles(c)
    \/ \E m \in Msgs : TimeoutElapses(m)

\* An iteration goes on by itself, timeouts elapse, a handler comes to an end, and one that is
\* given a message again and again succeeds some time.
Fairness ==
    /\ \A c \in Consumers : WF_vars(Iterates(c)) /\ WF_vars(Settles(c))
    /\ \A m \in Msgs : WF_vars(TimeoutElapses(m)) /\ SF_vars(IsAcked(m))

Spec == Init /\ [][Next]_vars /\ Fairness

-----------------------------------------------------------------------------
\* A client that is open when close() has returned, or that nobody will close any more, was
\* replaced by another iteration that had not seen it, or was opened after close() was called.
LeakedOnlyIfOverlapped ==
    \A k \in 1..opened : k \in shut \cup overlapped \/ k = client

\* From the moment the queue is subscribed no message passes it by, and none that it got is
\* lost before it is acknowledged.
SubscribedMissesNothing == wanted \subseteq visible \cup hidden \cup acked

\* At least once, as long as somebody iterates.
SentIsAcked == \A m \in Msgs : m \in wanted ~> m \in acked \/ AllEnded
=============================================================================
