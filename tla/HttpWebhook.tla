---------------------------- MODULE HttpWebhook ----------------------------
(***************************************************************************)
(* The HTTP backend (natricine_http).  A publisher posts its messages one  *)
(* after the other and goes on when the response is a success.  The        *)
(* subscriber's web application puts each request in the queue of its      *)
(* topic and holds the response until the message is acked (200) or nacked *)
(* (500).  Subscriptions of one topic compete for the queue.               *)
(*                                                                         *)
(* The web server and the network are modelled by what the code relies on: *)
(* a sender that gives up does not stop the request handler.               *)
(***************************************************************************)
EXTENDS Naturals, Sequences

CONSTANTS
    Senders,       \* calls of publish() to one topic
    N,             \* messages in each call
    Consumers,     \* subscriptions of the topic
    Sequential     \* those whose application settles a message before it asks for the next

Requests == Senders \X (1..N)

VARIABLES
    pub,           \* sender -> where publish() stands
    posted,        \* sender -> messages posted so far
    queue,         \* the topic's asyncio.Queue
    it,            \* iteration -> where _subscribe_iter() stands
    held,          \* iteration -> requests its application has not settled
    verdict,       \* request -> _PendingMessage.result and acked
    closed,        \* _closed
    givenUp        \* history: requests that the application will never settle

vars == <<pub, posted, queue, it, held, verdict, closed, givenUp>>

\* The types.
TypeOK ==
    /\ pub \in [Senders -> {"ready", "waiting", "returned", "refused", "timedOut"}]
    /\ posted \in [Senders -> 0..N]
    /\ queue \in Seq(Requests)
    /\ it \in [Consumers -> {"get", "out", "ended"}]
    /\ held \in [Consumers -> SUBSET Requests]
    /\ verdict \in [Requests -> {"none", "acked", "nacked"}]
    /\ closed \in BOOLEAN /\ givenUp \subseteq Requests

Init ==
    /\ pub = [p \in Senders |-> "ready"] /\ posted = [p \in Senders |-> 0]
    /\ queue = <<>>
    /\ it = [i \in Consumers |-> "get"] /\ held = [i \in Consumers |-> {}]
    /\ verdict = [r \in Requests |-> "none"]
    /\ closed = FALSE /\ givenUp = {}

-----------------------------------------------------------------------------
(* publish() and the request handler                                       *)

Current(p) == <<p, posted[p]>>
PubGoto(p, to) == pub' = [pub EXCEPT ![p] = to]

\* The next request; its handler puts it in the queue, whether or not anybody will take it.
Post(p) ==
    /\ pub[p] = "ready" /\ posted[p] < N
    /\ PubGoto(p, "waiting")
    /\ posted' = [posted EXCEPT ![p] = @ + 1]
    /\ queue' = Append(queue, <<p, posted[p] + 1>>)
    /\ UNCHANGED <<it, held, verdict, closed, givenUp>>

\* The response: 200 lets publish() go on, 500 makes raise_for_status() raise.
AnyAnswer(r) == verdict[r] # "none"  \* mutant: no raise_for_status()
Success(r) == verdict[r] = "acked"

Respond(p) ==
    /\ pub[p] = "waiting" /\ verdict[Current(p)] # "none"
    /\ PubGoto(p, IF ~Success(Current(p)) THEN "refused"
                  ELSE IF posted[p] = N THEN "returned" ELSE "ready")
    /\ UNCHANGED <<posted, queue, it, held, verdict, closed, givenUp>>

SenderTimesOut(p) ==
    /\ pub[p] = "waiting"
    /\ PubGoto(p, "timedOut")
    /\ UNCHANGED <<posted, queue, it, held, verdict, closed, givenUp>>

-----------------------------------------------------------------------------
(* _subscribe_iter()                                                       *)

Goto(i, to) == it' = [it EXCEPT ![i] = to]

Get(i) ==
    /\ it[i] = "get" /\ queue # <<>>
    /\ held' = [held EXCEPT ![i] = @ \cup {Head(queue)}]
    /\ queue' = Tail(queue)
    /\ Goto(i, "out")
    /\ UNCHANGED <<pub, posted, verdict, closed, givenUp>>

\* The timeout of wait_for(): the only moment at which a waiting iteration notices close().
GetTimesOut(i) ==
    /\ it[i] = "get" /\ queue = <<>> /\ closed
    /\ Goto(i, "ended")
    /\ UNCHANGED <<pub, posted, queue, held, verdict, closed, givenUp>>

Ask(i) ==
    /\ it[i] = "out"
    /\ i \in Sequential => held[i] = {}
    /\ Goto(i, IF closed THEN "ended" ELSE "get")
    /\ UNCHANGED <<pub, posted, queue, held, verdict, closed, givenUp>>

-----------------------------------------------------------------------------
Settle(i, r, how) ==
    /\ r \in held[i]
    /\ held' = [held EXCEPT ![i] = @ \ {r}]
    /\ verdict' = [verdict EXCEPT ![r] = how]
    /\ UNCHANGED <<pub, posted, queue, it, closed, givenUp>>

Ack(i, r) == Settle(i, r, "acked")
Nack(i, r) == Settle(i, r, "nacked")

\* The application is cancelled before it settles the message.
Abandon(i, r) ==
    /\ r \in held[i]
    /\ held' = [held EXCEPT ![i] = @ \ {r}]
    /\ givenUp' = givenUp \cup {r}
    /\ UNCHANGED <<pub, posted, queue, it, verdict, closed>>

Close ==
    /\ ~closed
    /\ closed' = TRUE
    /\ UNCHANGED <<pub, posted, queue, it, held, verdict, givenUp>>

Settles(i) == \E r \in Requests : Ack(i, r) \/ Nack(i, r) \/ Abandon(i, r)

Iterates(i) == Get(i) \/ GetTimesOut(i) \/ Ask(i)

Next ==
    \/ \E p \in Senders : Post(p) \/ Respond(p) \/ SenderTimesOut(p)
    \/ \E i \in Consumers : Iterates(i) \/ Settles(i)
    \/ Close

\* Iterations go on, responses are sent, and handlers come to an end; senders may be patient
\* for ever.
Fairness ==
    /\ \A p \in Senders : WF_vars(Respond(p))
    /\ \A i \in Consumers : WF_vars(Iterates(i)) /\ WF_vars(Settles(i))

Spec == Init /\ [][Next]_vars /\ Fairness

-----------------------------------------------------------------------------
Posted == {r \in Requests : r[2] <= posted[r[1]]}

\* publish() that returned had every message acknowledged, one that goes on had all before, and
\* one that raised had all but the last: no response overtakes the settlement.
SuccessMeansAcked ==
    \A r \in Posted :
        \/ verdict[r] = "acked"
        \/ r = Current(r[1]) /\ pub[r[1]] \in {"waiting", "refused", "timedOut"}

CutShort(p) == Current(p) \in givenUp

\* A sender that waits gets its response, except when the message was cut short or when it is
\* left in the queue because every iteration has ended.
WaitingIsAnswered ==
    \A p \in Senders :
        pub[p] = "waiting"
            ~> pub[p] # "waiting" \/ CutShort(p) \/ \A i \in Consumers : it[i] = "ended"
=============================================================================
