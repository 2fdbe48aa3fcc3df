----------------------------- MODULE LazyClient -----------------------------
(***************************************************************************)
(* The publishers that open a client at their first publish() and share it *)
(* between all later ones: HTTPPublisher, whose client is made at once;    *)
(* SQSPublisher and SNSPublisher, which suspend while theirs is opened and *)
(* look up the topic with it; KafkaPublisher, which keeps a producer and   *)
(* then starts it.  Publishes run side by side, and the publisher may be   *)
(* closed between any two of their steps.  What is done with a client that *)
(* is open is for the services' own modules.                               *)
(***************************************************************************)
EXTENDS Naturals

CONSTANTS
    Publishes,     \* calls of publish() on one publisher
    NoClient

VARIABLES
    sort,          \* which publisher: "http", "aws", "kafka"
    shared,        \* _client or _producer; a client is named for the publish that made it
    clients,       \* client -> what became of it
    stage,         \* publish -> where it stands
    using,         \* publish -> the client it goes on with
    refuses,       \* _closed
    exit,          \* close() or __aexit__ waits for the client's exit, or has returned
    resolved,      \* _queue_urls or _topic_arns has the topic
    crossed        \* history: clients that another one replaced, or that opened after the exit

sharedVars == <<sort, shared, clients, stage, using, refuses, exit, resolved, crossed>>

\* The types; a client is shared or in use only once somebody began to open it.
TypeOK ==
    /\ sort \in {"http", "aws", "kafka"}
    /\ shared \in Publishes \cup {NoClient}
    /\ clients \in [Publishes -> {"none", "opening", "open", "failed", "exiting", "closed"}]
    /\ stage \in [Publishes -> {"idle", "opening", "resolving", "sending", "returned", "raised"}]
    /\ using \in [Publishes -> Publishes \cup {NoClient}]
    /\ refuses \in BOOLEAN /\ resolved \in BOOLEAN
    /\ exit \in {"no", "exiting", "done"}
    /\ crossed \subseteq Publishes
    /\ \A k \in Publishes :
        clients[k] = "none" => shared # k /\ \A p \in Publishes : using[p] # k

\* With a resolver the topic needs no client.
Init ==
    /\ sort \in {"http", "aws", "kafka"}
    /\ shared = NoClient /\ clients = [k \in Publishes |-> "none"]
    /\ stage = [p \in Publishes |-> "idle"] /\ using = [p \in Publishes |-> NoClient]
    /\ refuses = FALSE /\ exit = "no" /\ crossed = {}
    /\ resolved \in {sort # "aws", TRUE}

-----------------------------------------------------------------------------
(* publish()                                                               *)

Goes(p, to) == stage' = [stage EXCEPT ![p] = to]
Takes(p, k) == using' = [using EXCEPT ![p] = k]
Becomes(k, s) == clients' = [clients EXCEPT ![k] = s]
Onwards == IF resolved THEN "sending" ELSE "resolving"

Refused(p) ==
    /\ stage[p] = "idle" /\ refuses
    /\ Goes(p, "raised")
    /\ UNCHANGED <<sort, shared, clients, using, refuses, exit, resolved, crossed>>

KeptFirst == sort # "http"  \* mutant: every publisher keeps its client before it is open
\* KafkaPublisher assigns the producer before it awaits start().
AssignedFirst == sort = "kafka"

\* A client that is there is used, whatever its state.
UsesShared(p) ==
    /\ stage[p] = "idle" /\ ~refuses /\ shared # NoClient
    /\ Takes(p, shared) /\ Goes(p, Onwards)
    /\ UNCHANGED <<sort, shared, clients, refuses, exit, resolved, crossed>>

\* httpx.AsyncClient() does not suspend.
MakesClient(p) ==
    /\ stage[p] = "idle" /\ ~refuses /\ shared = NoClient /\ sort = "http"
    /\ shared' = p /\ Becomes(p, "open") /\ Takes(p, p) /\ Goes(p, Onwards)
    /\ UNCHANGED <<sort, refuses, exit, resolved, crossed>>

StartsOpening(p) ==
    /\ stage[p] = "idle" /\ ~refuses /\ shared = NoClient /\ sort # "http"
    /\ shared' = IF AssignedFirst THEN p ELSE shared
    /\ Becomes(p, "opening") /\ Takes(p, p) /\ Goes(p, "opening")
    /\ UNCHANGED <<sort, refuses, exit, resolved, crossed>>

Replaced(k) == {k} \ {NoClient}

\* The client is kept, over whatever another publish has put there meanwhile.
ClientOpens(p) ==
    /\ stage[p] = "opening" /\ ~AssignedFirst
    /\ shared' = p /\ Becomes(p, "open") /\ Goes(p, Onwards)
    /\ crossed' = crossed \cup Replaced(shared) \cup (IF exit # "no" THEN {p} ELSE {})
    /\ UNCHANGED <<sort, using, refuses, exit, resolved>>

\* What is shared now is used: nothing, if the publisher's __aexit__ has stopped and dropped the
\* producer while it started, and the call of nothing raises.
ProducerStarts(p) ==
    /\ stage[p] = "opening" /\ AssignedFirst
    /\ IF clients[p] = "opening" THEN Becomes(p, "open") ELSE UNCHANGED clients
    /\ Takes(p, shared) /\ Goes(p, IF shared = NoClient THEN "raised" ELSE Onwards)
    /\ UNCHANGED <<sort, shared, refuses, exit, resolved, crossed>>

\* Opening raises, or is cancelled.  A producer stays where it was put.
OpeningFails(p) ==
    /\ stage[p] = "opening"
    /\ IF clients[p] = "opening" THEN Becomes(p, "failed") ELSE UNCHANGED clients
    /\ Goes(p, "raised")
    /\ UNCHANGED <<sort, shared, using, refuses, exit, resolved, crossed>>

-----------------------------------------------------------------------------
\* A client in the middle of its exit may serve a call or not.
Serves(k) == clients[k] \in {"open", "exiting"}

\* _get_queue_url() or _get_topic_arn(): making a queue or a topic twice does not matter.
Resolves(p) ==
    /\ stage[p] = "resolving" /\ Serves(using[p])
    /\ resolved' = TRUE
    /\ Goes(p, "sending")
    /\ UNCHANGED <<sort, shared, clients, using, refuses, exit, crossed>>

\* One message of the call, the last one or not.
Sends(p) ==
    /\ stage[p] = "sending" /\ Serves(using[p])
    /\ \E to \in {"sending", "returned"} : Goes(p, to)
    /\ UNCHANGED <<sort, shared, clients, using, refuses, exit, resolved, crossed>>

\* The service or the client raises, or the publish is cancelled: the messages before stay sent.
Raises(p) ==
    /\ stage[p] \in {"resolving", "sending"}
    /\ Goes(p, "raised")
    /\ UNCHANGED <<sort, shared, clients, using, refuses, exit, resolved, crossed>>

-----------------------------------------------------------------------------
(* close() and __aexit__()                                                 *)

\* KafkaPublisher.close() stops nothing; its __aexit__ does.
OnlyRefuse ==
    /\ sort = "kafka" /\ ~refuses
    /\ refuses' = TRUE
    /\ UNCHANGED <<sort, shared, clients, stage, using, exit, resolved, crossed>>

BeginsExit ==
    /\ exit = "no"
    /\ refuses' = TRUE
    /\ IF shared = NoClient THEN exit' = "done" /\ UNCHANGED clients
       ELSE exit' = "exiting" /\ Becomes(shared, "exiting")
    /\ UNCHANGED <<sort, shared, stage, using, resolved, crossed>>

\* _client is forgotten, even if it is another one by now; an exit that raises forgets nothing.
EndsExit ==
    /\ exit = "exiting" /\ exit' = "done"
    /\ \E k \in Publishes : clients[k] = "exiting" /\ Becomes(k, "closed")
    /\ shared' \in {NoClient, shared}
    /\ UNCHANGED <<sort, stage, using, refuses, resolved, crossed>>

-----------------------------------------------------------------------------
GoesOn(p) ==
    \/ Refused(p) \/ UsesShared(p) \/ MakesClient(p) \/ StartsOpening(p)
    \/ ClientOpens(p) \/ ProducerStarts(p) \/ OpeningFails(p)
    \/ Resolves(p) \/ Sends(p) \/ Raises(p)

Next == OnlyRefuse \/ BeginsExit \/ EndsExit \/ \E p \in Publishes : GoesOn(p)

Spec == Init /\ [][Next]_sharedVars

-----------------------------------------------------------------------------
\* A client that is open and that nobody will close any more was opened by a publish() of SQS or
\* SNS while another one opened its own, or after the exit had begun.  What a closed publisher
\* still sends, it sends with such a client, or in the middle of the exit.
LeakedOnlyIfCrossed ==
    /\ \A k \in Publishes : clients[k] = "open" =>
        \/ k = shared /\ exit = "no"
        \/ sort = "aws" /\ k \in crossed
    /\ exit = "done" => \A p \in Publishes :
        stage[p] = "sending" /\ Serves(using[p]) => using[p] \in crossed

\* A publish() that goes on has a client that is ready, unless the publisher began to exit it
\* meanwhile.  Kafka alone hands out a producer that another publish() has not started yet, or
\* has failed to start: that one it keeps, and no later publish() can succeed.
ReadyUnlessNotStarted ==
    \A p \in Publishes : stage[p] \in {"resolving", "sending"} =>
        CASE clients[using[p]] = "open" -> TRUE
          [] clients[using[p]] \in {"exiting", "closed"} -> refuses
          [] clients[using[p]] = "opening" -> sort = "kafka" /\ stage[using[p]] = "opening"
          [] clients[using[p]] = "failed" -> sort = "kafka" /\ stage[using[p]] = "raised"
          [] OTHER -> FALSE
=============================================================================
