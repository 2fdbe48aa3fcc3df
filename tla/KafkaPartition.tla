--------------------------- MODULE KafkaPartition ---------------------------
(***************************************************************************)
(* The Kafka backend (natricine_kafka): the subscribers of one group over  *)
(* one partition of a topic.  Kafka assigns the partition to one consumer  *)
(* at a time, which fetches batches from its position and yields them      *)
(* record by record; ack() commits the offset behind the record, nack()    *)
(* seeks back to it.                                                       *)
(*                                                                         *)
(* The broker and the aiokafka consumer are modelled by what the code      *)
(* relies on.  Offsets start from 1: a position or a committed offset of r *)
(* means that r is the last record before it.                              *)
(***************************************************************************)
EXTENDS Competing

CONSTANT None      \* nobody owns the partition: no member of Consumers

VARIABLES
    committed,     \* the group's committed offset
    owner,         \* the consumer that the partition is assigned to
    position,      \* the owner's position
    nacked,        \* history: records nacked and not yielded since
    overtaken      \* history: records that another one's ack or nack moved an offset past
                   \* before they were settled, or that were never settled

kafkaVars == <<committed, owner, position, nacked, overtaken>>
vars == <<commonVars, kafkaVars>>

\* The types; no offset lies beyond the last record.
TypeOK ==
    /\ CommonTypes({"poll", "out", "ended"}, SUBSET (1..published))
    /\ committed \in 0..published /\ position \in 0..published
    /\ owner \in Consumers \cup {None}
    /\ nacked \subseteq 1..published /\ overtaken \subseteq 1..published

Init ==
    /\ CommonInit("poll", {})
    /\ committed = 0 /\ owner = None /\ position = 0
    /\ nacked = {} /\ overtaken = {}

-----------------------------------------------------------------------------
\* publish(): one send_and_wait for each message.
Produce ==
    /\ published < N
    /\ published' = published + 1
    /\ UNCHANGED <<acked, it, batch, held, closed, crashes, kafkaVars>>

\* start() makes the consumer a member of the group, whatever its application is doing from
\* then on; it reads from the committed offset, or from the earliest record.
Assign(c) ==
    /\ owner = None /\ it[c] # "ended"
    /\ owner' = c /\ position' = committed
    /\ UNCHANGED <<commonVars, committed, nacked, overtaken>>

\* The group takes the partition away; the application keeps what it has.
Rebalance ==
    /\ owner # None /\ crashes < MaxCrashes
    /\ owner' = None /\ crashes' = crashes + 1
    /\ UNCHANGED <<published, acked, it, batch, held, closed>>
    /\ UNCHANGED <<committed, position, nacked, overtaken>>

YieldRecord(c, S) == Yield(c, S) /\ nacked' = nacked \ {Oldest(S)}

\* The loop is left: consumer.stop() leaves the group.
Stop(c) ==
    /\ Goto(c, "ended")
    /\ owner' = IF owner = c THEN None ELSE owner

\* getmany() returns, and its first record is yielded.
Poll(c) ==
    /\ it[c] = "poll" /\ owner = c /\ position < published
    /\ LET end == IF position + Batch < published THEN position + Batch ELSE published IN
        /\ position' = end
        /\ YieldRecord(c, (position + 1)..end)
    /\ Goto(c, "out")
    /\ UNCHANGED <<published, acked, closed, crashes, committed, owner, overtaken>>

\* getmany() returns nothing within its timeout.
PollEnds(c) ==
    /\ it[c] = "poll" /\ c \in closed
    /\ Stop(c)
    /\ UNCHANGED <<published, acked, batch, held, closed, crashes>>
    /\ UNCHANGED <<committed, position, nacked, overtaken>>

\* The application asks for the next record: the rest of the batch first, wherever nack() or
\* a rebalance have moved the position.
Ask(c) ==
    /\ it[c] = "out" /\ MayAsk(c)
    /\ IF batch[c] # {} THEN YieldRecord(c, batch[c]) /\ UNCHANGED <<it, owner>>
       ELSE /\ IF c \in closed THEN Stop(c) ELSE Goto(c, "poll") /\ UNCHANGED owner
            /\ UNCHANGED <<held, batch, nacked>>
    /\ UNCHANGED <<published, acked, closed, crashes, committed, position, overtaken>>

-----------------------------------------------------------------------------
Unsettled(S) == S \ acked
CommitNext(m) == m + 1  \* mutant: off by one
CommitOffset(m) == m     \* record.offset + 1
SeekNext(m) == m  \* mutant: off by one
SeekOffset(m) == m - 1   \* record.offset

\* Only the owner may commit.
Ack(c, m) ==
    /\ owner = c /\ Release(c, m)
    /\ committed' = CommitOffset(m)
    /\ acked' = acked \cup {m} /\ overtaken' = (overtaken \cup Unsettled(1..(m - 1))) \ {m}
    /\ UNCHANGED <<published, it, batch, closed, crashes, owner, position, nacked>>

\* Seeking moves the position back, or forth if it was moved further back before.
Nack(c, m) ==
    /\ owner = c /\ Release(c, m)
    /\ position' = SeekOffset(m)
    /\ nacked' = nacked \cup {m}
    /\ overtaken' = overtaken \cup Unsettled((position + 1)..(m - 1))
    /\ UNCHANGED <<published, acked, it, batch, closed, crashes, committed, owner>>

\* The application is cancelled, its ack or nack fails, or raises because the partition
\* belongs to another consumer.
Abandon(c, m) ==
    /\ Release(c, m)
    /\ overtaken' = overtaken \cup Unsettled({m})
    /\ UNCHANGED <<published, acked, it, batch, closed, crashes>>
    /\ UNCHANGED <<committed, owner, position, nacked>>

Close(c) == SetClosed(c) /\ UNCHANGED kafkaVars

Crash(c) ==
    /\ Respawn(c, "poll", {})
    /\ owner' = IF owner = c THEN None ELSE owner
    /\ UNCHANGED <<committed, position, nacked, overtaken>>

Iterates(c) == Assign(c) \/ Poll(c) \/ PollEnds(c) \/ Ask(c)
Settles(c) == \E m \in Msgs : Ack(c, m) \/ Nack(c, m) \/ Abandon(c, m)
IsAcked(m) == \E c \in Consumers : Ack(c, m)

Next ==
    \/ Produce \/ Rebalance
    \/ \E c \in Consumers : Iterates(c) \/ Settles(c) \/ Close(c) \/ Crash(c)

\* An iteration goes on by itself, a handler comes to an end, and one that is given a record
\* again and again succeeds some time.
Fairness ==
    /\ \A c \in Consumers : WF_vars(Iterates(c)) /\ WF_vars(Settles(c))
    /\ \A m \in Msgs : SF_vars(IsAcked(m))

Spec == Init /\ [][Next]_vars /\ Fairness

-----------------------------------------------------------------------------
Yields(c, m) == m \in batch[c] \/ held[c][m] > 0

\* The record will be fetched, or was fetched and is about to be yielded or settled by whoever
\* may still commit it.
Expected(m) ==
    IF owner = None THEN m > committed ELSE m > position \/ Yields(owner, m)

\* A record is lost to the group only if another one's commit or seek moved past it, or its
\* application never settled it: no fetch, rebalance, crash or close loses one.
LostOnlyIfOvertaken == \A m \in 1..published : m \in acked \cup overtaken \/ Expected(m)

\* At least once, with the same exceptions.
ProducedIsAcked ==
    \A m \in Msgs : m <= published ~> m \in acked \cup overtaken \/ AllEnded

\* What the README of the package says: "At-least-once delivery: Nack seeks back to message
\* offset for redelivery".  A record that was nacked is still to be fetched, or is in the batch.
NackSeeksBack ==
    owner # None => \A m \in nacked : m > position \/ m \in batch[owner]
=============================================================================
