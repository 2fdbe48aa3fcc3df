---------------------------- MODULE RedisStream ----------------------------
(***************************************************************************)
(* The Redis Streams backend (natricine_redis): a publisher appends to a   *)
(* stream, and the consumers of one group, each with a consumer_name of    *)
(* its own, read it.  Redis keeps for each consumer the entries that it    *)
(* was given and has not acknowledged, its pending list.  Every turn of a  *)
(* subscriber's loop first reads its own pending list from the start, and  *)
(* only then new entries.                                                  *)
(*                                                                         *)
(* XREADGROUP, XACK and the group are Redis's and modelled by what the     *)
(* code relies on.  Entries are numbered in the order of the stream; the   *)
(* stream is not trimmed (maxlen is None unless the user gives one).       *)
(***************************************************************************)
EXTENDS Competing

VARIABLES
    read,          \* the group's last delivered entry
    pel            \* consumer -> its pending list

redisVars == <<read, pel>>
vars == <<commonVars, redisVars>>

\* old, new: an entry of the pending list, or a new one, was yielded.
States == {"pending", "old", "fresh", "new", "ended"}

\* The types; only entries that were read are pending, in a batch or acknowledged.
TypeOK ==
    /\ CommonTypes(States, SUBSET (1..read))
    /\ read \in 0..published
    /\ pel \in [Consumers -> SUBSET (1..read)]
    /\ acked \subseteq 1..read

Init ==
    /\ CommonInit("pending", {})
    /\ read = 0 /\ pel = [c \in Consumers |-> {}]

-----------------------------------------------------------------------------
\* publish(): one XADD for each message.
Add ==
    /\ published < N
    /\ published' = published + 1
    /\ UNCHANGED <<acked, it, batch, held, closed, crashes, redisVars>>

LoopHead(c) == IF c \in closed THEN "ended" ELSE "pending"

\* The entries of S up to the Batch-th, in the order of the stream.
First(S) == {m \in S : Cardinality({x \in S : x < m}) < Batch}

NewOnly(c) ==  \* mutant: the pending list is not read
    /\ it[c] = "pending" /\ Goto(c, "fresh")
    /\ UNCHANGED <<published, acked, batch, held, closed, crashes, redisVars>>

\* The pending list is read from its start, entries that the application still holds included;
\* what was read is yielded at once, entry by entry.
ReadPending(c) ==
    /\ it[c] = "pending"
    /\ IF pel[c] # {} THEN Goto(c, "old") /\ Yield(c, First(pel[c]))
                      ELSE Goto(c, "fresh") /\ UNCHANGED <<held, batch>>
    /\ UNCHANGED <<published, acked, closed, crashes, redisVars>>

Unread == (read + 1)..published

\* Redis hands an entry to one consumer of the group.
ReadNew(c) ==
    /\ it[c] = "fresh"
    /\ IF Unread # {}
       THEN /\ Goto(c, "new") /\ Yield(c, First(Unread))
            /\ pel' = [pel EXCEPT ![c] = @ \cup First(Unread)]
            /\ read' = IF read + Batch < published THEN read + Batch ELSE published
       ELSE Goto(c, LoopHead(c)) /\ UNCHANGED <<held, batch, pel, read>>
    /\ UNCHANGED <<published, acked, closed, crashes>>

\* The application asks for the next message.  _closed is looked at only after new entries.
Ask(c) ==
    /\ it[c] \in {"old", "new"} /\ MayAsk(c)
    /\ IF batch[c] # {} THEN UNCHANGED it /\ Yield(c, batch[c])
       ELSE /\ Goto(c, IF it[c] = "old" THEN "fresh" ELSE LoopHead(c))
            /\ UNCHANGED <<held, batch>>
    /\ UNCHANGED <<published, acked, closed, crashes, redisVars>>

-----------------------------------------------------------------------------
\* XACK takes the entry off the pending lists of the group.
Ack(c, m) ==
    /\ Release(c, m)
    /\ pel' = [d \in Consumers |-> pel[d] \ {m}]
    /\ acked' = acked \cup {m}
    /\ UNCHANGED <<published, it, batch, closed, crashes, read>>

NackDrops(c, m) ==  \* mutant: nack() takes the entry off as well
    /\ Release(c, m)
    /\ pel' = [d \in Consumers |-> pel[d] \ {m}]
    /\ UNCHANGED <<published, acked, it, batch, closed, crashes, read>>

\* nack() does nothing: the entry stays in the pending list.  An application that is
\* cancelled, or whose ack fails, does the same.
Nack(c, m) ==
    /\ Release(c, m)
    /\ UNCHANGED <<published, acked, it, batch, closed, crashes, redisVars>>

Close(c) == SetClosed(c) /\ UNCHANGED redisVars

\* The consumer that takes its place has the same name; its group exists already, which
\* _ensure_group() does not mind.
Crash(c) == Respawn(c, "pending", {}) /\ UNCHANGED redisVars

Iterates(c) == ReadPending(c) \/ ReadNew(c) \/ Ask(c)
Settles(c) == \E m \in Msgs : Ack(c, m) \/ Nack(c, m)
IsAcked(m) == \E c \in Consumers : Ack(c, m)

Next ==
    \/ Add
    \/ \E c \in Consumers : Iterates(c) \/ Settles(c) \/ Close(c) \/ Crash(c)

\* An iteration goes on by itself, and a handler that is given a message again and again
\* succeeds some time.
Fairness ==
    /\ \A c \in Consumers : WF_vars(Iterates(c))
    /\ \A m \in Msgs : SF_vars(IsAcked(m))

Spec == Init /\ [][Next]_vars /\ Fairness

-----------------------------------------------------------------------------
Has(c, m) == m \in batch[c] \/ held[c][m] > 0

\* An entry that was read is acknowledged or pending for one consumer, and nobody else has it,
\* now or later: consumers compete for new entries only.
OneOwner ==
    /\ \A m \in 1..read : m \in acked \/ \E c \in Consumers : m \in pel[c]
    /\ \A c \in Consumers : \A m \in pel[c] :
        m \notin acked /\ \A d \in Consumers \ {c} : m \notin pel[d] /\ ~Has(d, m)

\* An application that settles each message before it asks for the next is given no message
\* twice at a time and none that was acknowledged, although every turn reads the pending list
\* again.  (One that works on several messages at once is given those in hand over and over.)
SequentialSeesPendingOnce ==
    \A c \in Sequential, m \in Msgs :
        Has(c, m) => m \in pel[c] /\ held[c][m] = (IF m \in batch[c] THEN 0 ELSE 1)

\* Pending for a consumer whose iteration has ended.
Orphaned(m) == \E c \in Consumers : m \in pel[c] /\ it[c] = "ended"

\* At least once: an entry is acknowledged in the end, nacks and crashes notwithstanding,
\* unless the iteration of the consumer that owns it came to an end.
AddedIsAcked == \A m \in Msgs : m <= published ~> m \in acked \/ Orphaned(m) \/ AllEnded
=============================================================================
