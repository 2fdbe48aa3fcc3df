------------------------------ MODULE SqlQueue ------------------------------
(***************************************************************************)
(* The SQL backend (natricine_sql): a table per topic in which a publisher *)
(* inserts a row per message, and subscribers of one consumer group that   *)
(* poll it.  A subscriber selects the rows that are due, then claims and   *)
(* yields them one by one, each claim a statement of its own; a row that   *)
(* is neither acked nor nacked is due again when its deadline elapses.     *)
(*                                                                         *)
(* next_delivery_at is the instant at which a row is due, so "ORDER BY     *)
(* next_delivery_at" lists rows in the order they became due: that order   *)
(* is the sequence due.  (SQLite counts in seconds: that rows of the same  *)
(* second are listed by their id is not modelled.)  A row whose            *)
(* next_delivery_at lies ahead is leased.  The database neither crashes    *)
(* nor loses statements, and a publish that is refused is one that does    *)
(* not happen.                                                             *)
(***************************************************************************)
EXTENDS Competing, SequencesExt

VARIABLES
    dialect,       \* SQLiteDialect or PostgresDialect
    due,           \* rows with next_delivery_at <= now, in that order
    claimed,       \* rows with claimed_at not null
    raced,         \* history: messages in hand that a subscriber claimed out of its batch when
                   \* they were not eligible any more
    elapsed        \* history: messages in hand whose deadline elapsed

sqlVars == <<dialect, due, claimed, raced, elapsed>>
vars == <<commonVars, sqlVars>>

StillDue(seq, m) == seq  \* mutant: the row's next_delivery_at is left as it was
Without(seq, m) == RemoveFirst(seq, m)
Rows == 1..published
Leased == Rows \ ToSet(due)

\* The types of the table and of what the subscribers hold; a row is due once.
TypeOK ==
    /\ CommonTypes({"poll", "claim", "out", "ended"}, Seq(Rows))
    /\ dialect \in {"sqlite", "postgres"}
    /\ due \in Seq(Rows) /\ Len(due) <= published
    /\ claimed \subseteq Rows /\ raced \subseteq Rows /\ elapsed \subseteq Rows

Init ==
    /\ CommonInit("poll", <<>>)
    /\ dialect \in {"sqlite", "postgres"}
    /\ due = <<>> /\ claimed = {} /\ raced = {} /\ elapsed = {}

-----------------------------------------------------------------------------
\* publish().  Every insert is visible at once: asyncpg commits it, and on the one SQLite
\* connection statements that are not committed are seen as well.  A statement that fails makes
\* publish() raise and leaves the rows before it: after that no more rows are inserted.
Insert ==
    /\ published < N
    /\ published' = published + 1 /\ due' = Append(due, published + 1)
    /\ UNCHANGED <<acked, it, batch, held, closed, crashes, dialect, claimed, raced, elapsed>>

-----------------------------------------------------------------------------
(* _subscribe_iter()                                                       *)

LoopHead(c) == IF c \in closed THEN "ended" ELSE "poll"

\* The WHERE clause of select_pending; FOR UPDATE SKIP LOCKED holds its locks until the end
\* of that statement, which is a transaction of its own.
ClaimedToo(m) == m \notin acked  \* mutant: no claimed_at IS NULL in SQLite
Unclaimed(m) == m \notin acked \cup claimed  \* mutant: claimed_at IS NULL in both dialects
Eligible(m) == m \notin acked /\ (dialect = "sqlite" => m \notin claimed)
Pending == {i \in 1..Len(due) : Eligible(due[i])}

\* ORDER BY and LIMIT: at lists the places of the first Batch of those rows, in their order.
FirstPending(at) ==
    /\ \A i, j \in DOMAIN at : i < j => at[i] < at[j]
    /\ \A k \in Pending \ ToSet(at) : Len(at) = Batch /\ \A i \in DOMAIN at : at[i] < k

\* _ensure_table() before the first one changes nothing that exists already, and the sleep
\* after one that found nothing changes nothing at all.
Select(c) ==
    /\ it[c] = "poll"
    /\ \E n \in 0..Batch : \E at \in [1..n -> Pending] :
        /\ FirstPending(at)
        /\ batch' = [batch EXCEPT ![c] = [i \in 1..n |-> due[at[i]]]]
    /\ Goto(c, IF Pending # {} THEN "claim" ELSE LoopHead(c))
    /\ UNCHANGED <<published, acked, held, closed, crashes, sqlVars>>

\* claim_message asks for nothing but the row's id.
ClaimAndYield(c) ==
    /\ it[c] = "claim"
    /\ LET m == Head(batch[c]) IN
        /\ held[c][m] < MaxHeld
        /\ claimed' = claimed \cup {m}
        /\ due' = Without(due, m)
        /\ raced' = IF HandedTo(m) = {} \/ (m \in ToSet(due) /\ Eligible(m))
                    THEN raced ELSE raced \cup {m}
        /\ held' = [held EXCEPT ![c][m] = @ + 1]
    /\ batch' = [batch EXCEPT ![c] = Tail(@)]
    /\ Goto(c, "out")
    /\ UNCHANGED <<published, acked, closed, crashes, dialect, elapsed>>

\* What the row holds is no UUID or no JSON: the row is claimed, and the iteration raises.
ClaimAndRaise(c) ==
    /\ it[c] = "claim"
    /\ claimed' = claimed \cup {Head(batch[c])}
    /\ due' = Without(due, Head(batch[c]))
    /\ batch' = [batch EXCEPT ![c] = <<>>]
    /\ Goto(c, "ended")
    /\ UNCHANGED <<published, acked, held, closed, crashes, dialect, raced, elapsed>>

\* The consumer asks for the next message: the rest of the batch first, whether or not the
\* subscriber was closed meanwhile.
Ask(c) ==
    /\ it[c] = "out" /\ MayAsk(c)
    /\ Goto(c, IF batch[c] # <<>> THEN "claim" ELSE LoopHead(c))
    /\ UNCHANGED <<published, acked, batch, held, closed, crashes, sqlVars>>

-----------------------------------------------------------------------------
\* The history is kept for messages in hand only.
Remember ==
    LET inHand == {m \in Msgs : \E c \in Consumers : held'[c][m] > 0} IN
        /\ raced' = raced \cap inHand
        /\ elapsed' = elapsed \cap inHand

Ack(c, m) ==
    /\ Release(c, m) /\ Remember
    /\ acked' = acked \cup {m}
    /\ UNCHANGED <<published, it, batch, closed, crashes, dialect, due, claimed>>

\* The row is due now, behind those that became due before.
Nack(c, m) ==
    /\ Release(c, m) /\ Remember
    /\ due' = Append(Without(due, m), m)
    /\ claimed' = claimed \ {m}
    /\ UNCHANGED <<published, acked, it, batch, closed, crashes, dialect>>

\* The consumer was cancelled, or its ack or nack failed.
Abandon(c, m) ==
    /\ Release(c, m) /\ Remember
    /\ UNCHANGED <<published, acked, it, batch, closed, crashes, dialect, due, claimed>>

DeadlineElapses(m) ==
    /\ m \in Leased \ acked
    /\ due' = Append(due, m)
    /\ elapsed' = IF HandedTo(m) = {} THEN elapsed ELSE elapsed \cup {m}
    /\ UNCHANGED <<commonVars, dialect, claimed, raced>>

-----------------------------------------------------------------------------
Close(c) == SetClosed(c) /\ UNCHANGED sqlVars
Crash(c) == Respawn(c, "poll", <<>>) /\ Remember /\ UNCHANGED <<dialect, due, claimed>>

Iterates(c) == Select(c) \/ ClaimAndYield(c) \/ ClaimAndRaise(c) \/ Ask(c)
Settles(c) == \E m \in Msgs : Ack(c, m) \/ Nack(c, m) \/ Abandon(c, m)
IsAcked(m) == \E c \in Consumers : Ack(c, m)

Next ==
    \/ Insert
    \/ \E c \in Consumers : Iterates(c) \/ Settles(c) \/ Close(c) \/ Crash(c)
    \/ \E m \in Msgs : DeadlineElapses(m)

\* An iteration goes on by itself, deadlines elapse, and a handler that is given a message
\* again and again succeeds some time.
Fairness ==
    /\ \A c \in Consumers : WF_vars(Iterates(c))
    /\ \A m \in Msgs : WF_vars(DeadlineElapses(m)) /\ SF_vars(IsAcked(m))

Spec == Init /\ [][Next]_vars /\ Fairness

-----------------------------------------------------------------------------
Copies(m) == {k \in Consumers \X (1..MaxHeld) : held[k[1]][m] >= k[2]}
Shared(m) == \E j, k \in Copies(m) : j # k

\* The message goes to one worker or to another, not to both: a message is in two hands at
\* once only if its deadline elapsed, or if a subscriber claimed it out of a batch that it
\* had selected before somebody else claimed it.  In SQLite, where a claimed row is not
\* selected again, only the second can happen.
SharedOnlyByRaceOrDeadline ==
    \A m \in Msgs : Shared(m) => m \in raced \/ (dialect = "postgres" /\ m \in elapsed)

\* A row that SQLite will never select again: its subscriber died, raised on what it
\* holds, or gave up without a nack.
Stranded(m) == dialect = "sqlite" /\ m \in claimed \ acked /\ HandedTo(m) = {}

\* At least once: a row that was inserted is acknowledged in the end, whatever is nacked,
\* abandoned or lost in a crash, as long as somebody iterates; except for the rows that
\* SQLite strands.
InsertedIsAcked ==
    \A m \in Msgs : m <= published ~> m \in acked \/ Stranded(m) \/ AllEnded

\* Somebody has selected the row and not claimed it yet.
Selected == UNION {ToSet(batch[c]) : c \in Consumers}
Lapsed == Selected \cup raced \cup (IF dialect = "postgres" THEN elapsed ELSE {})

Abstract == INSTANCE WorkQueue WITH
    Messages <- Msgs, sent <- Rows, done <- acked,
    lapsed <- Lapsed,
    hands <- [m \in Msgs |-> HandedTo(m)]

\* The table is a work queue whose hold on a row begins with its claim, not with its selection:
\* whoever selected a row may be handed it although somebody else has claimed, or acked, it.
IsWorkQueue == Abstract!Spec

\* What the README of the package says of FOR UPDATE SKIP LOCKED: "PostgreSQL ensures no
\* duplicate processing", as long as the deadline has not elapsed.
NoDuplicateProcessing ==
    \A m \in Msgs : dialect = "postgres" /\ m \notin elapsed => ~Shared(m)
=============================================================================
