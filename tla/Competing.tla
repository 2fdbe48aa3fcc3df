------------------------------ MODULE Competing ------------------------------
(***************************************************************************)
(* What the subscribers of every backend have in common: consumers that    *)
(* compete for the messages of one topic.  A consumer's iteration fetches  *)
(* a batch, yields it message by message to the application, which acks or *)
(* nacks each, in any order or, if it is sequential, before it asks for    *)
(* the next.  Messages are numbered in the order they were published.      *)
(***************************************************************************)
EXTENDS Naturals, FiniteSets

CONSTANTS
    Consumers,     \* subscribers of one consumer group
    Sequential,    \* those whose application settles a message before it asks for the next
    N,             \* messages published
    Batch,         \* the most messages that one fetch returns
    MaxHeld,       \* bound on the copies of a message that one application holds
    MaxCrashes     \* bound on crashes of consumers, and on rebalances

ASSUME CompetingAssumption ==
    /\ IsFiniteSet(Consumers) /\ Sequential \subseteq Consumers
    /\ N \in Nat /\ Batch \in Nat \ {0} /\ MaxHeld \in Nat \ {0} /\ MaxCrashes \in Nat

VARIABLES
    published,     \* messages published so far
    acked,         \* messages acknowledged
    it,            \* consumer -> where its _subscribe_iter() stands
    batch,         \* consumer -> messages fetched and not yielded yet
    held,          \* consumer -> message -> copies its application has not settled
    closed,        \* consumers with _closed set
    crashes        \* history: crashes so far, and rebalances

commonVars == <<published, acked, it, batch, held, closed, crashes>>

Msgs == 1..N
NothingHeld == [m \in Msgs |-> 0]

\* States: where an iteration can stand; A: what a batch can be.
CommonTypes(States, A) ==
    /\ published \in 0..N /\ acked \subseteq 1..published
    /\ it \in [Consumers -> States]
    /\ batch \in [Consumers -> A]
    /\ held \in [Consumers -> [Msgs -> 0..MaxHeld]]
    /\ closed \subseteq Consumers /\ crashes \in 0..MaxCrashes

CommonInit(start, empty) ==
    /\ published = 0 /\ acked = {}
    /\ it = [c \in Consumers |-> start] /\ batch = [c \in Consumers |-> empty]
    /\ held = [c \in Consumers |-> NothingHeld]
    /\ closed = {} /\ crashes = 0

Goto(c, to) == it' = [it EXCEPT ![c] = to]
MayAsk(c) == c \in Sequential => held[c] = NothingHeld

Oldest(S) == CHOOSE m \in S : \A x \in S : m <= x

\* The oldest message of the batch S goes to the application.
Yield(c, S) ==
    LET m == Oldest(S) IN
        /\ held[c][m] < MaxHeld
        /\ held' = [held EXCEPT ![c][m] = @ + 1]
        /\ batch' = [batch EXCEPT ![c] = S \ {m}]

\* The application settles a copy, or will never settle it.
Release(c, m) ==
    /\ held[c][m] > 0
    /\ held' = [held EXCEPT ![c][m] = @ - 1]

SetClosed(c) ==
    /\ c \notin closed
    /\ closed' = closed \cup {c}
    /\ UNCHANGED <<published, acked, it, batch, held, crashes>>

\* The process of the consumer dies, and another takes its place.
Respawn(c, start, empty) ==
    /\ crashes < MaxCrashes /\ it[c] # "ended"
    /\ crashes' = crashes + 1
    /\ Goto(c, start) /\ batch' = [batch EXCEPT ![c] = empty]
    /\ held' = [held EXCEPT ![c] = NothingHeld] /\ closed' = closed \ {c}
    /\ UNCHANGED <<published, acked>>

HandedTo(m) == {c \in Consumers : held[c][m] > 0}
AllEnded == \A c \in Consumers : it[c] = "ended"
=============================================================================
