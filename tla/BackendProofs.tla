---------------------------- MODULE BackendProofs ----------------------------
(***************************************************************************)
(* What the backends keep for any consumers, senders, messages, batches    *)
(* and bounds, as parts of MCParts.                                        *)
(*                                                                         *)
(* RedisStream and KafkaPartition read a log in its order.  Each has an    *)
(* inductive invariant of its own, made of its types, the property and     *)
(* what a consumer can have when its loop begins a turn.                   *)
(*                                                                         *)
(* The hard part of AwsQueue is the client that several iterations share   *)
(* while each of them opens it for itself: that there are at most as many  *)
(* as iterations, and that none is lost but an overlapped one, depends on  *)
(* where every iteration stands (ClientInv).  That of HttpWebhook is that  *)
(* a request is in one place at a time, the queue or one application, as   *)
(* long as it is not settled (QueueIsFresh, HandsAreFresh).  That of       *)
(* LazyClient is what a publish may find in the place of the client it     *)
(* goes on with, which depends on the stage of the publish that opened it  *)
(* (OwnClient).                                                            *)
(***************************************************************************)
EXTENDS MCParts, FiniteSetTheorems, WellFoundedInduction, Sequences, TLAPS

-----------------------------------------------------------------------------
(* Batches and their first messages                                        *)

\* Of numbers there is a least one, so Oldest chooses one of its argument.
LEMMA LeastExists ==
    ASSUME NEW S, S \subseteq Nat, S # {}
    PROVE  \E m \in S : \A x \in S : m <= x
<1>1. \E m \in S : \A y \in S : ~ (<<y, m>> \in OpToRel(<, Nat))
  BY NatLessThanWellFounded, WFMin, Zenon
<1>2. PICK m \in S : \A y \in S : ~ (<<y, m>> \in OpToRel(<, Nat))
  BY <1>1
<1>3. \A y \in S : ~ (y < m)
  BY <1>2, Zenon DEF OpToRel
<1> QED
  BY <1>3

\* What is handed out is one of the batch.
LEMMA OldestIsOne ==
    ASSUME NEW S \in SUBSET Msgs, S # {}
    PROVE  Redis!Oldest(S) \in S
<1>1. S \subseteq Nat
  BY CompetingAssumption DEF Msgs
<1>2. \E m \in S : \A x \in S : m <= x
  BY <1>1, LeastExists
<1> QED
  BY <1>2 DEF Redis!Oldest

-----------------------------------------------------------------------------
(* RedisStream                                                             *)

\* An application has only entries that were read.
HeldIsRead == \A c \in Consumers, m \in Msgs : held[c][m] > 0 => m <= read
\* A turn of the loop starts with an empty batch, and a sequential application empty-handed.
TurnStartsEmpty ==
    \A c \in Consumers : it[c] \in {"pending", "fresh"} =>
        batch[c] = {} /\ (c \in Sequential => held[c] = Redis!NothingHeld)

RedisInv ==
    /\ Redis!TypeOK
    /\ Redis!OneOwner
    /\ Redis!SequentialSeesPendingOnce
    /\ HeldIsRead
    /\ TurnStartsEmpty

\* Yield hands out one copy of one message of the batch.
LEMMA RedisYields ==
    ASSUME RedisInv, NEW c \in Consumers, NEW S \in SUBSET Msgs, S # {}, Redis!Yield(c, S)
    PROVE  \E m \in S :
             /\ held[c][m] < MaxHeld
             /\ held' \in [Consumers -> [Msgs -> 0..MaxHeld]]
             /\ batch' \in [Consumers -> SUBSET Msgs]
             /\ \A d \in Consumers : batch'[d] = IF d = c THEN S \ {m} ELSE batch[d]
             /\ \A d \in Consumers, x \in Msgs :
                   held'[d][x] = IF d = c /\ x = m THEN held[c][m] + 1 ELSE held[d][x]
<1>1. Redis!Oldest(S) \in S
  BY OldestIsOne
<1>2. PICK m \in S : /\ held[c][m] < MaxHeld
                     /\ held' = [held EXCEPT ![c][m] = @ + 1]
                     /\ batch' = [batch EXCEPT ![c] = S \ {m}]
  BY <1>1 DEF Redis!Yield
<1>3. held \in [Consumers -> [Msgs -> 0..MaxHeld]] /\ MaxHeld \in Nat
  BY CompetingAssumption DEF RedisInv, Redis!TypeOK, Redis!CommonTypes, Redis!Msgs, Msgs
<1>4. m \in Msgs
  OBVIOUS
<1>5. held[c][m] + 1 \in 0..MaxHeld
  BY <1>2, <1>3, <1>4
<1>6. held' \in [Consumers -> [Msgs -> 0..MaxHeld]]
  BY <1>2, <1>3, <1>4, <1>5
<1>7. \A d \in Consumers, x \in Msgs :
          held'[d][x] = IF d = c /\ x = m THEN held[c][m] + 1 ELSE held[d][x]
  BY <1>2, <1>3, <1>4
<1>8. batch \in [Consumers -> SUBSET (1..read)] /\ 1..read \subseteq Msgs
  BY CompetingAssumption DEF RedisInv, Redis!TypeOK, Redis!CommonTypes, Msgs
<1>9. batch \in [Consumers -> SUBSET Msgs]
  BY <1>8
<1>10. /\ batch' \in [Consumers -> SUBSET Msgs]
       /\ \A d \in Consumers : batch'[d] = IF d = c THEN S \ {m} ELSE batch[d]
  BY <1>2, <1>9
<1> QED
  BY <1>2, <1>6, <1>7, <1>10

\* RedisStream counts as this module does.
LEMMA RedisCountsSo ==
    ASSUME NEW S
    PROVE  Redis!Cardinality(S) = Cardinality(S)
BY DEF Redis!Cardinality, Cardinality

\* A fetch that finds something returns something.
LEMMA FirstOfMessages ==
    ASSUME NEW S \in SUBSET Msgs, S # {}
    PROVE  Redis!First(S) \in SUBSET Msgs /\ Redis!First(S) \subseteq S /\ Redis!First(S) # {}
<1>1. S \subseteq Nat
  BY CompetingAssumption DEF Msgs
<1>2. PICK m \in S : \A x \in S : m <= x
  BY <1>1, LeastExists
<1>3. \A x \in S : ~ (x < m)
  BY <1>1, <1>2
<1>4. {x \in S : x < m} = {}
  BY <1>3
<1>5. Cardinality({x \in S : x < m}) = 0
  BY <1>4, FS_EmptySet
<1>6. Redis!Cardinality({x \in S : x < m}) < Batch
  BY <1>5, CompetingAssumption, RedisCountsSo
<1> QED
  BY <1>6, Zenon DEF Redis!First

\* A fetch of new entries takes the next Batch of them, or all.
LEMMA FirstOfUnread ==
    ASSUME RedisInv, NEW end,
           end = IF read + Batch < published THEN read + Batch ELSE published
    PROVE  Redis!First(Redis!Unread) = (read + 1)..end
<1>1. read \in Nat /\ published \in Nat /\ Batch \in Nat /\ read <= published
  BY CompetingAssumption DEF RedisInv, Redis!TypeOK, Redis!CommonTypes
<1>2. ASSUME NEW m \in Redis!Unread
      PROVE  Cardinality({x \in Redis!Unread : x < m}) = m - 1 - read
  <2>1. m \in Nat /\ read < m /\ m <= published
    BY <1>1 DEF Redis!Unread
  <2>2. {x \in Redis!Unread : x < m} = (read + 1)..(m - 1)
    BY <1>1, <2>1 DEF Redis!Unread
  <2>3. Cardinality((read + 1)..(m - 1)) = m - 1 - read
    BY <1>1, <2>1, FS_Interval
  <2> QED
    BY <2>2, <2>3
<1>3. \A m \in Redis!Unread :
          Redis!Cardinality({x \in Redis!Unread : x < m}) < Batch <=> m \in (read + 1)..end
  BY <1>1, <1>2, RedisCountsSo DEF Redis!Unread
<1>4. (read + 1)..end \subseteq Redis!Unread
  BY <1>1 DEF Redis!Unread
<1>5. \A m : m \in Redis!First(Redis!Unread) <=> m \in (read + 1)..end
  BY <1>3, <1>4, Zenon DEF Redis!First
<1> QED
  BY <1>5

\* Handing an application an entry of a batch that was just read, or of the one it works on.
LEMMA RedisHandsOut ==
    ASSUME RedisInv, NEW c \in Consumers, NEW S \in SUBSET Msgs, S # {}, Redis!Yield(c, S),
           c \in Sequential => held[c] = Redis!NothingHeld,
           read' \in read..published,
           pel' = [pel EXCEPT ![c] = @ \cup ((read + 1)..read')],
           S \subseteq pel'[c] \/ S = batch[c],
           it' \in [Consumers -> Redis!States], it'[c] \in {"old", "new"},
           \A d \in Consumers \ {c} : it'[d] = it[d],
           UNCHANGED <<published, acked, closed, crashes>>
    PROVE  RedisInv'
<1> USE CompetingAssumption DEF Redis!Msgs, Msgs
<1>1. PICK m \in S :
           /\ held[c][m] < MaxHeld
           /\ held' \in [Consumers -> [Msgs -> 0..MaxHeld]]
           /\ batch' \in [Consumers -> SUBSET Msgs]
           /\ \A d \in Consumers : batch'[d] = IF d = c THEN S \ {m} ELSE batch[d]
           /\ \A d \in Consumers, x \in Msgs :
                 held'[d][x] = IF d = c /\ x = m THEN held[c][m] + 1 ELSE held[d][x]
  BY RedisYields
<1>2. /\ read \in Nat /\ read' \in Nat /\ read <= read' /\ published \in Nat /\ read' <= published
      /\ published <= N /\ acked \subseteq 1..read
      /\ batch \in [Consumers -> SUBSET (1..read)] /\ pel \in [Consumers -> SUBSET (1..read)]
      /\ held \in [Consumers -> [Msgs -> 0..MaxHeld]]
  <2>1. /\ published \in 0..N /\ read \in 0..published /\ acked \subseteq 1..read
        /\ batch \in [Consumers -> SUBSET (1..read)] /\ pel \in [Consumers -> SUBSET (1..read)]
        /\ held \in [Consumers -> [Msgs -> 0..MaxHeld]]
    BY Zenon DEF RedisInv, Redis!TypeOK, Redis!CommonTypes
  <2>2. /\ read \in Nat /\ read' \in Nat /\ read <= read' /\ published \in Nat
        /\ read' <= published /\ published <= N
    BY <2>1
  <2> QED
    BY <2>1, <2>2, Zenon
<1>3. /\ pel' \in [Consumers -> SUBSET (1..read')]
      /\ pel'[c] = pel[c] \cup ((read + 1)..read')
      /\ \A d \in Consumers \ {c} : pel'[d] = pel[d]
  <2>1. \A d \in Consumers : pel[d] \subseteq 1..read' /\ (read + 1)..read' \subseteq 1..read'
    <3>1. 1..read \subseteq 1..read' /\ (read + 1)..read' \subseteq 1..read'
      BY <1>2
    <3>2. \A d \in Consumers : pel[d] \in SUBSET (1..read)
      BY <1>2, Zenon
    <3> QED
      BY <3>1, <3>2, Zenon
  <2>2. pel' = [d \in Consumers |-> IF d = c THEN pel[c] \cup ((read + 1)..read') ELSE pel[d]]
    BY <1>2
  <2> QED
    BY <2>1, <2>2
<1>4. S \subseteq 1..read'
  BY <1>2, <1>3
<1>5. batch' \in [Consumers -> SUBSET (1..read')]
  <2>1. \A d \in Consumers : batch[d] \subseteq 1..read'
    BY <1>2
  <2> QED
    BY <1>1, <1>4, <2>1
<1>6. acked' \subseteq 1..read' /\ acked' \subseteq 1..published' /\ 1..read' \subseteq Msgs
  BY <1>2
<1>7. Redis!TypeOK'
  <2>1. closed' \subseteq Consumers /\ crashes' \in 0..MaxCrashes /\ published' \in 0..N
    BY DEF RedisInv, Redis!TypeOK, Redis!CommonTypes
  <2>2. read' \in 0..published'
    BY <1>2
  <2> QED
    BY <1>1, <1>3, <1>5, <1>6, <2>1, <2>2 DEF Redis!TypeOK, Redis!CommonTypes
<1>8. Redis!OneOwner'
  <2>1. ASSUME NEW x \in 1..read'
        PROVE  x \in acked' \/ \E d \in Consumers : x \in pel'[d]
    <3>1. CASE x <= read
      BY <1>2, <1>3, <2>1, <3>1 DEF RedisInv, Redis!OneOwner
    <3>2. CASE ~ (x <= read)
      BY <1>2, <1>3, <2>1, <3>2
    <3> QED
      BY <3>1, <3>2
  <2>2. ASSUME NEW d \in Consumers, NEW x \in pel'[d], NEW e \in Consumers \ {d}
        PROVE  x \notin acked /\ x \notin pel'[e] /\ x \notin batch'[e] /\ ~ (held'[e][x] > 0)
    <3>1. x \in Msgs /\ x \in 1..read'
      BY <1>3, <1>6
    <3>2. CASE x \in pel[d]
      <4>1. x \in 1..read
        BY <1>2, <3>2
      <4>2. x \notin acked /\ x \notin pel[e] /\ x \notin batch[e] /\ ~ (held[e][x] > 0)
        BY <3>2 DEF RedisInv, Redis!OneOwner, Redis!Has
      <4>3. x \notin pel'[e]
        BY <1>2, <1>3, <4>1, <4>2
      <4>4. e = c => x \notin S
        BY <4>2, <4>3
      <4> QED
        BY <1>1, <3>1, <4>2, <4>3, <4>4
    <3>3. CASE x \notin pel[d]
      <4>1. d = c /\ x \in (read + 1)..read'
        BY <1>3, <2>2, <3>3
      <4>2. x \notin 1..read
        BY <1>2, <4>1
      <4>3. x \notin acked /\ x \notin pel[e] /\ x \notin batch[e]
        BY <1>2, <4>2
      <4>4. ~ (held[e][x] > 0)
        <5>1. held[e][x] > 0 => x <= read
          BY <3>1, Zenon DEF RedisInv, HeldIsRead
        <5>2. ~ (x <= read)
          <6>1. x \in Nat /\ x >= 1 /\ read \in Nat
            BY <1>2, <3>1
          <6> QED
            BY <4>2, <6>1
        <5> QED
          BY <5>1, <5>2, Zenon
      <4> QED
        BY <1>1, <1>3, <3>1, <4>1, <4>3, <4>4
    <3> QED
      BY <3>2, <3>3
  <2>3. ASSUME NEW d \in Consumers, NEW x \in pel'[d]
        PROVE  x \notin acked
    <3>1. CASE x \in pel[d]
      BY <3>1 DEF RedisInv, Redis!OneOwner
    <3>2. CASE x \notin pel[d]
      BY <1>2, <1>3, <2>3, <3>2
    <3> QED
      BY <3>1, <3>2
  <2> QED
    BY <2>1, <2>2, <2>3 DEF Redis!OneOwner, Redis!Has
<1>9. Redis!SequentialSeesPendingOnce'
  <2>1. SUFFICES ASSUME NEW d \in Sequential, NEW x \in Msgs, Redis!Has(d, x)'
                 PROVE  x \in pel'[d] /\ held'[d][x] = (IF x \in batch'[d] THEN 0 ELSE 1)
    BY DEF Redis!SequentialSeesPendingOnce
  <2>2. d \in Consumers /\ held[d][x] \in Nat
    BY <1>2
  <2>3. CASE d = c
    <3>1. held[d][x] = 0
      BY <2>2, <2>3 DEF Redis!NothingHeld
    <3>2. x \in S
      BY <1>1, <2>1, <2>2, <2>3, <3>1 DEF Redis!Has
    <3>3. x \in pel'[d]
      BY <1>3, <2>3, <3>2 DEF RedisInv, Redis!SequentialSeesPendingOnce, Redis!Has
    <3> QED
      BY <1>1, <2>2, <2>3, <3>1, <3>2, <3>3
  <2>4. CASE d # c
    <3>1. Redis!Has(d, x)
      BY <1>1, <2>1, <2>2, <2>4 DEF Redis!Has
    <3>2. x \in pel[d] /\ held[d][x] = (IF x \in batch[d] THEN 0 ELSE 1)
      BY <3>1 DEF RedisInv, Redis!SequentialSeesPendingOnce
    <3> QED
      BY <1>1, <1>3, <2>2, <2>4, <3>2
  <2> QED
    BY <2>3, <2>4
<1>10. HeldIsRead'
  <2>1. SUFFICES ASSUME NEW d \in Consumers, NEW x \in Msgs, held'[d][x] > 0
                 PROVE  x <= read'
    BY DEF HeldIsRead
  <2>2. x \in S \/ held[d][x] > 0
    BY <1>1, <2>1
  <2> QED
    BY <1>2, <1>4, <2>2 DEF RedisInv, HeldIsRead
<1>11. TurnStartsEmpty'
  <2>1. SUFFICES ASSUME NEW d \in Consumers, it'[d] \in {"pending", "fresh"}
                 PROVE  batch'[d] = {} /\ (d \in Sequential => held'[d] = Redis!NothingHeld)
    BY DEF TurnStartsEmpty, Redis!NothingHeld
  <2>2. d # c /\ it[d] \in {"pending", "fresh"}
    BY <2>1
  <2>3. batch[d] = {} /\ (d \in Sequential => held[d] = Redis!NothingHeld)
    BY <2>2 DEF RedisInv, TurnStartsEmpty
  <2>4. held'[d] = held[d]
    BY <1>1, <1>2, <2>2
  <2> QED
    BY <1>1, <2>2, <2>3, <2>4
<1> QED
  BY <1>7, <1>8, <1>9, <1>10, <1>11 DEF RedisInv

\* The loop goes on to its next read, with nothing in the batch.
LEMMA RedisGoesOn ==
    ASSUME RedisInv, NEW c \in Consumers, NEW next \in Redis!States, Redis!Goto(c, next),
           next # "ended" => batch[c] = {} /\ (c \in Sequential => held[c] = Redis!NothingHeld),
           UNCHANGED <<published, acked, batch, held, closed, crashes, read, pel>>
    PROVE  RedisInv'
<1>1. it' \in [Consumers -> Redis!States] /\ \A d \in Consumers : it'[d] = IF d = c THEN next ELSE it[d]
  BY DEF RedisInv, Redis!TypeOK, Redis!CommonTypes, Redis!Goto
<1>2. Redis!TypeOK'
  BY <1>1 DEF RedisInv, Redis!TypeOK, Redis!CommonTypes, Redis!Msgs
<1>3. Redis!OneOwner' /\ Redis!SequentialSeesPendingOnce' /\ HeldIsRead'
  BY DEF RedisInv, Redis!OneOwner, Redis!SequentialSeesPendingOnce, Redis!Has, HeldIsRead
<1>4. TurnStartsEmpty'
  BY <1>1 DEF RedisInv, TurnStartsEmpty, Redis!NothingHeld, Redis!Msgs
<1> QED
  BY <1>2, <1>3, <1>4 DEF RedisInv

\* An application gives up a copy of m; the entry is gone if it was acknowledged, or stays.
LEMMA RedisReleases ==
    ASSUME RedisInv, NEW c \in Consumers, NEW m \in Msgs, Redis!Release(c, m),
           NEW Gone \in SUBSET {m},
           pel' = [d \in Consumers |-> pel[d] \ Gone], acked' = acked \cup Gone,
           UNCHANGED <<published, it, batch, closed, crashes, read>>
    PROVE  RedisInv'
<1> USE CompetingAssumption DEF Redis!Msgs, Msgs
<1>1. /\ read \in Nat /\ published \in Nat /\ read <= published /\ acked \subseteq 1..read
      /\ pel \in [Consumers -> SUBSET (1..read)]
      /\ held \in [Consumers -> [Msgs -> 0..MaxHeld]] /\ held[c][m] > 0
  BY DEF RedisInv, Redis!TypeOK, Redis!CommonTypes, Redis!Release
<1>2. held' = [held EXCEPT ![c][m] = @ - 1]
  BY DEF Redis!Release
<1>3. held[c][m] - 1 \in 0..MaxHeld
  BY <1>1
<1>4. /\ held' \in [Consumers -> [Msgs -> 0..MaxHeld]]
      /\ \A d \in Consumers, x \in Msgs :
            held'[d][x] = IF d = c /\ x = m THEN held[c][m] - 1 ELSE held[d][x]
  BY <1>1, <1>2, <1>3
<1>5. \A d \in Consumers, x \in Msgs : held'[d][x] > 0 => held[d][x] > 0
  BY <1>1, <1>4
<1>6. m \in 1..read
  BY <1>1 DEF RedisInv, HeldIsRead
<1>7. acked' \subseteq 1..read /\ pel' \in [Consumers -> SUBSET (1..read)]
  BY <1>1, <1>6
<1>8. Redis!TypeOK'
  BY <1>1, <1>4, <1>7 DEF RedisInv, Redis!TypeOK, Redis!CommonTypes
<1>9. Redis!OneOwner'
  <2>1. ASSUME NEW x \in 1..read'
        PROVE  x \in acked' \/ \E d \in Consumers : x \in pel'[d]
    BY DEF RedisInv, Redis!OneOwner
  <2>2. ASSUME NEW d \in Consumers, NEW x \in pel'[d]
        PROVE  x \in pel[d] /\ x \in Msgs /\ x \notin acked'
    BY <1>1 DEF RedisInv, Redis!OneOwner, Redis!TypeOK, Redis!CommonTypes
  <2>3. ASSUME NEW d \in Consumers, NEW x \in pel'[d], NEW e \in Consumers \ {d}
        PROVE  x \notin pel'[e] /\ ~ Redis!Has(e, x)'
    <3>1. x \notin pel[e] /\ ~ Redis!Has(e, x) /\ x \in Msgs
      BY <2>2 DEF RedisInv, Redis!OneOwner
    <3> QED
      BY <1>5, <3>1 DEF Redis!Has
  <2> QED
    BY <2>1, <2>2, <2>3 DEF Redis!OneOwner
<1>10. Redis!SequentialSeesPendingOnce'
  <2>1. SUFFICES ASSUME NEW d \in Sequential, NEW x \in Msgs, Redis!Has(d, x)'
                 PROVE  x \in pel'[d] /\ held'[d][x] = (IF x \in batch'[d] THEN 0 ELSE 1)
    BY DEF Redis!SequentialSeesPendingOnce
  <2>2. d \in Consumers /\ Redis!Has(d, x) /\ held[d][x] \in Nat
    BY <1>1, <1>5, <2>1 DEF Redis!Has
  <2>3. x \in pel[d] /\ held[d][x] = (IF x \in batch[d] THEN 0 ELSE 1)
    BY <2>2 DEF RedisInv, Redis!SequentialSeesPendingOnce
  <2>4. CASE x = m
    <3>1. c # d => m \notin pel[d]
      <4>1. Redis!Has(c, m)
        BY <1>1 DEF Redis!Has
      <4> QED
        BY <2>2, <4>1 DEF RedisInv, Redis!OneOwner
    <3>2. d = c
      BY <2>3, <2>4, <3>1
    <3>3. held[c][m] = 1 /\ m \notin batch[c]
      BY <1>1, <2>3, <2>4, <3>2
    <3>4. held'[c][m] = 0
      BY <1>4, <3>3
    <3> QED
      BY <2>1, <2>4, <3>2, <3>3, <3>4 DEF Redis!Has
  <2>5. CASE x # m
    BY <1>1, <1>4, <2>2, <2>3, <2>5
  <2> QED
    BY <2>4, <2>5
<1>11. HeldIsRead'
  BY <1>5 DEF RedisInv, HeldIsRead
<1>12. TurnStartsEmpty'
  <2>1. SUFFICES ASSUME NEW d \in Consumers, it[d] \in {"pending", "fresh"}
                 PROVE  batch[d] = {} /\ (d \in Sequential => held'[d] = Redis!NothingHeld)
    BY DEF TurnStartsEmpty, Redis!NothingHeld
  <2>2. batch[d] = {} /\ (d \in Sequential => held[d] = Redis!NothingHeld)
    BY <2>1 DEF RedisInv, TurnStartsEmpty
  <2>3. ASSUME d \in Sequential PROVE held'[d] = held[d]
    <3>1. d # c
      BY <1>1, <2>2, <2>3 DEF Redis!NothingHeld
    <3> QED
      BY <1>1, <1>2, <3>1
  <2> QED
    BY <2>2, <2>3
<1> QED
  BY <1>8, <1>9, <1>10, <1>11, <1>12 DEF RedisInv

\* A step of the stream, of a consumer's loop or of its application keeps the invariant.
LEMMA RedisStep == RedisInv /\ Redis!Next => RedisInv'
<1> SUFFICES ASSUME RedisInv, Redis!Next
             PROVE  RedisInv'
  OBVIOUS
<1> USE CompetingAssumption DEF Redis!Msgs, Msgs
<1>0. /\ read \in Nat /\ published \in Nat /\ read <= published /\ published <= N
      /\ acked \subseteq 1..read
      /\ pel \in [Consumers -> SUBSET (1..read)] /\ batch \in [Consumers -> SUBSET (1..read)]
      /\ it \in [Consumers -> Redis!States] /\ 1..read \subseteq Msgs
  BY DEF RedisInv, Redis!TypeOK, Redis!CommonTypes
<1>1. CASE Redis!Add
  <2>1. UNCHANGED <<acked, it, batch, held, closed, crashes, read, pel>> /\ published' \in 0..N
        /\ read' \in 0..published' /\ acked' \subseteq 1..published'
    BY <1>0, <1>1 DEF Redis!Add, Redis!redisVars
  <2>2. Redis!TypeOK'
    BY <2>1 DEF RedisInv, Redis!TypeOK, Redis!CommonTypes
  <2> QED
    BY <2>1, <2>2 DEF RedisInv, Redis!OneOwner, Redis!SequentialSeesPendingOnce, Redis!Has, HeldIsRead,
       TurnStartsEmpty, Redis!NothingHeld
<1>2. ASSUME NEW c \in Consumers, Redis!ReadPending(c)
      PROVE  RedisInv'
  <2>1. batch[c] = {} /\ (c \in Sequential => held[c] = Redis!NothingHeld)
    BY <1>2 DEF RedisInv, TurnStartsEmpty, Redis!ReadPending
  <2>2. CASE pel[c] = {}
    BY <1>2, <2>1, <2>2, RedisGoesOn DEF Redis!ReadPending, Redis!redisVars, Redis!States
  <2>3. CASE pel[c] # {}
    <3>1. pel[c] \in SUBSET Msgs
      BY <1>0
    <3>2. /\ Redis!First(pel[c]) \in SUBSET Msgs /\ Redis!First(pel[c]) \subseteq pel[c]
          /\ Redis!First(pel[c]) # {}
      BY <2>3, <3>1, FirstOfMessages
    <3>3. /\ it' \in [Consumers -> Redis!States] /\ it'[c] \in {"old", "new"}
          /\ \A d \in Consumers \ {c} : it'[d] = it[d]
      BY <1>0, <1>2, <2>3 DEF Redis!ReadPending, Redis!Goto, Redis!States
    <3>4. read' \in read..published /\ pel' = [pel EXCEPT ![c] = @ \cup ((read + 1)..read')]
      BY <1>0, <1>2 DEF Redis!ReadPending, Redis!redisVars
    <3>5. Redis!First(pel[c]) \subseteq pel'[c]
      BY <1>2, <3>2 DEF Redis!ReadPending, Redis!redisVars
    <3>6. Redis!Yield(c, Redis!First(pel[c])) /\ UNCHANGED <<published, acked, closed, crashes>>
      BY <1>2, <2>3 DEF Redis!ReadPending
    <3> QED
      BY <2>1, <3>2, <3>3, <3>4, <3>5, <3>6, RedisHandsOut
  <2> QED
    BY <2>2, <2>3
<1>3. ASSUME NEW c \in Consumers, Redis!ReadNew(c)
      PROVE  RedisInv'
  <2>1. batch[c] = {} /\ (c \in Sequential => held[c] = Redis!NothingHeld)
    BY <1>3 DEF RedisInv, TurnStartsEmpty, Redis!ReadNew
  <2>2. CASE Redis!Unread = {}
    BY <1>3, <2>1, <2>2, RedisGoesOn DEF Redis!ReadNew, Redis!LoopHead, Redis!States
  <2>3. CASE Redis!Unread # {}
    <3>1. /\ read' = IF read + Batch < published THEN read + Batch ELSE published
          /\ pel' = [pel EXCEPT ![c] = @ \cup Redis!First(Redis!Unread)]
          /\ Redis!Yield(c, Redis!First(Redis!Unread))
          /\ UNCHANGED <<published, acked, closed, crashes>>
      BY <1>3, <2>3 DEF Redis!ReadNew
    <3>2. Redis!First(Redis!Unread) = (read + 1)..read'
      BY <3>1, FirstOfUnread
    <3>3. read < published
      BY <1>0, <2>3 DEF Redis!Unread
    <3>4. read' \in read..published /\ (read + 1)..read' # {} /\ (read + 1)..read' \in SUBSET Msgs
      BY <1>0, <3>1, <3>3
    <3>5. (read + 1)..read' \subseteq pel'[c]
      BY <1>0, <3>1, <3>2
    <3>6. /\ it' \in [Consumers -> Redis!States] /\ it'[c] \in {"old", "new"}
          /\ \A d \in Consumers \ {c} : it'[d] = it[d]
      BY <1>0, <1>3, <2>3 DEF Redis!ReadNew, Redis!Goto, Redis!States
    <3> QED
      BY <2>1, <3>1, <3>2, <3>4, <3>5, <3>6, RedisHandsOut
  <2> QED
    BY <2>2, <2>3
<1>4. ASSUME NEW c \in Consumers, Redis!Ask(c)
      PROVE  RedisInv'
  <2>1. c \in Sequential => held[c] = Redis!NothingHeld
    BY <1>4 DEF Redis!Ask, Redis!MayAsk
  <2>2. UNCHANGED <<published, acked, closed, crashes, read, pel>>
    BY <1>4 DEF Redis!Ask, Redis!redisVars
  <2>3. CASE batch[c] = {}
    BY <1>4, <2>1, <2>2, <2>3, RedisGoesOn DEF Redis!Ask, Redis!LoopHead, Redis!States
  <2>4. CASE batch[c] # {}
    <3>1. batch[c] \in SUBSET Msgs
      BY <1>0
    <3>2. read' \in read..published /\ pel' = [pel EXCEPT ![c] = @ \cup ((read + 1)..read')]
      BY <1>0, <2>2
    <3>3. /\ it' \in [Consumers -> Redis!States] /\ it'[c] \in {"old", "new"}
          /\ \A d \in Consumers \ {c} : it'[d] = it[d]
      BY <1>0, <1>4, <2>4 DEF Redis!Ask
    <3>4. Redis!Yield(c, batch[c])
      BY <1>4, <2>4 DEF Redis!Ask
    <3> QED
      BY <2>1, <2>2, <2>4, <3>1, <3>2, <3>3, <3>4, RedisHandsOut
  <2> QED
    BY <2>3, <2>4
<1>5. ASSUME NEW c \in Consumers, NEW m \in Msgs, Redis!Ack(c, m)
      PROVE  RedisInv'
  BY <1>5, RedisReleases DEF Redis!Ack
<1>6. ASSUME NEW c \in Consumers, NEW m \in Msgs, Redis!Nack(c, m)
      PROVE  RedisInv'
  <2>1. pel' = [d \in Consumers |-> pel[d] \ {}] /\ acked' = acked \cup {}
    BY <1>0, <1>6 DEF Redis!Nack, Redis!redisVars
  <2> QED
    BY <1>6, <2>1, RedisReleases DEF Redis!Nack, Redis!redisVars
<1>7. ASSUME NEW c \in Consumers, Redis!Close(c)
      PROVE  RedisInv'
  <2>1. UNCHANGED <<published, acked, it, batch, held, crashes, read, pel>> /\ closed' = closed \cup {c}
    BY <1>7 DEF Redis!Close, Redis!SetClosed, Redis!redisVars
  <2>2. Redis!TypeOK'
    BY <2>1 DEF RedisInv, Redis!TypeOK, Redis!CommonTypes
  <2> QED
    BY <2>1, <2>2 DEF RedisInv, Redis!OneOwner, Redis!SequentialSeesPendingOnce, Redis!Has, HeldIsRead,
       TurnStartsEmpty, Redis!NothingHeld
<1>8. ASSUME NEW c \in Consumers, Redis!Crash(c)
      PROVE  RedisInv'
  <2>1. /\ UNCHANGED <<published, acked, read, pel>> /\ closed' = closed \ {c}
        /\ crashes' = crashes + 1 /\ crashes < MaxCrashes
        /\ it' = [it EXCEPT ![c] = "pending"] /\ batch' = [batch EXCEPT ![c] = {}]
        /\ held' = [held EXCEPT ![c] = Redis!NothingHeld]
    BY <1>8 DEF Redis!Crash, Redis!Respawn, Redis!Goto, Redis!redisVars
  <2>2. /\ it' \in [Consumers -> Redis!States] /\ batch' \in [Consumers -> SUBSET (1..read)]
        /\ \A d \in Consumers \ {c} : it'[d] = it[d] /\ batch'[d] = batch[d]
        /\ batch'[c] = {}
    BY <1>0, <2>1 DEF Redis!States
  <2>3. /\ held \in [Consumers -> [Msgs -> 0..MaxHeld]] /\ crashes \in 0..MaxCrashes
        /\ closed \subseteq Consumers /\ published \in 0..N
    BY DEF RedisInv, Redis!TypeOK, Redis!CommonTypes
  <2>4. Redis!NothingHeld \in [Msgs -> 0..MaxHeld]
    BY DEF Redis!NothingHeld
  <2>5. /\ held' \in [Consumers -> [Msgs -> 0..MaxHeld]]
        /\ \A d \in Consumers \ {c} : held'[d] = held[d]
        /\ held'[c] = Redis!NothingHeld
    BY <2>1, <2>3, <2>4
  <2>6. \A x \in Msgs : held'[c][x] = 0
    BY <2>5 DEF Redis!NothingHeld
  <2>7. Redis!TypeOK'
    BY <1>0, <2>1, <2>2, <2>3, <2>5 DEF Redis!TypeOK, Redis!CommonTypes
  <2>8. \A d \in Consumers, x \in Msgs : Redis!Has(d, x)' => d # c /\ Redis!Has(d, x)
    BY <2>2, <2>5, <2>6 DEF Redis!Has
  <2>9. Redis!OneOwner'
    BY <1>0, <2>1, <2>8 DEF RedisInv, Redis!OneOwner
  <2>10. Redis!SequentialSeesPendingOnce'
    BY <2>1, <2>2, <2>5, <2>8 DEF RedisInv, Redis!SequentialSeesPendingOnce
  <2>11. HeldIsRead'
    BY <2>1, <2>5, <2>6 DEF RedisInv, HeldIsRead
  <2>12. TurnStartsEmpty'
    BY <2>2, <2>5 DEF RedisInv, TurnStartsEmpty, Redis!NothingHeld
  <2> QED
    BY <2>7, <2>9, <2>10, <2>11, <2>12 DEF RedisInv
<1> QED
  BY <1>1, <1>2, <1>3, <1>4, <1>5, <1>6, <1>7, <1>8 DEF Redis!Next, Redis!Iterates, Redis!Settles

-----------------------------------------------------------------------------
(* KafkaPartition                                                          *)

\* What an application is given is in its hands once more, and out of the batch.
LEMMA KafkaYields ==
    ASSUME Kafka!TypeOK, NEW c \in Consumers, NEW S \in SUBSET (1..published), S # {},
           Kafka!YieldRecord(c, S)
    PROVE  /\ held' \in [Consumers -> [Msgs -> 0..MaxHeld]]
           /\ batch' \in [Consumers -> SUBSET (1..published)]
           /\ nacked' \subseteq 1..published
           /\ \A x \in S : Kafka!Yields(c, x)'
           /\ \A x \in Msgs : held[c][x] > 0 => Kafka!Yields(c, x)'
           /\ \A d \in Consumers \ {c}, x \in Msgs : Kafka!Yields(d, x)' <=> Kafka!Yields(d, x)
           /\ \A d \in Consumers, x \in Msgs : held'[d][x] > 0 => held[d][x] > 0 \/ x \in S
           /\ \A d \in Consumers \ {c} : batch'[d] = batch[d]
<1> USE CompetingAssumption DEF Kafka!Msgs, Msgs
<1>1. /\ held \in [Consumers -> [Msgs -> 0..MaxHeld]] /\ MaxHeld \in Nat
      /\ batch \in [Consumers -> SUBSET (1..published)]
      /\ nacked \subseteq 1..published /\ 1..published \subseteq Msgs
  BY DEF Kafka!TypeOK, Kafka!CommonTypes
<1>2. S \in SUBSET Msgs /\ Kafka!Oldest(S) = Redis!Oldest(S)
  BY <1>1 DEF Kafka!Oldest, Redis!Oldest
<1>3. Kafka!Oldest(S) \in S
  BY <1>2, OldestIsOne
<1>4. PICK m \in S : /\ held[c][m] < MaxHeld
                     /\ held' = [held EXCEPT ![c][m] = @ + 1]
                     /\ batch' = [batch EXCEPT ![c] = S \ {m}]
                     /\ nacked' = nacked \ {m}
  BY <1>3 DEF Kafka!Yield, Kafka!YieldRecord
<1>5. m \in Msgs /\ held[c][m] + 1 \in 0..MaxHeld /\ held[c][m] + 1 > 0
  BY <1>1, <1>2, <1>4
<1>6. /\ held' \in [Consumers -> [Msgs -> 0..MaxHeld]]
      /\ \A d \in Consumers, x \in Msgs :
            held'[d][x] = IF d = c /\ x = m THEN held[c][m] + 1 ELSE held[d][x]
  BY <1>1, <1>4, <1>5
<1>7. /\ batch' \in [Consumers -> SUBSET (1..published)]
      /\ \A d \in Consumers : batch'[d] = IF d = c THEN S \ {m} ELSE batch[d]
  BY <1>1, <1>4
<1> QED
  BY <1>1, <1>4, <1>5, <1>6, <1>7 DEF Kafka!Yields

\* An application gives up one copy of m, and nothing else.
LEMMA KafkaReleases ==
    ASSUME Kafka!TypeOK, NEW c \in Consumers, NEW m \in Msgs, Kafka!Release(c, m)
    PROVE  /\ held[c][m] > 0
           /\ held' \in [Consumers -> [Msgs -> 0..MaxHeld]]
           /\ \A d \in Consumers, x \in Msgs : held'[d][x] > 0 => held[d][x] > 0
           /\ \A d \in Consumers, x \in Msgs \ {m} : held'[d][x] = held[d][x]
<1> USE CompetingAssumption DEF Kafka!Msgs, Msgs
<1>1. held \in [Consumers -> [Msgs -> 0..MaxHeld]] /\ MaxHeld \in Nat
  BY DEF Kafka!TypeOK, Kafka!CommonTypes
<1>2. held[c][m] > 0 /\ held' = [held EXCEPT ![c][m] = @ - 1]
  BY DEF Kafka!Release
<1>3. held[c][m] - 1 \in 0..MaxHeld
  BY <1>1, <1>2
<1>4. /\ held' \in [Consumers -> [Msgs -> 0..MaxHeld]]
      /\ \A d \in Consumers, x \in Msgs :
            held'[d][x] = IF d = c /\ x = m THEN held[c][m] - 1 ELSE held[d][x]
  BY <1>1, <1>2, <1>3
<1> QED
  BY <1>1, <1>2, <1>4

\* What lies before the committed offset is settled or overtaken.
CommittedIsSettled == \A m \in 1..committed : m \in acked \cup overtaken
\* What lies before the position of the owner is settled or overtaken, or the owner has it.
FetchedIsKnown ==
    owner # None => \A m \in 1..position : m \in acked \cup overtaken \/ Kafka!Yields(owner, m)
\* A poll starts with an empty batch.
PollStartsEmpty == \A c \in Consumers : it[c] = "poll" => batch[c] = {}
\* An application has only published records.
HeldIsPublished == \A c \in Consumers, m \in Msgs : held[c][m] > 0 => m <= published

KafkaInv ==
    /\ Kafka!TypeOK
    /\ CommittedIsSettled
    /\ FetchedIsKnown
    /\ PollStartsEmpty
    /\ HeldIsPublished

\* With or without an owner, a record that is not settled or overtaken is still expected.
LEMMA KafkaLoses == KafkaInv => Kafka!LostOnlyIfOvertaken
BY DEF KafkaInv, CommittedIsSettled, FetchedIsKnown, Kafka!LostOnlyIfOvertaken, Kafka!Expected,
   Kafka!TypeOK, Kafka!CommonTypes

\* A consumer leaves the group or dies; the others keep what they have.
LEMMA KafkaLeaves ==
    ASSUME KafkaInv, NEW c \in Consumers,
           owner' = IF owner = c THEN None ELSE owner,
           \A d \in Consumers \ {c} : batch'[d] = batch[d] /\ held'[d] = held[d] /\ it'[d] = it[d],
           it'[c] = "poll" => batch'[c] = {},
           \A x \in Msgs : held'[c][x] > 0 => held[c][x] > 0,
           UNCHANGED <<published, acked, committed, position, overtaken>>
    PROVE  CommittedIsSettled' /\ FetchedIsKnown' /\ PollStartsEmpty' /\ HeldIsPublished'
<1>1. CommittedIsSettled'
  BY DEF KafkaInv, CommittedIsSettled
<1>2. FetchedIsKnown'
  <2>1. CASE owner = c
    BY <2>1 DEF FetchedIsKnown
  <2>2. CASE owner # c
    BY <2>2 DEF KafkaInv, FetchedIsKnown, Kafka!TypeOK, Kafka!Yields
  <2> QED
    BY <2>1, <2>2
<1>3. PollStartsEmpty' /\ HeldIsPublished'
  BY DEF KafkaInv, PollStartsEmpty, HeldIsPublished, Msgs
<1> QED
  BY <1>1, <1>2, <1>3

\* A step of the log, of the group, of a consumer or of its application keeps the invariant.
LEMMA KafkaStep == KafkaInv /\ Kafka!Next => KafkaInv'
<1> SUFFICES ASSUME KafkaInv, Kafka!Next
             PROVE  KafkaInv'
  OBVIOUS
<1> USE CompetingAssumption, NobodyAssumption DEF Kafka!Msgs, Msgs
<1>0. /\ Kafka!TypeOK
      /\ published \in Nat /\ published \in 0..N /\ committed \in 0..published /\ position \in 0..published
      /\ acked \subseteq 1..published /\ overtaken \subseteq 1..published
      /\ nacked \subseteq 1..published
      /\ batch \in [Consumers -> SUBSET (1..published)] /\ 1..published \subseteq Msgs
      /\ it \in [Consumers -> {"poll", "out", "ended"}]
      /\ held \in [Consumers -> [Msgs -> 0..MaxHeld]]
      /\ owner \in Consumers \cup {None} /\ closed \subseteq Consumers /\ crashes \in 0..MaxCrashes
  <2>1. Kafka!TypeOK
    BY Zenon DEF KafkaInv
  <2>2. /\ published \in 0..N /\ committed \in 0..published /\ position \in 0..published
        /\ acked \subseteq 1..published /\ overtaken \subseteq 1..published
        /\ nacked \subseteq 1..published
        /\ batch \in [Consumers -> SUBSET (1..published)]
        /\ it \in [Consumers -> {"poll", "out", "ended"}]
        /\ held \in [Consumers -> [Msgs -> 0..MaxHeld]]
        /\ owner \in Consumers \cup {None} /\ closed \subseteq Consumers /\ crashes \in 0..MaxCrashes
    BY <2>1, Zenon DEF Kafka!TypeOK, Kafka!CommonTypes
  <2>3. published \in Nat /\ 1..published \subseteq Msgs
    BY <2>2
  <2> QED
    BY <2>1, <2>2, <2>3, Zenon
<1>1. CASE Kafka!Produce
  <2>1. /\ UNCHANGED <<acked, it, batch, held, closed, crashes, committed, owner, position, nacked, overtaken>>
        /\ published' = published + 1 /\ published' \in 0..N
    BY <1>0, <1>1 DEF Kafka!Produce, Kafka!kafkaVars
  <2>2. 1..published \subseteq 1..published' /\ 0..published \subseteq 0..published'
    BY <1>0, <2>1
  <2>3. batch \in [Consumers -> SUBSET (1..published')]
    BY <1>0, <2>2
  <2>4. Kafka!TypeOK'
    BY <1>0, <2>1, <2>2, <2>3 DEF Kafka!TypeOK, Kafka!CommonTypes
  <2>5. CommittedIsSettled' /\ FetchedIsKnown' /\ PollStartsEmpty'
    BY <2>1 DEF KafkaInv, CommittedIsSettled, FetchedIsKnown, PollStartsEmpty, Kafka!Yields
  <2>6. HeldIsPublished'
    BY <1>0, <2>1 DEF KafkaInv, HeldIsPublished
  <2> QED
    BY <2>4, <2>5, <2>6 DEF KafkaInv
<1>2. CASE Kafka!Rebalance
  <2>1. /\ UNCHANGED <<published, acked, it, batch, held, closed, committed, position, nacked, overtaken>>
        /\ owner' = None /\ crashes' \in 0..MaxCrashes
    BY <1>0, <1>2 DEF Kafka!Rebalance
  <2>2. Kafka!TypeOK'
    BY <1>0, <2>1 DEF Kafka!TypeOK, Kafka!CommonTypes
  <2> QED
    BY <2>1, <2>2 DEF KafkaInv, CommittedIsSettled, FetchedIsKnown, PollStartsEmpty, HeldIsPublished
<1>3. ASSUME NEW c \in Consumers, Kafka!Assign(c)
      PROVE  KafkaInv'
  <2>1. /\ UNCHANGED <<published, acked, it, batch, held, closed, crashes, committed, nacked, overtaken>>
        /\ owner' = c /\ position' = committed
    BY <1>3 DEF Kafka!Assign, Kafka!commonVars
  <2>2. Kafka!TypeOK'
    BY <1>0, <2>1 DEF Kafka!TypeOK, Kafka!CommonTypes
  <2> QED
    BY <2>1, <2>2 DEF KafkaInv, CommittedIsSettled, FetchedIsKnown, PollStartsEmpty, HeldIsPublished
<1>4. ASSUME NEW c \in Consumers, Kafka!Poll(c)
      PROVE  KafkaInv'
  <2> DEFINE end == IF position + Batch < published THEN position + Batch ELSE published
             S == (position + 1)..end
  <2>1. /\ it[c] = "poll" /\ owner = c /\ position < published /\ position' = end
        /\ Kafka!YieldRecord(c, S) /\ it' = [it EXCEPT ![c] = "out"]
        /\ UNCHANGED <<published, acked, closed, crashes, committed, owner, overtaken>>
    BY <1>4 DEF Kafka!Poll, Kafka!Goto
  <2>2. end \in Nat /\ position < end /\ end <= published
    BY <1>0, <2>1
  <2> HIDE DEF end
  <2>3. /\ S \in SUBSET (1..published) /\ S # {}
        /\ \A x : x \in S <=> x \in (position + 1)..end
        /\ position' \in 0..published
    <3>1. position + 1 \in S
      BY <1>0, <2>2
    <3>2. \A x \in S : x \in 1..published
      BY <1>0, <2>2
    <3>3. position' \in 0..published
      BY <1>0, <2>1, <2>2
    <3> QED
      BY <3>1, <3>2, <3>3
  <2> HIDE DEF S
  <2>4. /\ held' \in [Consumers -> [Msgs -> 0..MaxHeld]]
        /\ batch' \in [Consumers -> SUBSET (1..published)]
        /\ nacked' \subseteq 1..published
        /\ \A x \in S : Kafka!Yields(c, x)'
        /\ \A x \in Msgs : held[c][x] > 0 => Kafka!Yields(c, x)'
        /\ \A d \in Consumers, x \in Msgs : held'[d][x] > 0 => held[d][x] > 0 \/ x \in S
        /\ \A d \in Consumers \ {c} : batch'[d] = batch[d]
    BY <1>0, <2>1, <2>3, KafkaYields
  <2>5. Kafka!TypeOK'
    BY <1>0, <2>1, <2>3, <2>4 DEF Kafka!TypeOK, Kafka!CommonTypes
  <2>6. FetchedIsKnown'
    <3>1. SUFFICES ASSUME NEW x \in 1..end
                   PROVE  x \in acked \cup overtaken \/ Kafka!Yields(c, x)'
      BY <2>1 DEF FetchedIsKnown, Kafka!Yields
    <3>2. CASE x <= position
      <4>1. x \in 1..position /\ x \in Msgs
        BY <1>0, <3>1, <3>2
      <4>2. batch[c] = {}
        BY <2>1 DEF KafkaInv, PollStartsEmpty
      <4>3. x \in acked \cup overtaken \/ held[c][x] > 0
        BY <2>1, <4>1, <4>2 DEF KafkaInv, FetchedIsKnown, Kafka!Yields
      <4> QED
        BY <2>4, <4>1, <4>3
    <3>3. CASE ~ (x <= position)
      <4>1. x \in Nat /\ x <= end /\ position \in Nat
        BY <1>0, <2>2
      <4>2. x \in (position + 1)..end
        BY <2>2, <3>3, <4>1
      <4> QED
        BY <2>3, <2>4, <4>2
    <3> QED
      BY <3>2, <3>3
  <2>7. PollStartsEmpty'
    BY <1>0, <2>1, <2>4 DEF KafkaInv, PollStartsEmpty
  <2>8. HeldIsPublished'
    <3>1. ASSUME NEW d \in Consumers, NEW x \in Msgs, held'[d][x] > 0
          PROVE  x <= published
      <4>1. held[d][x] > 0 \/ x \in S
        BY <2>4, <3>1
      <4>2. x \in S => x <= published
        BY <1>0, <2>3
      <4> QED
        BY <4>1, <4>2 DEF KafkaInv, HeldIsPublished
    <3> QED
      BY <2>1, <3>1 DEF HeldIsPublished
  <2>9. CommittedIsSettled'
    BY <2>1 DEF KafkaInv, CommittedIsSettled
  <2> QED
    BY <2>5, <2>6, <2>7, <2>8, <2>9 DEF KafkaInv
<1>5. ASSUME NEW c \in Consumers, Kafka!PollEnds(c)
      PROVE  KafkaInv'
  <2>1. /\ UNCHANGED <<published, acked, batch, held, closed, crashes, committed, position, nacked, overtaken>>
        /\ it' = [it EXCEPT ![c] = "ended"] /\ owner' = IF owner = c THEN None ELSE owner
    BY <1>5 DEF Kafka!PollEnds, Kafka!Stop, Kafka!Goto
  <2>2. Kafka!TypeOK'
    BY <1>0, <2>1 DEF Kafka!TypeOK, Kafka!CommonTypes
  <2> QED
    BY <1>0, <2>1, <2>2, KafkaLeaves DEF KafkaInv
<1>6. ASSUME NEW c \in Consumers, Kafka!Ask(c), batch[c] # {}
      PROVE  KafkaInv'
  <2>1. /\ Kafka!YieldRecord(c, batch[c]) /\ it[c] = "out"
        /\ UNCHANGED <<published, acked, it, closed, crashes, committed, owner, position, overtaken>>
    BY <1>6 DEF Kafka!Ask
  <2>2. batch[c] \in SUBSET (1..published)
    BY <1>0
  <2>3. /\ held' \in [Consumers -> [Msgs -> 0..MaxHeld]]
        /\ batch' \in [Consumers -> SUBSET (1..published)]
        /\ nacked' \subseteq 1..published
        /\ \A x \in batch[c] : Kafka!Yields(c, x)'
        /\ \A x \in Msgs : held[c][x] > 0 => Kafka!Yields(c, x)'
        /\ \A d \in Consumers \ {c}, x \in Msgs : Kafka!Yields(d, x)' <=> Kafka!Yields(d, x)
        /\ \A d \in Consumers, x \in Msgs : held'[d][x] > 0 => held[d][x] > 0 \/ x \in batch[c]
        /\ \A d \in Consumers \ {c} : batch'[d] = batch[d]
    BY <1>0, <1>6, <2>1, <2>2, KafkaYields
  <2>4. Kafka!TypeOK'
    BY <1>0, <2>1, <2>3 DEF Kafka!TypeOK, Kafka!CommonTypes
  <2>5. FetchedIsKnown'
    <3>1. SUFFICES ASSUME NEW d \in Consumers, d = owner, NEW x \in 1..position
                   PROVE  x \in acked \cup overtaken \/ Kafka!Yields(d, x)'
      BY <1>0, <2>1 DEF FetchedIsKnown, Kafka!Yields
    <3>2. x \in Msgs
      BY <1>0
    <3>3. x \in acked \cup overtaken \/ Kafka!Yields(d, x)
      BY <3>1 DEF KafkaInv, FetchedIsKnown, Kafka!Yields
    <3>4. Kafka!Yields(c, x) => Kafka!Yields(c, x)'
      BY <2>3, <3>2 DEF Kafka!Yields
    <3> QED
      BY <2>3, <3>2, <3>3, <3>4
  <2>6. PollStartsEmpty'
    BY <1>0, <2>1, <2>3 DEF KafkaInv, PollStartsEmpty
  <2>7. HeldIsPublished'
    BY <1>0, <2>1, <2>2, <2>3 DEF KafkaInv, HeldIsPublished
  <2>8. CommittedIsSettled'
    BY <2>1 DEF KafkaInv, CommittedIsSettled
  <2> QED
    BY <2>4, <2>5, <2>6, <2>7, <2>8 DEF KafkaInv
<1>7. ASSUME NEW c \in Consumers, Kafka!Ask(c), batch[c] = {}
      PROVE  KafkaInv'
  <2>1. /\ UNCHANGED <<published, acked, batch, held, closed, crashes, committed, position, nacked, overtaken>>
        /\ \/ it' = [it EXCEPT ![c] = "ended"] /\ owner' = IF owner = c THEN None ELSE owner
           \/ it' = [it EXCEPT ![c] = "poll"] /\ owner' = owner
    BY <1>7 DEF Kafka!Ask, Kafka!Stop, Kafka!Goto
  <2>2. Kafka!TypeOK'
    BY <1>0, <2>1 DEF Kafka!TypeOK, Kafka!CommonTypes
  <2>3. CASE owner' = IF owner = c THEN None ELSE owner
    BY <1>0, <1>7, <2>1, <2>2, <2>3, KafkaLeaves DEF KafkaInv
  <2>4. CASE owner' = owner
    <3>1. CommittedIsSettled' /\ FetchedIsKnown' /\ HeldIsPublished'
      BY <2>1, <2>4 DEF KafkaInv, CommittedIsSettled, FetchedIsKnown, HeldIsPublished, Kafka!Yields
    <3>2. PollStartsEmpty'
      BY <1>0, <1>7, <2>1 DEF KafkaInv, PollStartsEmpty
    <3> QED
      BY <2>2, <3>1, <3>2 DEF KafkaInv
  <2> QED
    BY <2>1, <2>3, <2>4
<1>8. ASSUME NEW c \in Consumers, NEW m \in Msgs, Kafka!Ack(c, m)
      PROVE  KafkaInv'
  <2>1. /\ owner = c /\ Kafka!Release(c, m) /\ committed' = m /\ acked' = acked \cup {m}
        /\ overtaken' = (overtaken \cup ((1..(m - 1)) \ acked)) \ {m}
        /\ UNCHANGED <<published, it, batch, closed, crashes, owner, position, nacked>>
    BY <1>8 DEF Kafka!Ack, Kafka!CommitOffset, Kafka!Unsettled
  <2>2. /\ held[c][m] > 0
        /\ held' \in [Consumers -> [Msgs -> 0..MaxHeld]]
        /\ \A d \in Consumers, x \in Msgs : held'[d][x] > 0 => held[d][x] > 0
        /\ \A d \in Consumers, x \in Msgs \ {m} : held'[d][x] = held[d][x]
    BY <1>0, <2>1, KafkaReleases
  <2>3. m \in 1..published
    BY <1>0, <2>2 DEF KafkaInv, HeldIsPublished
  <2>4. committed' \in 0..published /\ acked' \subseteq 1..published /\ overtaken' \subseteq 1..published
    BY <1>0, <2>1, <2>3
  <2>5. Kafka!TypeOK'
    BY <1>0, <2>1, <2>2, <2>4 DEF Kafka!TypeOK, Kafka!CommonTypes
  <2>6. CommittedIsSettled'
    <3>1. SUFFICES ASSUME NEW x \in 1..m
                   PROVE  x \in acked' \cup overtaken'
      BY <2>1 DEF CommittedIsSettled
    <3>2. x = m \/ x \in 1..(m - 1)
      BY <1>0, <2>3, <3>1
    <3> QED
      BY <2>1, <3>2
  <2>7. FetchedIsKnown'
    <3>1. SUFFICES ASSUME NEW x \in 1..position
                   PROVE  x \in acked' \cup overtaken' \/ Kafka!Yields(c, x)'
      BY <2>1 DEF FetchedIsKnown, Kafka!Yields
    <3>2. x \in Msgs
      BY <1>0
    <3>3. x \in acked \cup overtaken \/ Kafka!Yields(c, x)
      BY <2>1, <3>1, NobodyAssumption DEF KafkaInv, FetchedIsKnown
    <3>4. x # m /\ Kafka!Yields(c, x) => Kafka!Yields(c, x)'
      BY <2>1, <2>2, <3>2 DEF Kafka!Yields
    <3> QED
      BY <2>1, <3>3, <3>4
  <2>8. PollStartsEmpty' /\ HeldIsPublished'
    BY <2>1, <2>2 DEF KafkaInv, PollStartsEmpty, HeldIsPublished
  <2> QED
    BY <2>5, <2>6, <2>7, <2>8 DEF KafkaInv
<1>9. ASSUME NEW c \in Consumers, NEW m \in Msgs, Kafka!Nack(c, m)
      PROVE  KafkaInv'
  <2>1. /\ owner = c /\ Kafka!Release(c, m) /\ position' = m - 1 /\ nacked' = nacked \cup {m}
        /\ overtaken' = overtaken \cup (((position + 1)..(m - 1)) \ acked)
        /\ UNCHANGED <<published, acked, it, batch, closed, crashes, committed, owner>>
    BY <1>9 DEF Kafka!Nack, Kafka!SeekOffset, Kafka!Unsettled
  <2>2. /\ held[c][m] > 0
        /\ held' \in [Consumers -> [Msgs -> 0..MaxHeld]]
        /\ \A d \in Consumers, x \in Msgs : held'[d][x] > 0 => held[d][x] > 0
        /\ \A d \in Consumers, x \in Msgs \ {m} : held'[d][x] = held[d][x]
    BY <1>0, <2>1, KafkaReleases
  <2>3. m \in 1..published
    BY <1>0, <2>2 DEF KafkaInv, HeldIsPublished
  <2>4. position' \in 0..published /\ nacked' \subseteq 1..published /\ overtaken' \subseteq 1..published
    BY <1>0, <2>1, <2>3
  <2>5. Kafka!TypeOK'
    BY <1>0, <2>1, <2>2, <2>4 DEF Kafka!TypeOK, Kafka!CommonTypes
  <2>6. FetchedIsKnown'
    <3>1. SUFFICES ASSUME NEW x \in 1..(m - 1)
                   PROVE  x \in acked \cup overtaken' \/ Kafka!Yields(c, x)'
      BY <2>1 DEF FetchedIsKnown, Kafka!Yields
    <3>2. x \in Msgs \ {m} /\ (x \in 1..position \/ x \in (position + 1)..(m - 1))
      BY <1>0, <2>3, <3>1
    <3>3. CASE x \in 1..position
      <4>1. x \in acked \cup overtaken \/ Kafka!Yields(c, x)
        BY <2>1, <3>3 DEF KafkaInv, FetchedIsKnown
      <4>2. Kafka!Yields(c, x) => Kafka!Yields(c, x)'
        BY <2>1, <2>2, <3>2 DEF Kafka!Yields
      <4> QED
        BY <2>1, <4>1, <4>2
    <3>4. CASE x \in (position + 1)..(m - 1)
      BY <2>1, <3>4
    <3> QED
      BY <3>2, <3>3, <3>4
  <2>7. CommittedIsSettled' /\ PollStartsEmpty' /\ HeldIsPublished'
    BY <2>1, <2>2 DEF KafkaInv, CommittedIsSettled, PollStartsEmpty, HeldIsPublished
  <2> QED
    BY <2>5, <2>6, <2>7 DEF KafkaInv
<1>10. ASSUME NEW c \in Consumers, NEW m \in Msgs, Kafka!Abandon(c, m)
       PROVE  KafkaInv'
  <2>1. /\ Kafka!Release(c, m) /\ overtaken' = overtaken \cup ({m} \ acked)
        /\ UNCHANGED <<published, acked, it, batch, closed, crashes, committed, owner, position, nacked>>
    BY <1>10 DEF Kafka!Abandon, Kafka!Unsettled
  <2>2. /\ held[c][m] > 0
        /\ held' \in [Consumers -> [Msgs -> 0..MaxHeld]]
        /\ \A d \in Consumers, x \in Msgs : held'[d][x] > 0 => held[d][x] > 0
        /\ \A d \in Consumers, x \in Msgs \ {m} : held'[d][x] = held[d][x]
    BY <1>0, <2>1, KafkaReleases
  <2>3. m \in 1..published
    BY <1>0, <2>2 DEF KafkaInv, HeldIsPublished
  <2>4. Kafka!TypeOK'
    BY <1>0, <2>1, <2>2, <2>3 DEF Kafka!TypeOK, Kafka!CommonTypes
  <2>5. FetchedIsKnown'
    <3>1. SUFFICES ASSUME NEW d \in Consumers, d = owner, NEW x \in 1..position
                   PROVE  x \in acked \cup overtaken' \/ Kafka!Yields(d, x)'
      BY <1>0, <2>1 DEF FetchedIsKnown, Kafka!Yields
    <3>2. x \in Msgs
      BY <1>0
    <3>3. x \in acked \cup overtaken \/ Kafka!Yields(d, x)
      BY <3>1 DEF KafkaInv, FetchedIsKnown, Kafka!Yields
    <3>4. x # m /\ Kafka!Yields(d, x) => Kafka!Yields(d, x)'
      BY <2>1, <2>2, <3>2 DEF Kafka!Yields
    <3> QED
      BY <2>1, <3>3, <3>4
  <2>6. CommittedIsSettled' /\ PollStartsEmpty' /\ HeldIsPublished'
    BY <2>1, <2>2 DEF KafkaInv, CommittedIsSettled, PollStartsEmpty, HeldIsPublished
  <2> QED
    BY <2>4, <2>5, <2>6 DEF KafkaInv
<1>11. ASSUME NEW c \in Consumers, Kafka!Close(c)
       PROVE  KafkaInv'
  <2>1. /\ UNCHANGED <<published, acked, it, batch, held, crashes, committed, owner, position, nacked, overtaken>>
        /\ closed' = closed \cup {c}
    BY <1>11 DEF Kafka!Close, Kafka!SetClosed, Kafka!kafkaVars
  <2>2. Kafka!TypeOK'
    BY <1>0, <2>1 DEF Kafka!TypeOK, Kafka!CommonTypes
  <2> QED
    BY <2>1, <2>2 DEF KafkaInv, CommittedIsSettled, FetchedIsKnown, PollStartsEmpty, HeldIsPublished,
       Kafka!Yields
<1>12. ASSUME NEW c \in Consumers, Kafka!Crash(c)
       PROVE  KafkaInv'
  <2>1. /\ UNCHANGED <<published, acked, committed, position, nacked, overtaken>>
        /\ closed' = closed \ {c} /\ crashes' = crashes + 1 /\ crashes < MaxCrashes
        /\ it' = [it EXCEPT ![c] = "poll"] /\ batch' = [batch EXCEPT ![c] = {}]
        /\ held' = [held EXCEPT ![c] = Kafka!NothingHeld]
        /\ owner' = IF owner = c THEN None ELSE owner
    BY <1>12 DEF Kafka!Crash, Kafka!Respawn, Kafka!Goto
  <2>2. Kafka!NothingHeld \in [Msgs -> 0..MaxHeld]
    BY DEF Kafka!NothingHeld
  <2>3. /\ held' \in [Consumers -> [Msgs -> 0..MaxHeld]] /\ batch' \in [Consumers -> SUBSET (1..published)]
        /\ \A d \in Consumers \ {c} : batch'[d] = batch[d] /\ held'[d] = held[d] /\ it'[d] = it[d]
        /\ batch'[c] = {} /\ held'[c] = Kafka!NothingHeld
    BY <1>0, <2>1, <2>2
  <2>4. \A x \in Msgs : held'[c][x] = 0
    BY <2>3 DEF Kafka!NothingHeld
  <2>5. Kafka!TypeOK'
    <3>1. /\ published' \in 0..N /\ acked' \subseteq 1..published'
          /\ 1..published' = 1..published /\ 0..published' = 0..published
          /\ closed' \subseteq Consumers /\ crashes' \in 0..MaxCrashes
          /\ it' \in [Consumers -> {"poll", "out", "ended"}]
          /\ owner' \in Consumers \cup {None}
      BY <1>0, <2>1
    <3>2. /\ committed' \in 0..published' /\ position' \in 0..published'
          /\ nacked' \subseteq 1..published' /\ overtaken' \subseteq 1..published'
      BY <1>0, <2>1, <3>1, Zenon
    <3> QED
      BY <2>3, <3>1, <3>2 DEF Kafka!TypeOK, Kafka!CommonTypes
  <2>6. CommittedIsSettled' /\ FetchedIsKnown' /\ PollStartsEmpty' /\ HeldIsPublished'
    BY <2>1, <2>3, <2>4, KafkaLeaves
  <2> QED
    BY <2>5, <2>6 DEF KafkaInv
<1> QED
  BY <1>1, <1>2, <1>3, <1>4, <1>5, <1>6, <1>7, <1>8, <1>9, <1>10, <1>11, <1>12
     DEF Kafka!Next, Kafka!Iterates, Kafka!Settles

-----------------------------------------------------------------------------
(* The parts                                                               *)

\* The part that Init picked stays, and only it moves.
LEMMA LogPartMoves ==
    ASSUME [Next]_vars
    PROVE  /\ part' = part
           /\ part = "redis" =>
                \/ Redis!Next
                \/ UNCHANGED <<published, acked, it, batch, held, closed, crashes, read, pel>>
           /\ part = "kafka" =>
                \/ Kafka!Next
                \/ UNCHANGED <<published, acked, it, batch, held, closed, crashes,
                               committed, owner, position, nacked, overtaken>>
BY DEF Next, Of, vars, commonVars, redisVars, kafkaVars

\* The invariants hold at first.
LEMMA LogInit == Init => (part = "redis" => RedisInv) /\ (part = "kafka" => KafkaInv)
<1> USE CompetingAssumption DEF Msgs, Redis!Msgs, Kafka!Msgs
<1>1. ASSUME Init, part = "redis" PROVE RedisInv
  <2>1. Redis!Init
    BY <1>1 DEF Init
  <2>2. /\ published = 0 /\ acked = {} /\ it = [c \in Consumers |-> "pending"]
        /\ batch = [c \in Consumers |-> {}] /\ held = [c \in Consumers |-> Redis!NothingHeld]
        /\ closed = {} /\ crashes = 0 /\ read = 0 /\ pel = [c \in Consumers |-> {}]
    BY <2>1 DEF Redis!Init, Redis!CommonInit
  <2>3. Redis!NothingHeld \in [Msgs -> 0..MaxHeld] /\ \A x \in Msgs : Redis!NothingHeld[x] = 0
    BY DEF Redis!NothingHeld
  <2>4. Redis!TypeOK
    BY <2>2, <2>3 DEF Redis!TypeOK, Redis!CommonTypes, Redis!States
  <2>5. \A c \in Consumers, x \in Msgs : held[c][x] = 0 /\ batch[c] = {} /\ pel[c] = {}
    BY <2>2, <2>3
  <2>6. Redis!OneOwner /\ Redis!SequentialSeesPendingOnce /\ HeldIsRead
    BY <2>2, <2>5 DEF Redis!OneOwner, Redis!SequentialSeesPendingOnce, Redis!Has, HeldIsRead
  <2>7. TurnStartsEmpty
    BY <2>2 DEF TurnStartsEmpty
  <2> QED
    BY <2>4, <2>6, <2>7 DEF RedisInv
<1>2. ASSUME Init, part = "kafka" PROVE KafkaInv
  <2>1. Kafka!Init
    BY <1>2 DEF Init
  <2>2. /\ published = 0 /\ acked = {} /\ it = [c \in Consumers |-> "poll"]
        /\ batch = [c \in Consumers |-> {}] /\ held = [c \in Consumers |-> Kafka!NothingHeld]
        /\ closed = {} /\ crashes = 0
        /\ committed = 0 /\ owner = None /\ position = 0 /\ nacked = {} /\ overtaken = {}
    BY <2>1 DEF Kafka!Init, Kafka!CommonInit
  <2>3. Kafka!NothingHeld \in [Msgs -> 0..MaxHeld] /\ \A x \in Msgs : Kafka!NothingHeld[x] = 0
    BY DEF Kafka!NothingHeld
  <2>4. Kafka!TypeOK
    BY <2>2, <2>3 DEF Kafka!TypeOK, Kafka!CommonTypes
  <2>5. \A c \in Consumers, x \in Msgs : held[c][x] = 0 /\ batch[c] = {}
    BY <2>2, <2>3
  <2>6. CommittedIsSettled /\ FetchedIsKnown
    BY <2>2 DEF CommittedIsSettled, FetchedIsKnown
  <2>7. PollStartsEmpty /\ HeldIsPublished
    BY <2>2, <2>5 DEF PollStartsEmpty, HeldIsPublished
  <2> QED
    BY <2>4, <2>6, <2>7 DEF KafkaInv
<1> QED
  BY <1>1, <1>2

\* A stutter keeps an invariant of the part.
LEMMA LogStep ==
    ASSUME [Next]_vars
    PROVE  /\ (part = "redis" => RedisInv) => (part = "redis" => RedisInv)'
           /\ (part = "kafka" => KafkaInv) => (part = "kafka" => KafkaInv)'
<1>1. ASSUME part = "redis", RedisInv PROVE RedisInv'
  <2>1. CASE Redis!Next
    BY <1>1, <2>1, RedisStep
  <2>2. CASE UNCHANGED <<published, acked, it, batch, held, closed, crashes, read, pel>>
    BY <1>1, <2>2 DEF RedisInv, Redis!TypeOK, Redis!CommonTypes, Redis!OneOwner,
       Redis!SequentialSeesPendingOnce, Redis!Has, HeldIsRead, TurnStartsEmpty
  <2> QED
    BY <1>1, <2>1, <2>2, LogPartMoves
<1>2. ASSUME part = "kafka", KafkaInv PROVE KafkaInv'
  <2>1. CASE Kafka!Next
    BY <1>2, <2>1, KafkaStep
  <2>2. CASE UNCHANGED <<published, acked, it, batch, held, closed, crashes,
                         committed, owner, position, nacked, overtaken>>
    BY <1>2, <2>2 DEF KafkaInv, Kafka!TypeOK, Kafka!CommonTypes, CommittedIsSettled, FetchedIsKnown,
       PollStartsEmpty, HeldIsPublished, Kafka!Yields
  <2> QED
    BY <1>2, <2>1, <2>2, LogPartMoves
<1> QED
  BY <1>1, <1>2, LogPartMoves

\* The inductive invariants are invariants.
THEOREM LogInvariants == Spec => [](part = "redis" => RedisInv) /\ [](part = "kafka" => KafkaInv)
<1>1. Init => (part = "redis" => RedisInv) /\ (part = "kafka" => KafkaInv)
  BY LogInit
<1>2. [Next]_vars /\ (part = "redis" => RedisInv) => (part = "redis" => RedisInv)'
  BY LogStep
<1>3. [Next]_vars /\ (part = "kafka" => KafkaInv) => (part = "kafka" => KafkaInv)'
  BY LogStep
<1> QED
  BY <1>1, <1>2, <1>3, PTL DEF Spec

\* RedisStream: whatever is published, read, acked, nacked, closed or crashes, an entry that was
\* read is acknowledged or pending for exactly one consumer, nobody else has it, and a
\* sequential application has it once.
THEOREM RedisHasOneOwner == Spec => []OneOwner
<1>1. (part = "redis" => RedisInv) => OneOwner
  BY DEF OneOwner, RedisInv
<1> QED
  BY <1>1, LogInvariants, PTL

\* KafkaPartition: a record that is neither settled nor overtaken is still to be fetched, or its
\* owner has it, through every commit, seek, rebalance, crash and close.
THEOREM KafkaLosesOnlyOvertaken == Spec => []LostOnlyIfOvertaken
<1>1. (part = "kafka" => KafkaInv) => LostOnlyIfOvertaken
  BY KafkaLoses DEF LostOnlyIfOvertaken
<1> QED
  BY <1>1, LogInvariants, PTL

-----------------------------------------------------------------------------
(* AwsQueue                                                                *)

\* AwsQueue counts as this module does.
LEMMA AwsCountsSo ==
    ASSUME NEW S
    PROVE  Aws!Cardinality(S) = Cardinality(S)
BY DEF Aws!Cardinality, Cardinality

\* Yield hands out a message of the batch, and takes it out of the batch.
LEMMA AwsYields ==
    ASSUME Aws!TypeOK, NEW c \in Consumers, NEW S \in SUBSET (1..published), S # {},
           Aws!Yield(c, S)
    PROVE  /\ held' \in [Consumers -> [Msgs -> 0..1]]
           /\ batch' \in [Consumers -> SUBSET (1..published)]
           /\ \A d \in Consumers \ {c} : batch'[d] = batch[d] /\ held'[d] = held[d]
           /\ \A x \in Msgs : x \in S <=> x \in batch'[c] \/ (held'[c][x] > 0 /\ held[c][x] = 0)
           /\ \A x \in Msgs : held[c][x] > 0 => held'[c][x] > 0
<1> USE CompetingAssumption DEF Aws!Msgs, Msgs
<1>1. /\ held \in [Consumers -> [Msgs -> 0..1]]
      /\ batch \in [Consumers -> SUBSET (1..published)] /\ 1..published \subseteq Msgs
  BY DEF Aws!TypeOK, Aws!CommonTypes
<1>2. S \in SUBSET Msgs /\ Aws!Oldest(S) = Redis!Oldest(S)
  BY <1>1 DEF Aws!Oldest, Redis!Oldest
<1>3. Aws!Oldest(S) \in S
  BY <1>2, OldestIsOne
<1>4. PICK m \in S : /\ held[c][m] < 1
                     /\ held' = [held EXCEPT ![c][m] = @ + 1]
                     /\ batch' = [batch EXCEPT ![c] = S \ {m}]
  BY <1>3 DEF Aws!Yield
<1>5. m \in Msgs /\ held[c][m] = 0
  BY <1>1, <1>2, <1>4
<1>6. held[c][m] + 1 \in 0..1 /\ held[c][m] + 1 > 0
  BY <1>5
<1>7. /\ held' \in [Consumers -> [Msgs -> 0..1]]
      /\ \A d \in Consumers, x \in Msgs :
            held'[d][x] = IF d = c /\ x = m THEN held[c][m] + 1 ELSE held[d][x]
      /\ \A d \in Consumers \ {c} : held'[d] = held[d]
  BY <1>1, <1>4, <1>5, <1>6
<1>8. /\ batch' \in [Consumers -> SUBSET (1..published)]
      /\ \A d \in Consumers : batch'[d] = IF d = c THEN S \ {m} ELSE batch[d]
  BY <1>1, <1>4
<1> QED
  BY <1>1, <1>4, <1>5, <1>6, <1>7, <1>8

\* An application of AwsQueue gives up the copy of m that it has, and nothing else.
LEMMA AwsReleases ==
    ASSUME Aws!TypeOK, NEW c \in Consumers, NEW m \in Msgs, Aws!Release(c, m)
    PROVE  /\ held[c][m] = 1 /\ held'[c][m] = 0
           /\ held' \in [Consumers -> [Msgs -> 0..1]]
           /\ \A d \in Consumers, x \in Msgs : d # c \/ x # m => held'[d][x] = held[d][x]
<1> USE CompetingAssumption DEF Aws!Msgs, Msgs
<1>1. held \in [Consumers -> [Msgs -> 0..1]]
  BY DEF Aws!TypeOK, Aws!CommonTypes
<1>2. held[c][m] > 0 /\ held' = [held EXCEPT ![c][m] = @ - 1]
  BY DEF Aws!Release
<1>3. held[c][m] = 1 /\ held[c][m] - 1 = 0
  BY <1>1, <1>2
<1> QED
  BY <1>1, <1>2, <1>3

\* Iterations that may still open a client.
NotYet == {c \in Consumers : it[c] \in {"start", "opening"}}

\* Each iteration opens one client at most, and close() shuts what it found.
ClientInv ==
    /\ opened + Cardinality(NotYet) <= Cardinality(Consumers)
    /\ Aws!LeakedOnlyIfOverlapped
    /\ closing = "exit" => client \in {NoClient} \cup shut \cup overlapped

\* The queue is subscribed only after its policy was set.
SetupInv ==
    /\ subscribed => policy
    /\ \A c \in Consumers : it[c] = "subscribe" => policy

\* The inductive invariant of AwsQueue.
AwsInv ==
    /\ Aws!TypeOK
    /\ ClientInv
    /\ SetupInv
    /\ HeldIsPublished
    /\ Aws!SubscribedMissesNothing

\* The consumers are finitely many, so a part of them is.
LEMMA CountNotYet ==
    ASSUME NEW S \in SUBSET Consumers
    PROVE  /\ IsFiniteSet(S) /\ Cardinality(S) \in Nat
           /\ \A T \in SUBSET S : Cardinality(T) <= Cardinality(S)
           /\ \A c \in S : Cardinality(S \ {c}) = Cardinality(S) - 1
<1>1. IsFiniteSet(S)
  BY FS_Subset, CompetingAssumption
<1>2. Cardinality(S) \in Nat
  BY <1>1, FS_CardinalityType
<1>3. \A T \in SUBSET S : Cardinality(T) <= Cardinality(S)
  BY <1>1, FS_Subset
<1>4. \A c \in S : Cardinality(S \ {c}) = Cardinality(S) - 1
  BY <1>1, FS_RemoveElement
<1> QED
  BY <1>1, <1>2, <1>3, <1>4

\* A step that leaves the clients alone, and starts no iteration.
LEMMA AwsClientsStay ==
    ASSUME AwsInv, UNCHANGED <<client, opened, shut, closing, overlapped>>,
           \A c \in Consumers : it'[c] \in {"start", "opening"} => it[c] \in {"start", "opening"}
    PROVE  ClientInv'
<1>1. opened \in Nat
  <2>1. Aws!Cardinality(Consumers) = Cardinality(Consumers) /\ Cardinality(Consumers) \in Nat
    BY CountNotYet, AwsCountsSo
  <2> QED
    BY <2>1 DEF AwsInv, Aws!TypeOK
<1>2. NotYet' \in SUBSET NotYet /\ NotYet \in SUBSET Consumers
  BY DEF NotYet
<1>3. Cardinality(NotYet') <= Cardinality(NotYet) /\ Cardinality(NotYet') \in Nat /\ Cardinality(NotYet) \in Nat
  BY <1>2, CountNotYet
<1>4. Cardinality(Consumers) \in Nat
  BY CountNotYet
<1>5. opened' + Cardinality(NotYet') <= Cardinality(Consumers)
  BY <1>1, <1>3, <1>4 DEF AwsInv, ClientInv
<1>6. Aws!LeakedOnlyIfOverlapped' /\ (closing' = "exit" => client' \in {NoClient} \cup shut' \cup overlapped')
  BY DEF AwsInv, ClientInv, Aws!LeakedOnlyIfOverlapped
<1> QED
  BY <1>5, <1>6 DEF ClientInv

\* A step of the setup: only it moves, and where it goes.
LEMMA AwsMoves ==
    ASSUME AwsInv, NEW c \in Consumers, NEW next, Aws!Goto(c, next),
           next \in {"queue", "policy", "subscribe", "poll", "out", "ended"},
           next = "subscribe" => policy', policy => policy'
    PROVE  /\ it' \in [Consumers -> {"start", "opening", "queue", "policy", "subscribe", "poll", "out", "ended"}]
           /\ \A d \in Consumers : it'[d] \in {"start", "opening"} => it[d] \in {"start", "opening"}
           /\ \A d \in Consumers : it'[d] = "subscribe" => policy'
<1>1. it \in [Consumers -> {"start", "opening", "queue", "policy", "subscribe", "poll", "out", "ended"}]
  BY DEF AwsInv, Aws!TypeOK, Aws!CommonTypes
<1>2. \A d \in Consumers : it[d] = "subscribe" => policy
  BY DEF AwsInv, SetupInv
<1> QED
  BY <1>1, <1>2 DEF Aws!Goto

\* A step of a publisher, an iteration, the queue or close() keeps the invariant.
LEMMA AwsStep == AwsInv /\ Aws!Next => AwsInv'
<1> SUFFICES ASSUME AwsInv, Aws!Next
             PROVE  AwsInv'
  OBVIOUS
<1> USE CompetingAssumption, NobodyAssumption DEF Aws!Msgs, Msgs
<1> DEFINE Places == {"start", "opening", "queue", "policy", "subscribe", "poll", "out", "ended"}
<1>0. /\ Aws!TypeOK
      /\ published \in Nat /\ published \in 0..N /\ acked \subseteq 1..published
      /\ it \in [Consumers -> Places]
      /\ batch \in [Consumers -> SUBSET (1..published)] /\ 1..published \subseteq Msgs
      /\ held \in [Consumers -> [Msgs -> 0..1]]
      /\ crashes \in 0..MaxCrashes
      /\ closed \in {{}, Consumers} /\ closing \in {"no", "exit", "done"} /\ closed \subseteq Consumers
      /\ service \in {"sqs", "sns"}
      /\ opened \in Nat /\ opened \in 0..Aws!Cardinality(Consumers)
      /\ client \in 1..opened \cup {NoClient} /\ shut \subseteq 1..opened
      /\ uses \in [Consumers -> 1..opened \cup {NoClient}]
      /\ policy \in BOOLEAN /\ subscribed \in BOOLEAN /\ setUp \in BOOLEAN
      /\ visible \subseteq 1..published /\ hidden \subseteq 1..published
      /\ lapsed \subseteq 1..published /\ wanted \subseteq 1..published
      /\ visible \cap hidden = {}
      /\ overlapped \subseteq 1..opened
      /\ wanted \subseteq visible \cup hidden \cup acked
  <2>1. Aws!Cardinality(Consumers) \in Nat
    BY CountNotYet, AwsCountsSo
  <2> QED
    BY <2>1 DEF AwsInv, Aws!TypeOK, Aws!CommonTypes, Aws!SubscribedMissesNothing
<1>1. CASE Aws!Send \/ Aws!PublishToTopic
  <2>1. /\ UNCHANGED <<acked, it, batch, held, closed, crashes, service, client, opened, shut, uses, closing,
                       overlapped, policy, subscribed, setUp, hidden, lapsed>>
        /\ published < N /\ published' = published + 1
        /\ visible' \in {visible, visible \cup {published'}} /\ wanted' \in {wanted, wanted \cup {published'}}
    BY <1>1 DEF Aws!Send, Aws!PublishToTopic, Aws!clientVars, Aws!setupVars
  <2>2. /\ published' \in 0..N /\ 1..published \subseteq 1..published' /\ published' \in 1..published'
        /\ published' \notin hidden
    BY <1>0, <2>1
  <2>3. batch' \in [Consumers -> SUBSET (1..published')]
    BY <1>0, <2>1, <2>2
  <2>4. Aws!TypeOK'
    BY <1>0, <2>1, <2>2, <2>3 DEF Aws!TypeOK, Aws!CommonTypes
  <2>5. wanted' \subseteq visible' \cup hidden' \cup acked'
    BY <1>0, <1>1, <2>1 DEF Aws!Send, Aws!PublishToTopic, Aws!Accepts, AwsInv, SetupInv
  <2>6. ClientInv' /\ SetupInv' /\ HeldIsPublished'
    BY <1>0, <2>1, AwsClientsStay DEF AwsInv, SetupInv, HeldIsPublished
  <2> QED
    BY <2>4, <2>5, <2>6 DEF AwsInv, Aws!SubscribedMissesNothing
<1>2. CASE Aws!Close
  <2>1. /\ UNCHANGED <<published, acked, it, batch, held, crashes, service, client, opened, uses,
                       overlapped, policy, subscribed, setUp, visible, hidden, lapsed, wanted>>
        /\ closed' = Consumers
        /\ \/ client = NoClient /\ closing' = "done" /\ shut' = shut
           \/ client # NoClient /\ closing' = "exit" /\ shut' = shut \cup {client}
    BY <1>2 DEF Aws!Close, Aws!setupVars, Aws!queueVars
  <2>2. Aws!TypeOK'
    BY <1>0, <2>1 DEF Aws!TypeOK, Aws!CommonTypes
  <2>3. ClientInv'
    BY <2>1 DEF AwsInv, ClientInv, Aws!LeakedOnlyIfOverlapped, NotYet
  <2>4. SetupInv' /\ HeldIsPublished' /\ Aws!SubscribedMissesNothing'
    BY <2>1 DEF AwsInv, SetupInv, HeldIsPublished, Aws!SubscribedMissesNothing
  <2> QED
    BY <2>2, <2>3, <2>4 DEF AwsInv
<1>3. CASE Aws!ClientExited
  <2>1. /\ UNCHANGED <<published, acked, it, batch, held, closed, crashes, service, opened, shut, uses,
                       overlapped, policy, subscribed, setUp, visible, hidden, lapsed, wanted>>
        /\ closing = "exit" /\ closing' = "done" /\ client' \in {client, NoClient}
    BY <1>3 DEF Aws!ClientExited, Aws!setupVars, Aws!queueVars, Aws!commonVars
  <2>2. Aws!TypeOK'
    BY <1>0, <2>1 DEF Aws!TypeOK, Aws!CommonTypes
  <2>3. \A k \in 1..opened : k = client => k \in shut \cup overlapped \cup {NoClient}
    BY <2>1 DEF AwsInv, ClientInv
  <2>4. ClientInv'
    BY <2>1, <2>3 DEF AwsInv, ClientInv, Aws!LeakedOnlyIfOverlapped, NotYet
  <2>5. SetupInv' /\ HeldIsPublished' /\ Aws!SubscribedMissesNothing'
    BY <2>1 DEF AwsInv, SetupInv, HeldIsPublished, Aws!SubscribedMissesNothing
  <2> QED
    BY <2>2, <2>4, <2>5 DEF AwsInv
<1>4. ASSUME NEW c \in Consumers, Aws!GetClient(c)
      PROVE  AwsInv'
  <2>1. /\ UNCHANGED <<published, acked, batch, held, closed, crashes, service, client, opened, shut, closing,
                       overlapped, policy, subscribed, setUp, visible, hidden, lapsed, wanted>>
        /\ it[c] = "start" /\ uses' = [uses EXCEPT ![c] = client]
        /\ it' = [it EXCEPT ![c] = IF client = NoClient THEN "opening" ELSE "queue"]
    BY <1>4 DEF Aws!GetClient, Aws!Goto, Aws!setupVars, Aws!queueVars
  <2>2. /\ it' \in [Consumers -> Places] /\ it'[c] \in {"opening", "queue"}
        /\ \A d \in Consumers \ {c} : it'[d] = it[d]
    BY <1>0, <2>1
  <2>3. uses' \in [Consumers -> 1..opened \cup {NoClient}]
    BY <1>0, <2>1
  <2>4. Aws!TypeOK'
    BY <1>0, <2>1, <2>2, <2>3 DEF Aws!TypeOK, Aws!CommonTypes
  <2>5. ClientInv'
    BY <2>1, <2>2, AwsClientsStay
  <2>6. SetupInv' /\ HeldIsPublished' /\ Aws!SubscribedMissesNothing'
    BY <2>1, <2>2 DEF AwsInv, SetupInv, HeldIsPublished, Aws!SubscribedMissesNothing
  <2> QED
    BY <2>4, <2>5, <2>6 DEF AwsInv
<1>5. ASSUME NEW c \in Consumers, Aws!ClientOpened(c)
      PROVE  AwsInv'
  <2>1. /\ UNCHANGED <<published, acked, batch, held, closed, crashes, service, shut, closing,
                       policy, subscribed, setUp, visible, hidden, lapsed, wanted>>
        /\ it[c] = "opening" /\ it' = [it EXCEPT ![c] = "queue"]
        /\ opened' = opened + 1 /\ client' = opened' /\ uses' = [uses EXCEPT ![c] = opened']
        /\ overlapped' = overlapped \cup (IF closing # "no" THEN {opened'} ELSE {})
                                    \cup (IF client # NoClient THEN {client} ELSE {})
    BY <1>5 DEF Aws!ClientOpened, Aws!Goto, Aws!setupVars, Aws!queueVars
  <2>2. /\ it' \in [Consumers -> Places] /\ it'[c] = "queue"
        /\ \A d \in Consumers \ {c} : it'[d] = it[d]
    BY <1>0, <2>1
  <2>3. /\ opened' \in Nat /\ 1..opened \subseteq 1..opened' /\ opened' \in 1..opened'
        /\ \A k \in 1..opened' : k \in 1..opened \/ k = opened'
    BY <1>0, <2>1
  <2>4. uses' \in [Consumers -> 1..opened' \cup {NoClient}]
    <3>1. uses \in [Consumers -> 1..opened' \cup {NoClient}]
      BY <1>0, <2>3
    <3> QED
      BY <2>1, <2>3, <3>1
  <2>5. opened' + Cardinality(NotYet') <= Cardinality(Consumers) /\ Cardinality(NotYet') \in Nat
    <3>1. c \in NotYet /\ NotYet' = NotYet \ {c} /\ NotYet \in SUBSET Consumers
      BY <1>0, <2>1, <2>2 DEF NotYet
    <3>2. Cardinality(NotYet') = Cardinality(NotYet) - 1 /\ Cardinality(NotYet) \in Nat
      BY <3>1, CountNotYet
    <3>3. Cardinality(Consumers) \in Nat /\ opened + Cardinality(NotYet) <= Cardinality(Consumers)
      BY CountNotYet DEF AwsInv, ClientInv
    <3>4. NotYet' \in SUBSET Consumers
      BY <3>1
    <3>5. Cardinality(NotYet') \in Nat
      BY <3>4, CountNotYet
    <3> QED
      BY <1>0, <2>1, <3>2, <3>3, <3>5
  <2>6. opened' \in 0..Aws!Cardinality(Consumers)
    <3>1. Cardinality(Consumers) \in Nat /\ Aws!Cardinality(Consumers) = Cardinality(Consumers)
      BY CountNotYet, AwsCountsSo
    <3> QED
      BY <2>3, <2>5, <3>1
  <2>7. overlapped' \subseteq 1..opened' /\ shut' \subseteq 1..opened'
    BY <1>0, <2>1, <2>3
  <2>8. Aws!TypeOK'
    BY <1>0, <2>1, <2>2, <2>3, <2>4, <2>6, <2>7 DEF Aws!TypeOK, Aws!CommonTypes
  <2>9. Aws!LeakedOnlyIfOverlapped'
    <3>1. ASSUME NEW k \in 1..opened, k # client'
          PROVE  k \in shut \cup overlapped'
      <4>1. k \in shut \cup overlapped \/ k = client
        BY DEF AwsInv, ClientInv, Aws!LeakedOnlyIfOverlapped
      <4>2. k # NoClient
        BY <1>0
      <4> QED
        BY <2>1, <4>1, <4>2
    <3> QED
      BY <2>1, <2>3, <3>1 DEF Aws!LeakedOnlyIfOverlapped
  <2>10. ClientInv'
    BY <2>1, <2>5, <2>9 DEF ClientInv
  <2>11. SetupInv' /\ HeldIsPublished' /\ Aws!SubscribedMissesNothing'
    BY <2>1, <2>2 DEF AwsInv, SetupInv, HeldIsPublished, Aws!SubscribedMissesNothing
  <2> QED
    BY <2>8, <2>10, <2>11 DEF AwsInv
<1>6. ASSUME NEW c \in Consumers, Aws!SetsUpQueue(c)
      PROVE  AwsInv'
  <2>1. /\ UNCHANGED <<published, acked, batch, held, closed, crashes, service, client, opened, shut, uses, closing,
                       overlapped, visible, hidden, lapsed, wanted>>
    BY <1>6 DEF Aws!SetsUpQueue, Aws!Known, Aws!MakeQueue, Aws!SetPolicy, Aws!SubscribeQueue, Aws!SetsUp,
       Aws!awsVars, Aws!clientVars, Aws!queueVars
  <2>2. /\ policy' \in BOOLEAN /\ subscribed' \in BOOLEAN /\ setUp' \in BOOLEAN
        /\ (policy => policy') /\ (subscribed' => policy')
        /\ \E next \in {"policy", "subscribe", "poll", "ended"} :
              Aws!Goto(c, next) /\ (next = "subscribe" => policy')
    <3>1. /\ subscribed => policy
          /\ it[c] = "subscribe" => policy
      BY DEF AwsInv, SetupInv
    <3>2. CASE Aws!Known(c)
      BY <1>0, <3>1, <3>2 DEF Aws!Known, Aws!awsVars, Aws!setupVars, Aws!LoopHead
    <3>3. CASE Aws!MakeQueue(c)
      BY <1>0, <3>1, <3>3 DEF Aws!MakeQueue, Aws!SetsUp, Aws!LoopHead
    <3>4. CASE Aws!SetPolicy(c)
      BY <1>0, <3>1, <3>4 DEF Aws!SetPolicy, Aws!SetsUp
    <3>5. CASE Aws!SubscribeQueue(c)
      BY <1>0, <3>1, <3>5 DEF Aws!SubscribeQueue, Aws!SetsUp, Aws!LoopHead
    <3> QED
      BY <1>6, <3>2, <3>3, <3>4, <3>5 DEF Aws!SetsUpQueue
  <2>3. PICK next \in {"policy", "subscribe", "poll", "ended"} :
            Aws!Goto(c, next) /\ (next = "subscribe" => policy')
    BY <2>2
  <2>4. /\ it' \in [Consumers -> Places]
        /\ \A d \in Consumers : it'[d] \in {"start", "opening"} => it[d] \in {"start", "opening"}
        /\ \A d \in Consumers : it'[d] = "subscribe" => policy'
    BY <2>2, <2>3, AwsMoves
  <2>5. Aws!TypeOK'
    BY <1>0, <2>1, <2>2, <2>4 DEF Aws!TypeOK, Aws!CommonTypes
  <2>6. ClientInv'
    BY <2>1, <2>4, AwsClientsStay
  <2>7. SetupInv' /\ HeldIsPublished' /\ Aws!SubscribedMissesNothing'
    <3>1. SetupInv'
      BY <2>2, <2>4 DEF SetupInv
    <3>2. HeldIsPublished' /\ Aws!SubscribedMissesNothing'
      BY <2>1 DEF AwsInv, HeldIsPublished, Aws!SubscribedMissesNothing
    <3> QED
      BY <3>1, <3>2
  <2> QED
    BY <2>5, <2>6, <2>7 DEF AwsInv
<1>7. ASSUME NEW c \in Consumers, Aws!Receive(c) \/ Aws!ReceiveEnds(c) \/ Aws!Ask(c)
      PROVE  AwsInv'
  <2>1. /\ UNCHANGED <<published, acked, closed, crashes, service, client, opened, shut, uses, closing,
                       overlapped, policy, subscribed, setUp, lapsed, wanted>>
        /\ visible' \cap hidden' = {} /\ visible' \cup hidden' = visible \cup hidden
    BY <1>0, <1>7 DEF Aws!Receive, Aws!ReceiveEnds, Aws!Ask, Aws!Few, Aws!Hide, Aws!awsVars, Aws!clientVars,
       Aws!setupVars, Aws!queueVars
  <2>2. \E next \in {"poll", "out", "ended"} : Aws!Goto(c, next)
    <3>1. CASE Aws!Receive(c)
      BY <3>1 DEF Aws!Receive
    <3>2. CASE Aws!ReceiveEnds(c)
      BY <3>2 DEF Aws!ReceiveEnds
    <3>3. CASE Aws!Ask(c) /\ batch[c] = {}
      BY <3>3 DEF Aws!Ask, Aws!LoopHead
    <3>4. CASE Aws!Ask(c) /\ batch[c] # {}
      BY <1>0, <3>4 DEF Aws!Ask, Aws!Goto
    <3> QED
      BY <1>7, <3>1, <3>2, <3>3, <3>4
  <2>3. /\ it' \in [Consumers -> Places]
        /\ \A d \in Consumers : it'[d] \in {"start", "opening"} => it[d] \in {"start", "opening"}
        /\ \A d \in Consumers : it'[d] = "subscribe" => policy'
    BY <2>1, <2>2, AwsMoves
  <2>4. /\ held' \in [Consumers -> [Msgs -> 0..1]] /\ batch' \in [Consumers -> SUBSET (1..published)]
        /\ \A d \in Consumers, x \in Msgs : held'[d][x] > 0 => x <= published
    <3>1. UNCHANGED <<held, batch>> \/ \E S \in SUBSET (1..published) : S # {} /\ Aws!Yield(c, S)
      BY <1>0, <1>7 DEF Aws!Receive, Aws!ReceiveEnds, Aws!Ask, Aws!Few
    <3>2. CASE UNCHANGED <<held, batch>>
      BY <1>0, <3>2 DEF AwsInv, HeldIsPublished
    <3>3. ASSUME NEW S \in SUBSET (1..published), S # {}, Aws!Yield(c, S)
          PROVE  /\ held' \in [Consumers -> [Msgs -> 0..1]] /\ batch' \in [Consumers -> SUBSET (1..published)]
                 /\ \A d \in Consumers, x \in Msgs : held'[d][x] > 0 => x <= published
      <4>1. /\ held' \in [Consumers -> [Msgs -> 0..1]]
            /\ batch' \in [Consumers -> SUBSET (1..published)]
            /\ \A d \in Consumers \ {c} : batch'[d] = batch[d] /\ held'[d] = held[d]
            /\ \A x \in Msgs : x \in S <=> x \in batch'[c] \/ (held'[c][x] > 0 /\ held[c][x] = 0)
            /\ \A x \in Msgs : held[c][x] > 0 => held'[c][x] > 0
        BY <1>0, <3>3, AwsYields
      <4>2. ASSUME NEW d \in Consumers, NEW x \in Msgs, held'[d][x] > 0
            PROVE  x <= published
        <5>1. held[d][x] > 0 => x <= published
          BY DEF AwsInv, HeldIsPublished
        <5>2. held[d][x] \in 0..1
          BY <1>0
        <5>3. held[d][x] = 0 => d = c /\ x \in S
          BY <4>1, <4>2
        <5>4. x \in S => x <= published
          BY <1>0
        <5> QED
          BY <5>1, <5>2, <5>3, <5>4
      <4> QED
        BY <4>1, <4>2
    <3> QED
      BY <3>1, <3>2, <3>3
  <2>5. Aws!TypeOK'
    BY <1>0, <2>1, <2>3, <2>4 DEF Aws!TypeOK, Aws!CommonTypes
  <2>6. ClientInv'
    BY <2>1, <2>3, AwsClientsStay
  <2>7. SetupInv' /\ HeldIsPublished' /\ Aws!SubscribedMissesNothing'
    <3>1. SetupInv' /\ wanted' \subseteq visible' \cup hidden' \cup acked'
      BY <1>0, <2>1, <2>3 DEF AwsInv, SetupInv
    <3>2. HeldIsPublished'
      BY <2>1, <2>4 DEF AwsInv, HeldIsPublished
    <3> QED
      BY <3>1, <3>2 DEF Aws!SubscribedMissesNothing
  <2> QED
    BY <2>5, <2>6, <2>7 DEF AwsInv
<1>8. ASSUME NEW c \in Consumers, NEW m \in Msgs, Aws!Ack(c, m) \/ Aws!Nack(c, m) \/ Aws!Abandon(c, m)
      PROVE  AwsInv'
  <2>1. /\ UNCHANGED <<published, it, batch, closed, crashes, service, client, opened, shut, uses, closing,
                       overlapped, policy, subscribed, setUp, wanted>>
        /\ Aws!Release(c, m) /\ lapsed' \subseteq lapsed
    BY <1>8 DEF Aws!Ack, Aws!Nack, Aws!Abandon, Aws!Remember, Aws!clientVars, Aws!setupVars
  <2>2. /\ held[c][m] = 1 /\ held'[c][m] = 0 /\ held' \in [Consumers -> [Msgs -> 0..1]]
        /\ \A d \in Consumers, x \in Msgs : d # c \/ x # m => held'[d][x] = held[d][x]
    BY <1>0, <2>1, AwsReleases
  <2>3. m \in 1..published
    BY <1>0, <2>2 DEF AwsInv, HeldIsPublished
  <2>4. /\ visible' \subseteq 1..published /\ hidden' \subseteq 1..published /\ acked' \subseteq 1..published
        /\ visible' \cap hidden' = {}
        /\ wanted' \subseteq visible' \cup hidden' \cup acked'
    BY <1>0, <1>8, <2>1, <2>3 DEF Aws!Ack, Aws!Nack, Aws!Abandon
  <2>5. Aws!TypeOK'
    BY <1>0, <2>1, <2>2, <2>4 DEF Aws!TypeOK, Aws!CommonTypes
  <2>6. ClientInv'
    BY <2>1, AwsClientsStay
  <2>7. SetupInv' /\ HeldIsPublished' /\ Aws!SubscribedMissesNothing'
    BY <2>1, <2>2, <2>4 DEF AwsInv, SetupInv, HeldIsPublished, Aws!SubscribedMissesNothing
  <2> QED
    BY <2>5, <2>6, <2>7 DEF AwsInv
<1>9. ASSUME NEW m \in Msgs, Aws!TimeoutElapses(m)
      PROVE  AwsInv'
  <2>1. /\ UNCHANGED <<published, acked, it, batch, held, closed, crashes, service, client, opened, shut, uses, closing,
                       overlapped, policy, subscribed, setUp, wanted>>
        /\ m \in hidden /\ visible' = visible \cup {m} /\ hidden' = hidden \ {m}
        /\ lapsed' \in {lapsed, lapsed \cup {m}}
    BY <1>9 DEF Aws!TimeoutElapses, Aws!commonVars, Aws!clientVars, Aws!setupVars
  <2>2. Aws!TypeOK'
    BY <1>0, <2>1 DEF Aws!TypeOK, Aws!CommonTypes
  <2>3. ClientInv'
    BY <2>1, AwsClientsStay
  <2>4. SetupInv' /\ HeldIsPublished' /\ Aws!SubscribedMissesNothing'
    BY <1>0, <2>1 DEF AwsInv, SetupInv, HeldIsPublished, Aws!SubscribedMissesNothing
  <2> QED
    BY <2>2, <2>3, <2>4 DEF AwsInv
<1> QED
  BY <1>1, <1>2, <1>3, <1>4, <1>5, <1>6, <1>7, <1>8, <1>9 DEF Aws!Next, Aws!Iterates, Aws!Settles

-----------------------------------------------------------------------------
(* HttpWebhook                                                             *)

\* A request in the queue was posted, nobody has it and nobody settled it; it is there once.
QueueIsFresh ==
    /\ \A j \in 1..Len(queue) :
         /\ queue[j] \in Http!Posted /\ verdict[queue[j]] = "none"
         /\ \A i \in Consumers : queue[j] \notin held[i]
    /\ \A j, k \in 1..Len(queue) : queue[j] = queue[k] => j = k
\* One iteration has a request, before it is settled.
HandsAreFresh ==
    \A i \in Consumers : \A r \in held[i] :
        r \in Http!Posted /\ verdict[r] = "none" /\ \A j \in Consumers \ {i} : r \notin held[j]
\* Only a posted request has a verdict.
SettledWasPosted == \A r \in Http!Requests : verdict[r] # "none" => r \in Http!Posted

\* The inductive invariant of HttpWebhook.
HttpInv ==
    /\ Http!TypeOK
    /\ QueueIsFresh
    /\ HandsAreFresh
    /\ SettledWasPosted
    /\ Http!SuccessMeansAcked

\* A step of a sender, an iteration, an application or close() keeps the invariant.
LEMMA HttpStep == HttpInv /\ Http!Next => HttpInv'
<1> SUFFICES ASSUME HttpInv, Http!Next
             PROVE  HttpInv'
  OBVIOUS
<1> USE CompetingAssumption
<1>0. /\ Http!TypeOK /\ N \in Nat
      /\ pub \in [Senders -> {"ready", "waiting", "returned", "refused", "timedOut"}]
      /\ posted \in [Senders -> 0..N]
      /\ queue \in Seq(Http!Requests)
      /\ it \in [Consumers -> {"get", "out", "ended"}]
      /\ held \in [Consumers -> SUBSET Http!Requests]
      /\ verdict \in [Http!Requests -> {"none", "acked", "nacked"}]
      /\ closed \in BOOLEAN /\ givenUp \subseteq Http!Requests
  BY DEF HttpInv, Http!TypeOK
<1>1. ASSUME NEW p \in Senders, Http!Post(p)
      PROVE  HttpInv'
  <2> DEFINE new == <<p, posted[p] + 1>>
  <2>1. /\ pub[p] = "ready" /\ posted[p] < N
        /\ pub' = [pub EXCEPT ![p] = "waiting"] /\ posted' = [posted EXCEPT ![p] = @ + 1]
        /\ queue' = Append(queue, new)
        /\ UNCHANGED <<it, held, verdict, closed, givenUp>>
    BY <1>1 DEF Http!Post, Http!PubGoto
  <2>2. posted[p] \in Nat /\ posted[p] + 1 \in 1..N
    BY <1>0, <2>1
  <2>3. posted' \in [Senders -> 0..N] /\ \A q \in Senders : posted'[q] = IF q = p THEN posted[p] + 1 ELSE posted[q]
    BY <1>0, <2>1, <2>2
  <2>4. new \in Http!Requests /\ new \notin Http!Posted
    BY <2>2 DEF Http!Requests, Http!Posted
  <2>5. \A r \in Http!Requests : r \in Http!Posted' <=> r \in Http!Posted \/ r = new
    <3>1. SUFFICES ASSUME NEW q \in Senders, NEW k \in 1..N
                   PROVE  k <= posted'[q] <=> k <= posted[q] \/ <<q, k>> = new
      BY DEF Http!Requests, Http!Posted
    <3>2. posted[q] \in Nat
      BY <1>0
    <3> QED
      BY <2>2, <2>3, <3>2
  <2>6. verdict[new] = "none" /\ \A i \in Consumers : new \notin held[i]
    BY <2>4 DEF HttpInv, SettledWasPosted, HandsAreFresh
  <2> HIDE DEF new
  <2>7. /\ queue' \in Seq(Http!Requests) /\ Len(queue) \in Nat /\ Len(queue') = Len(queue) + 1
        /\ \A j \in 1..Len(queue) : queue'[j] = queue[j]
        /\ queue'[Len(queue) + 1] = new
    BY <1>0, <2>1, <2>4
  <2>8. \A j \in 1..Len(queue') : j \in 1..Len(queue) \/ j = Len(queue) + 1
    BY <2>7
  <2>9. Http!TypeOK'
    BY <1>0, <2>1, <2>3, <2>7 DEF Http!TypeOK
  <2>10. \A j \in 1..Len(queue) : queue[j] \in Http!Requests /\ queue[j] \in Http!Posted /\ queue[j] # new
    BY <1>0, <2>4 DEF HttpInv, QueueIsFresh, Http!Posted
  <2>11. QueueIsFresh'
    <3>1. ASSUME NEW j \in 1..Len(queue')
          PROVE  /\ queue'[j] \in Http!Posted' /\ verdict'[queue'[j]] = "none"
                 /\ \A i \in Consumers : queue'[j] \notin held'[i]
      <4>1. CASE j \in 1..Len(queue)
        BY <2>1, <2>5, <2>7, <2>10, <4>1 DEF HttpInv, QueueIsFresh
      <4>2. CASE j = Len(queue) + 1
        BY <2>1, <2>4, <2>5, <2>6, <2>7, <4>2
      <4> QED
        BY <2>8, <4>1, <4>2
    <3>2. ASSUME NEW j \in 1..Len(queue'), NEW k \in 1..Len(queue'), queue'[j] = queue'[k]
          PROVE  j = k
      <4>1. j \in 1..Len(queue) /\ k \in 1..Len(queue) => j = k
        BY <2>7, <3>2 DEF HttpInv, QueueIsFresh
      <4> QED
        BY <2>7, <2>8, <2>10, <3>2, <4>1
    <3> QED
      BY <3>1, <3>2 DEF QueueIsFresh
  <2>12. HandsAreFresh' /\ SettledWasPosted'
    BY <1>0, <2>1, <2>5 DEF HttpInv, HandsAreFresh, SettledWasPosted
  <2>13. Http!SuccessMeansAcked'
    <3>1. SUFFICES ASSUME NEW q \in Senders, NEW k \in 1..N, <<q, k>> \in Http!Posted'
                   PROVE  \/ verdict[<<q, k>>] = "acked"
                          \/ k = posted'[q] /\ pub'[q] \in {"waiting", "refused", "timedOut"}
      BY <2>1 DEF Http!SuccessMeansAcked, Http!Posted, Http!Requests, Http!Current
    <3>2. <<q, k>> \in Http!Posted =>
             \/ verdict[<<q, k>>] = "acked"
             \/ k = posted[q] /\ pub[q] \in {"waiting", "refused", "timedOut"}
      BY DEF HttpInv, Http!SuccessMeansAcked, Http!Current
    <3>3. CASE <<q, k>> \in Http!Posted
      BY <1>0, <2>1, <2>3, <3>2, <3>3
    <3>4. CASE <<q, k>> = new
      BY <1>0, <2>1, <2>3, <3>4 DEF new
    <3> QED
      BY <2>5, <3>1, <3>3, <3>4 DEF Http!Requests
  <2> QED
    BY <2>9, <2>11, <2>12, <2>13 DEF HttpInv
<1>2. ASSUME NEW p \in Senders, Http!Respond(p) \/ Http!SenderTimesOut(p)
      PROVE  HttpInv'
  <2>1. /\ UNCHANGED <<posted, queue, it, held, verdict, closed, givenUp>> /\ pub[p] = "waiting"
        /\ \/ verdict[Http!Current(p)] = "acked" /\ pub' = [pub EXCEPT ![p] = IF posted[p] = N THEN "returned" ELSE "ready"]
           \/ \E to \in {"refused", "timedOut"} : pub' = [pub EXCEPT ![p] = to]
    BY <1>2 DEF Http!Respond, Http!SenderTimesOut, Http!PubGoto, Http!Success
  <2>2. /\ pub' \in [Senders -> {"ready", "waiting", "returned", "refused", "timedOut"}]
        /\ \A q \in Senders \ {p} : pub'[q] = pub[q]
        /\ verdict[Http!Current(p)] = "acked" \/ pub'[p] \in {"refused", "timedOut"}
    BY <1>0, <2>1
  <2>3. Http!TypeOK'
    BY <1>0, <2>1, <2>2 DEF Http!TypeOK
  <2>4. QueueIsFresh' /\ HandsAreFresh' /\ SettledWasPosted'
    BY <2>1 DEF HttpInv, QueueIsFresh, HandsAreFresh, SettledWasPosted, Http!Posted
  <2>5. Http!SuccessMeansAcked'
    <3>1. SUFFICES ASSUME NEW r \in Http!Posted
                   PROVE  \/ verdict[r] = "acked"
                          \/ r = <<r[1], posted[r[1]]>> /\ pub'[r[1]] \in {"waiting", "refused", "timedOut"}
      BY <2>1 DEF Http!SuccessMeansAcked, Http!Posted, Http!Current
    <3>2. \/ verdict[r] = "acked"
          \/ r = <<r[1], posted[r[1]]>> /\ pub[r[1]] \in {"waiting", "refused", "timedOut"}
      BY DEF HttpInv, Http!SuccessMeansAcked, Http!Current
    <3>3. r[1] \in Senders
      BY DEF Http!Posted, Http!Requests
    <3> QED
      BY <2>2, <3>2, <3>3 DEF Http!Current
  <2> QED
    BY <2>3, <2>4, <2>5 DEF HttpInv
<1>3. ASSUME NEW c \in Consumers, Http!Get(c)
      PROVE  HttpInv'
  <2>1. /\ queue # <<>> /\ held' = [held EXCEPT ![c] = @ \cup {Head(queue)}]
        /\ queue' = Tail(queue) /\ it' = [it EXCEPT ![c] = "out"]
        /\ UNCHANGED <<pub, posted, verdict, closed, givenUp>>
    BY <1>3 DEF Http!Get, Http!Goto
  <2>2. /\ queue' \in Seq(Http!Requests) /\ Len(queue) \in Nat /\ Len(queue) > 0 /\ Len(queue') = Len(queue) - 1
        /\ \A j \in 1..Len(queue') : queue'[j] = queue[j + 1]
        /\ Head(queue) = queue[1] /\ queue[1] \in Http!Requests
    BY <1>0, <2>1
  <2>3. /\ held' \in [Consumers -> SUBSET Http!Requests]
        /\ \A d \in Consumers : held'[d] = IF d = c THEN held[c] \cup {queue[1]} ELSE held[d]
    BY <1>0, <2>1, <2>2
  <2>4. /\ queue[1] \in Http!Posted /\ verdict[queue[1]] = "none" /\ \A i \in Consumers : queue[1] \notin held[i]
    BY <2>2 DEF HttpInv, QueueIsFresh
  <2>5. \A j \in 1..Len(queue') : j + 1 \in 1..Len(queue) /\ j + 1 # 1
    BY <2>2
  <2>6. Http!TypeOK'
    BY <1>0, <2>1, <2>2, <2>3 DEF Http!TypeOK
  <2>7. QueueIsFresh'
    <3>1. ASSUME NEW j \in 1..Len(queue')
          PROVE  /\ queue'[j] \in Http!Posted' /\ verdict'[queue'[j]] = "none"
                 /\ \A i \in Consumers : queue'[j] \notin held'[i]
      <4>1. queue'[j] = queue[j + 1] /\ j + 1 \in 1..Len(queue) /\ j + 1 # 1 /\ 1 \in 1..Len(queue)
        BY <2>2, <2>5
      <4>2. queue[j + 1] # queue[1]
        BY <4>1 DEF HttpInv, QueueIsFresh
      <4>3. /\ queue[j + 1] \in Http!Posted /\ verdict[queue[j + 1]] = "none"
            /\ \A i \in Consumers : queue[j + 1] \notin held[i]
        BY <4>1 DEF HttpInv, QueueIsFresh
      <4> QED
        BY <2>1, <2>3, <4>1, <4>2, <4>3 DEF Http!Posted
    <3>2. ASSUME NEW j \in 1..Len(queue'), NEW k \in 1..Len(queue'), queue'[j] = queue'[k]
          PROVE  j = k
      <4>1. j + 1 = k + 1
        BY <2>2, <2>5, <3>2 DEF HttpInv, QueueIsFresh
      <4> QED
        BY <4>1
    <3> QED
      BY <3>1, <3>2 DEF QueueIsFresh
  <2>8. HandsAreFresh'
    BY <2>1, <2>3, <2>4 DEF HttpInv, HandsAreFresh, Http!Posted
  <2>9. SettledWasPosted' /\ Http!SuccessMeansAcked'
    BY <2>1 DEF HttpInv, SettledWasPosted, Http!SuccessMeansAcked, Http!Posted, Http!Current
  <2> QED
    BY <2>6, <2>7, <2>8, <2>9 DEF HttpInv
<1>4. ASSUME NEW c \in Consumers, Http!GetTimesOut(c) \/ Http!Ask(c)
      PROVE  HttpInv'
  <2>1. /\ UNCHANGED <<pub, posted, queue, held, verdict, closed, givenUp>>
        /\ \E to \in {"get", "ended"} : it' = [it EXCEPT ![c] = to]
    BY <1>4 DEF Http!GetTimesOut, Http!Ask, Http!Goto
  <2>2. Http!TypeOK'
    BY <1>0, <2>1 DEF Http!TypeOK
  <2> QED
    BY <2>1, <2>2 DEF HttpInv, QueueIsFresh, HandsAreFresh, SettledWasPosted, Http!SuccessMeansAcked,
       Http!Posted, Http!Current
<1>5. ASSUME NEW c \in Consumers, NEW r \in Http!Requests, Http!Ack(c, r) \/ Http!Nack(c, r)
      PROVE  HttpInv'
  <2>1. /\ r \in held[c] /\ held' = [held EXCEPT ![c] = @ \ {r}]
        /\ UNCHANGED <<pub, posted, queue, it, closed, givenUp>>
    BY <1>5 DEF Http!Ack, Http!Nack, Http!Settle
  <2>2. PICK how \in {"acked", "nacked"} : verdict' = [verdict EXCEPT ![r] = how]
    BY <1>5 DEF Http!Ack, Http!Nack, Http!Settle
  <2>3. /\ held' \in [Consumers -> SUBSET Http!Requests]
        /\ \A d \in Consumers : held'[d] = IF d = c THEN held[c] \ {r} ELSE held[d]
        /\ verdict' \in [Http!Requests -> {"none", "acked", "nacked"}]
        /\ \A x \in Http!Requests \ {r} : verdict'[x] = verdict[x]
    BY <1>0, <2>1, <2>2
  <2>4. /\ r \in Http!Posted /\ verdict[r] = "none"
        /\ \A d \in Consumers \ {c} : r \notin held[d]
        /\ \A j \in 1..Len(queue) : queue[j] # r /\ queue[j] \in Http!Requests
    BY <1>0, <2>1 DEF HttpInv, HandsAreFresh, QueueIsFresh
  <2>5. Http!TypeOK'
    BY <1>0, <2>1, <2>3 DEF Http!TypeOK
  <2>6. QueueIsFresh'
    BY <2>1, <2>3, <2>4 DEF HttpInv, QueueIsFresh, Http!Posted
  <2>7. HandsAreFresh'
    <3>1. SUFFICES ASSUME NEW d \in Consumers, NEW x \in held'[d]
                   PROVE  /\ x \in Http!Posted /\ verdict'[x] = "none"
                          /\ \A e \in Consumers \ {d} : x \notin held'[e]
      BY <2>1 DEF HandsAreFresh, Http!Posted
    <3>2. x \in held[d] /\ x # r /\ x \in Http!Requests
      BY <1>0, <2>3, <2>4
    <3> QED
      BY <2>3, <3>2 DEF HttpInv, HandsAreFresh
  <2>8. SettledWasPosted'
    BY <2>1, <2>3, <2>4 DEF HttpInv, SettledWasPosted, Http!Posted
  <2>9. Http!SuccessMeansAcked'
    <3>1. SUFFICES ASSUME NEW x \in Http!Posted
                   PROVE  \/ verdict'[x] = "acked"
                          \/ x = <<x[1], posted[x[1]]>> /\ pub[x[1]] \in {"waiting", "refused", "timedOut"}
      BY <2>1 DEF Http!SuccessMeansAcked, Http!Posted, Http!Current
    <3>2. \/ verdict[x] = "acked"
          \/ x = <<x[1], posted[x[1]]>> /\ pub[x[1]] \in {"waiting", "refused", "timedOut"}
      BY DEF HttpInv, Http!SuccessMeansAcked, Http!Current
    <3>3. x \in Http!Requests
      BY DEF Http!Posted
    <3> QED
      BY <2>3, <2>4, <3>2, <3>3
  <2> QED
    BY <2>5, <2>6, <2>7, <2>8, <2>9 DEF HttpInv
<1>6. ASSUME NEW c \in Consumers, NEW r \in Http!Requests, Http!Abandon(c, r)
      PROVE  HttpInv'
  <2>1. /\ held' = [held EXCEPT ![c] = @ \ {r}] /\ givenUp' = givenUp \cup {r}
        /\ UNCHANGED <<pub, posted, queue, it, verdict, closed>>
    BY <1>6 DEF Http!Abandon
  <2>2. /\ held' \in [Consumers -> SUBSET Http!Requests]
        /\ \A d \in Consumers : held'[d] \subseteq held[d]
    BY <1>0, <2>1
  <2>3. Http!TypeOK'
    BY <1>0, <2>1, <2>2 DEF Http!TypeOK
  <2>4. QueueIsFresh' /\ HandsAreFresh'
    BY <2>1, <2>2 DEF HttpInv, QueueIsFresh, HandsAreFresh, Http!Posted
  <2>5. SettledWasPosted' /\ Http!SuccessMeansAcked'
    BY <2>1 DEF HttpInv, SettledWasPosted, Http!SuccessMeansAcked, Http!Posted, Http!Current
  <2> QED
    BY <2>3, <2>4, <2>5 DEF HttpInv
<1>7. CASE Http!Close
  <2>1. UNCHANGED <<pub, posted, queue, it, held, verdict, givenUp>> /\ closed' = TRUE
    BY <1>7 DEF Http!Close
  <2>2. Http!TypeOK'
    BY <1>0, <2>1 DEF Http!TypeOK
  <2> QED
    BY <2>1, <2>2 DEF HttpInv, QueueIsFresh, HandsAreFresh, SettledWasPosted, Http!SuccessMeansAcked,
       Http!Posted, Http!Current
<1> QED
  BY <1>1, <1>2, <1>3, <1>4, <1>5, <1>6, <1>7 DEF Http!Next, Http!Iterates, Http!Settles

-----------------------------------------------------------------------------
(* LazyClient                                                              *)

\* What became of the client that p opens follows p's own steps, and those of the exit.
OwnClient(p) ==
    /\ stage[p] = "idle" => clients[p] = "none"
    /\ clients[p] = "opening" => stage[p] = "opening"
    /\ stage[p] = "opening" =>
         /\ clients[p] \in {"opening", "exiting", "closed"} /\ using[p] = p /\ sort # "http"
         /\ sort = "aws" => clients[p] = "opening"
    /\ clients[p] = "failed" => stage[p] = "raised"
    /\ sort = "kafka" /\ clients[p] = "opening" => p = shared /\ exit = "no"

\* What is shared or in use was opened; of Kafka not even that.
SharedWasOpened ==
    /\ sort # "kafka" /\ shared # NoClient => clients[shared] \in {"open", "exiting", "closed"}
    /\ \A p \in Senders : stage[p] \in {"resolving", "sending"} =>
         /\ using[p] \in Senders
         /\ sort # "kafka" => clients[using[p]] \in {"open", "exiting", "closed"}

\* One client is exited at a time, by a publisher that takes no more publishes.
ExitInv ==
    /\ exit # "no" => refuses
    /\ \A k \in Senders : clients[k] = "exiting" => exit = "exiting"
    /\ \A k, l \in Senders : clients[k] = "exiting" /\ clients[l] = "exiting" => k = l
    /\ \A k \in Senders : clients[k] = "closed" => refuses

\* A client that is open is the shared one, or crossed.
OpenIsShared ==
    \A k \in Senders : clients[k] = "open" =>
        (k = shared /\ exit = "no") \/ (sort = "aws" /\ k \in crossed)

\* The inductive invariant of LazyClient.
LazyInv ==
    /\ Lazy!TypeOK
    /\ \A p \in Senders : OwnClient(p)
    /\ SharedWasOpened
    /\ ExitInv
    /\ OpenIsShared

\* No client leaks but a crossed one.
LEMMA LazyLeaks == LazyInv => Lazy!LeakedOnlyIfCrossed
<1> SUFFICES ASSUME LazyInv PROVE Lazy!LeakedOnlyIfCrossed
  OBVIOUS
<1>1. ASSUME NEW p \in Senders, exit = "done", stage[p] = "sending", Lazy!Serves(using[p])
      PROVE  using[p] \in crossed
  <2>1. using[p] \in Senders
    BY <1>1 DEF LazyInv, SharedWasOpened
  <2>2. clients[using[p]] = "open"
    BY <1>1, <2>1 DEF LazyInv, ExitInv, Lazy!Serves
  <2> QED
    BY <1>1, <2>1, <2>2 DEF LazyInv, OpenIsShared
<1> QED
  BY <1>1 DEF LazyInv, OpenIsShared, Lazy!LeakedOnlyIfCrossed

\* What a publish goes on with is ready, or the publisher refuses, or it is Kafka's.
LEMMA LazyReady == LazyInv => Lazy!ReadyUnlessNotStarted
<1> SUFFICES ASSUME LazyInv, NEW p \in Senders, stage[p] \in {"resolving", "sending"}
             PROVE  CASE clients[using[p]] = "open" -> TRUE
                      [] clients[using[p]] \in {"exiting", "closed"} -> refuses
                      [] clients[using[p]] = "opening" -> sort = "kafka" /\ stage[using[p]] = "opening"
                      [] clients[using[p]] = "failed" -> sort = "kafka" /\ stage[using[p]] = "raised"
                      [] OTHER -> FALSE
  BY DEF Lazy!ReadyUnlessNotStarted
<1>1. using[p] \in Senders /\ (sort # "kafka" => clients[using[p]] \in {"open", "exiting", "closed"})
  BY DEF LazyInv, SharedWasOpened
<1>2. PICK k \in Senders : k = using[p]
  BY <1>1
<1>3. clients[k] # "none"
  BY <1>2 DEF LazyInv, Lazy!TypeOK
<1>4. clients[k] \in {"none", "opening", "open", "failed", "exiting", "closed"}
  BY DEF LazyInv, Lazy!TypeOK
<1>5. clients[k] \in {"exiting", "closed"} => refuses
  BY DEF LazyInv, ExitInv
<1>6. /\ clients[k] = "opening" => stage[k] = "opening"
      /\ clients[k] = "failed" => stage[k] = "raised"
  BY DEF LazyInv, OwnClient
<1> QED
  BY <1>1, <1>2, <1>3, <1>4, <1>5, <1>6

\* A step of a publish, or of the exit, keeps the invariant.
LEMMA LazyStep == LazyInv /\ Lazy!Next => LazyInv'
<1> SUFFICES ASSUME LazyInv, Lazy!Next
             PROVE  LazyInv'
  OBVIOUS
<1> USE NobodyAssumption
<1> DEFINE Fates == {"none", "opening", "open", "failed", "exiting", "closed"}
           Stages == {"idle", "opening", "resolving", "sending", "returned", "raised"}
<1>0. /\ sort \in {"http", "aws", "kafka"} /\ shared \in Senders \cup {NoClient} /\ NoClient \notin Senders
      /\ clients \in [Senders -> Fates] /\ stage \in [Senders -> Stages]
      /\ using \in [Senders -> Senders \cup {NoClient}]
      /\ refuses \in BOOLEAN /\ resolved \in BOOLEAN
      /\ exit \in {"no", "exiting", "done"} /\ crossed \subseteq Senders
      /\ \A k \in Senders : clients[k] = "none" => shared # k /\ \A p \in Senders : using[p] # k
  BY DEF LazyInv, Lazy!TypeOK
<1>1. CASE Lazy!OnlyRefuse
  <2>1. refuses' = TRUE /\ UNCHANGED <<sort, shared, clients, stage, using, exit, resolved, crossed>>
    BY <1>1 DEF Lazy!OnlyRefuse
  <2>2. Lazy!TypeOK'
    BY <1>0, <2>1 DEF Lazy!TypeOK
  <2> QED
    BY <2>1, <2>2 DEF LazyInv, OwnClient, SharedWasOpened, ExitInv, OpenIsShared
<1>2. CASE Lazy!BeginsExit
  <2>1. exit = "no" /\ refuses' = TRUE /\ UNCHANGED <<sort, shared, stage, using, resolved, crossed>>
    BY <1>2 DEF Lazy!BeginsExit
  <2>2. CASE shared = NoClient
    <3>1. exit' = "done" /\ clients' = clients
      BY <1>2, <2>2 DEF Lazy!BeginsExit
    <3>2. Lazy!TypeOK'
      BY <1>0, <2>1, <3>1 DEF Lazy!TypeOK
    <3>3. \A p \in Senders : OwnClient(p)'
      BY <1>0, <2>1, <2>2, <3>1 DEF LazyInv, OwnClient
    <3>4. SharedWasOpened' /\ ExitInv' /\ OpenIsShared'
      BY <1>0, <2>1, <2>2, <3>1 DEF LazyInv, SharedWasOpened, ExitInv, OpenIsShared
    <3> QED
      BY <3>2, <3>3, <3>4 DEF LazyInv
  <2>3. CASE shared # NoClient
    <3>1. exit' = "exiting" /\ clients' = [clients EXCEPT ![shared] = "exiting"]
      BY <1>2, <2>3 DEF Lazy!BeginsExit, Lazy!Becomes
    <3>2. PICK s \in Senders : s = shared
      BY <1>0, <2>3
    <3>3. /\ clients' \in [Senders -> Fates] /\ clients'[s] = "exiting"
          /\ \A k \in Senders \ {s} : clients'[k] = clients[k]
      BY <1>0, <3>1, <3>2
    <3>4. clients[s] # "none" /\ \A k \in Senders : clients'[k] = "none" => clients[k] = "none"
      BY <1>0, <3>2, <3>3
    <3>5. Lazy!TypeOK'
      BY <1>0, <2>1, <3>1, <3>3, <3>4 DEF Lazy!TypeOK
    <3>6. ASSUME NEW p \in Senders PROVE OwnClient(p)'
      <4>1. OwnClient(p)
        BY DEF LazyInv
      <4>2. sort = "aws" => clients[s] \in {"open", "exiting", "closed"}
        BY <3>2, <2>3 DEF LazyInv, SharedWasOpened
      <4>3. CASE p = s
        BY <1>0, <2>1, <3>1, <3>2, <3>3, <3>4, <4>1, <4>2, <4>3 DEF OwnClient
      <4>4. CASE p # s
        BY <1>0, <2>1, <3>1, <3>2, <3>3, <4>1, <4>4 DEF OwnClient
      <4> QED
        BY <4>3, <4>4
    <3>7. SharedWasOpened'
      BY <1>0, <2>1, <3>2, <3>3 DEF LazyInv, SharedWasOpened
    <3>8. ExitInv'
      BY <1>0, <2>1, <3>1, <3>3 DEF LazyInv, ExitInv
    <3>9. OpenIsShared'
      BY <1>0, <2>1, <3>1, <3>2, <3>3 DEF LazyInv, OpenIsShared
    <3> QED
      BY <3>5, <3>6, <3>7, <3>8, <3>9 DEF LazyInv
  <2> QED
    BY <2>2, <2>3
<1>3. CASE Lazy!EndsExit
  <2>1. /\ exit = "exiting" /\ exit' = "done" /\ shared' \in {NoClient, shared}
        /\ UNCHANGED <<sort, stage, using, refuses, resolved, crossed>>
    BY <1>3 DEF Lazy!EndsExit
  <2>2. PICK s \in Senders : clients[s] = "exiting" /\ clients' = [clients EXCEPT ![s] = "closed"]
    BY <1>3 DEF Lazy!EndsExit, Lazy!Becomes
  <2>3. /\ clients' \in [Senders -> Fates] /\ clients'[s] = "closed"
        /\ \A k \in Senders \ {s} : clients'[k] = clients[k]
    BY <1>0, <2>2
  <2>4. \A k \in Senders : clients'[k] = "none" => clients[k] = "none"
    BY <2>3
  <2>5. Lazy!TypeOK'
    BY <1>0, <2>1, <2>3, <2>4 DEF Lazy!TypeOK
  <2>6. ASSUME NEW p \in Senders PROVE OwnClient(p)'
    <3>1. OwnClient(p)
      BY DEF LazyInv
    <3> QED
      BY <1>0, <2>1, <2>2, <2>3, <3>1 DEF OwnClient
  <2>7. SharedWasOpened'
    BY <1>0, <2>1, <2>3 DEF LazyInv, SharedWasOpened
  <2>8. ExitInv'
    BY <1>0, <2>1, <2>2, <2>3 DEF LazyInv, ExitInv
  <2>9. OpenIsShared'
    BY <1>0, <2>1, <2>2, <2>3 DEF LazyInv, OpenIsShared
  <2> QED
    BY <2>5, <2>6, <2>7, <2>8, <2>9 DEF LazyInv
<1>4. ASSUME NEW p \in Senders, Lazy!Refused(p) \/ Lazy!Resolves(p) \/ Lazy!Sends(p) \/ Lazy!Raises(p)
      PROVE  LazyInv'
  <2>1. /\ UNCHANGED <<sort, shared, clients, using, refuses, exit, crossed>> /\ resolved' \in BOOLEAN
        /\ stage[p] \in {"idle", "resolving", "sending"}
        /\ \E to \in {"sending", "returned", "raised"} :
             /\ stage' = [stage EXCEPT ![p] = to]
             /\ to = "sending" => stage[p] \in {"resolving", "sending"}
    BY <1>0, <1>4 DEF Lazy!Refused, Lazy!Resolves, Lazy!Sends, Lazy!Raises, Lazy!Goes
  <2>2. /\ stage' \in [Senders -> Stages] /\ \A q \in Senders \ {p} : stage'[q] = stage[q]
        /\ stage'[p] \in {"sending", "returned", "raised"}
        /\ stage'[p] = "sending" => stage[p] \in {"resolving", "sending"}
    BY <1>0, <2>1
  <2>3. Lazy!TypeOK'
    BY <1>0, <2>1, <2>2 DEF Lazy!TypeOK
  <2>4. ASSUME NEW q \in Senders PROVE OwnClient(q)'
    <3>1. OwnClient(q)
      BY DEF LazyInv
    <3> QED
      BY <1>0, <2>1, <2>2, <3>1 DEF OwnClient
  <2>5. SharedWasOpened'
    BY <2>1, <2>2 DEF LazyInv, SharedWasOpened
  <2>6. ExitInv' /\ OpenIsShared'
    BY <2>1 DEF LazyInv, ExitInv, OpenIsShared
  <2> QED
    BY <2>3, <2>4, <2>5, <2>6 DEF LazyInv
<1>5. ASSUME NEW p \in Senders, Lazy!UsesShared(p)
      PROVE  LazyInv'
  <2>1. /\ UNCHANGED <<sort, shared, clients, refuses, exit, resolved, crossed>>
        /\ stage[p] = "idle" /\ shared # NoClient /\ shared \in Senders
        /\ using' = [using EXCEPT ![p] = shared]
        /\ \E to \in {"resolving", "sending"} : stage' = [stage EXCEPT ![p] = to]
    BY <1>0, <1>5 DEF Lazy!UsesShared, Lazy!Takes, Lazy!Goes, Lazy!Onwards
  <2>2. /\ stage' \in [Senders -> Stages] /\ using' \in [Senders -> Senders \cup {NoClient}]
        /\ \A q \in Senders \ {p} : stage'[q] = stage[q] /\ using'[q] = using[q]
        /\ stage'[p] \in {"resolving", "sending"} /\ using'[p] = shared
    BY <1>0, <2>1
  <2>3. Lazy!TypeOK'
    BY <1>0, <2>1, <2>2 DEF Lazy!TypeOK
  <2>4. ASSUME NEW q \in Senders PROVE OwnClient(q)'
    <3>1. OwnClient(q)
      BY DEF LazyInv
    <3> QED
      BY <1>0, <2>1, <2>2, <3>1 DEF OwnClient
  <2>5. SharedWasOpened'
    BY <2>1, <2>2 DEF LazyInv, SharedWasOpened
  <2>6. ExitInv' /\ OpenIsShared'
    BY <2>1 DEF LazyInv, ExitInv, OpenIsShared
  <2> QED
    BY <2>3, <2>4, <2>5, <2>6 DEF LazyInv
<1>6. ASSUME NEW p \in Senders, Lazy!MakesClient(p)
      PROVE  LazyInv'
  <2>1. /\ UNCHANGED <<sort, refuses, exit, resolved, crossed>> /\ sort = "http" /\ ~ refuses
        /\ stage[p] = "idle" /\ shared = NoClient /\ shared' = p
        /\ using' = [using EXCEPT ![p] = p] /\ clients' = [clients EXCEPT ![p] = "open"]
        /\ \E to \in {"resolving", "sending"} : stage' = [stage EXCEPT ![p] = to]
    BY <1>0, <1>6 DEF Lazy!MakesClient, Lazy!Takes, Lazy!Goes, Lazy!Becomes, Lazy!Onwards
  <2>2. /\ stage' \in [Senders -> Stages] /\ using' \in [Senders -> Senders \cup {NoClient}]
        /\ clients' \in [Senders -> Fates]
        /\ \A q \in Senders \ {p} : stage'[q] = stage[q] /\ using'[q] = using[q] /\ clients'[q] = clients[q]
        /\ stage'[p] \in {"resolving", "sending"} /\ using'[p] = p /\ clients'[p] = "open"
    BY <1>0, <2>1
  <2>3. Lazy!TypeOK'
    BY <1>0, <2>1, <2>2 DEF Lazy!TypeOK
  <2>4. ASSUME NEW q \in Senders PROVE OwnClient(q)'
    <3>1. OwnClient(q)
      BY DEF LazyInv
    <3> QED
      BY <1>0, <2>1, <2>2, <3>1 DEF OwnClient
  <2>5. SharedWasOpened'
    BY <1>0, <2>1, <2>2 DEF LazyInv, SharedWasOpened
  <2>6. ExitInv' /\ OpenIsShared'
    BY <1>0, <2>1, <2>2 DEF LazyInv, ExitInv, OpenIsShared
  <2> QED
    BY <2>3, <2>4, <2>5, <2>6 DEF LazyInv
<1>7. ASSUME NEW p \in Senders, Lazy!StartsOpening(p)
      PROVE  LazyInv'
  <2>1. /\ UNCHANGED <<sort, refuses, exit, resolved, crossed>> /\ sort # "http" /\ ~ refuses
        /\ stage[p] = "idle" /\ shared = NoClient /\ shared' = IF sort = "kafka" THEN p ELSE NoClient
        /\ using' = [using EXCEPT ![p] = p] /\ clients' = [clients EXCEPT ![p] = "opening"]
        /\ stage' = [stage EXCEPT ![p] = "opening"]
    BY <1>0, <1>7 DEF Lazy!StartsOpening, Lazy!Takes, Lazy!Goes, Lazy!Becomes, Lazy!AssignedFirst
  <2>2. /\ stage' \in [Senders -> Stages] /\ using' \in [Senders -> Senders \cup {NoClient}]
        /\ clients' \in [Senders -> Fates]
        /\ \A q \in Senders \ {p} : stage'[q] = stage[q] /\ using'[q] = using[q] /\ clients'[q] = clients[q]
        /\ stage'[p] = "opening" /\ using'[p] = p /\ clients'[p] = "opening"
    BY <1>0, <2>1
  <2>3. Lazy!TypeOK'
    BY <1>0, <2>1, <2>2 DEF Lazy!TypeOK
  <2>4. exit = "no"
    BY <1>0, <2>1 DEF LazyInv, ExitInv
  <2>5. clients[p] = "none" /\ \A q \in Senders : sort = "kafka" => clients[q] # "opening"
    BY <1>0, <2>1 DEF LazyInv, OwnClient
  <2>6. ASSUME NEW q \in Senders PROVE OwnClient(q)'
    <3>1. OwnClient(q)
      BY DEF LazyInv
    <3> QED
      BY <1>0, <2>1, <2>2, <2>4, <2>5, <3>1 DEF OwnClient
  <2>7. SharedWasOpened'
    <3>1. \A q \in Senders : stage'[q] \in {"resolving", "sending"} => q # p /\ using[q] # p
      BY <1>0, <2>2, <2>5
    <3> QED
      BY <1>0, <2>1, <2>2, <3>1 DEF LazyInv, SharedWasOpened
  <2>8. ExitInv' /\ OpenIsShared'
    BY <1>0, <2>1, <2>2 DEF LazyInv, ExitInv, OpenIsShared
  <2> QED
    BY <2>3, <2>6, <2>7, <2>8 DEF LazyInv
<1>8. ASSUME NEW p \in Senders, Lazy!ClientOpens(p)
      PROVE  LazyInv'
  <2>1. /\ UNCHANGED <<sort, using, refuses, exit, resolved>> /\ sort # "kafka"
        /\ stage[p] = "opening" /\ shared' = p
        /\ clients' = [clients EXCEPT ![p] = "open"]
        /\ crossed' = crossed \cup ({shared} \ {NoClient}) \cup (IF exit # "no" THEN {p} ELSE {})
        /\ \E to \in {"resolving", "sending"} : stage' = [stage EXCEPT ![p] = to]
    BY <1>0, <1>8 DEF Lazy!ClientOpens, Lazy!Goes, Lazy!Becomes, Lazy!AssignedFirst, Lazy!Onwards, Lazy!Replaced
  <2>2. /\ stage' \in [Senders -> Stages] /\ clients' \in [Senders -> Fates]
        /\ \A q \in Senders \ {p} : stage'[q] = stage[q] /\ clients'[q] = clients[q]
        /\ stage'[p] \in {"resolving", "sending"} /\ clients'[p] = "open"
    BY <1>0, <2>1
  <2>3. sort = "aws" /\ clients[p] = "opening" /\ using[p] = p
    BY <1>0, <2>1 DEF LazyInv, OwnClient
  <2>4. Lazy!TypeOK'
    BY <1>0, <2>1, <2>2 DEF Lazy!TypeOK
  <2>5. ASSUME NEW q \in Senders PROVE OwnClient(q)'
    <3>1. OwnClient(q)
      BY DEF LazyInv
    <3> QED
      BY <1>0, <2>1, <2>2, <2>3, <3>1 DEF OwnClient
  <2>6. SharedWasOpened'
    BY <1>0, <2>1, <2>2, <2>3 DEF LazyInv, SharedWasOpened
  <2>7. ExitInv' /\ OpenIsShared'
    BY <1>0, <2>1, <2>2, <2>3 DEF LazyInv, ExitInv, OpenIsShared
  <2> QED
    BY <2>4, <2>5, <2>6, <2>7 DEF LazyInv
<1>9. ASSUME NEW p \in Senders, Lazy!ProducerStarts(p)
      PROVE  LazyInv'
  <2>1. /\ UNCHANGED <<sort, shared, refuses, exit, resolved, crossed>> /\ sort = "kafka"
        /\ stage[p] = "opening"
        /\ clients' = IF clients[p] = "opening" THEN [clients EXCEPT ![p] = "open"] ELSE clients
        /\ using' = [using EXCEPT ![p] = shared]
        /\ \E to \in {"resolving", "sending", "raised"} :
             stage' = [stage EXCEPT ![p] = to] /\ (to # "raised" => shared # NoClient)
    BY <1>0, <1>9 DEF Lazy!ProducerStarts, Lazy!Goes, Lazy!Becomes, Lazy!Takes, Lazy!AssignedFirst, Lazy!Onwards
  <2>2. /\ stage' \in [Senders -> Stages] /\ using' \in [Senders -> Senders \cup {NoClient}]
        /\ clients' \in [Senders -> Fates]
        /\ \A q \in Senders \ {p} : stage'[q] = stage[q] /\ using'[q] = using[q] /\ clients'[q] = clients[q]
        /\ stage'[p] \in {"resolving", "sending", "raised"} /\ using'[p] = shared
        /\ stage'[p] # "raised" => shared # NoClient
        /\ clients'[p] = IF clients[p] = "opening" THEN "open" ELSE clients[p]
    BY <1>0, <2>1
  <2>3. Lazy!TypeOK'
    BY <1>0, <2>1, <2>2 DEF Lazy!TypeOK
  <2>4. ASSUME NEW q \in Senders PROVE OwnClient(q)'
    <3>1. OwnClient(q)
      BY DEF LazyInv
    <3> QED
      BY <1>0, <2>1, <2>2, <3>1 DEF OwnClient
  <2>5. SharedWasOpened'
    BY <1>0, <2>1, <2>2 DEF LazyInv, SharedWasOpened
  <2>6. ExitInv'
    BY <1>0, <2>1, <2>2 DEF LazyInv, ExitInv
  <2>7. OpenIsShared'
    BY <1>0, <2>1, <2>2 DEF LazyInv, OpenIsShared, OwnClient
  <2> QED
    BY <2>3, <2>4, <2>5, <2>6, <2>7 DEF LazyInv
<1>10. ASSUME NEW p \in Senders, Lazy!OpeningFails(p)
       PROVE  LazyInv'
  <2>1. /\ UNCHANGED <<sort, shared, using, refuses, exit, resolved, crossed>>
        /\ stage[p] = "opening"
        /\ clients' = IF clients[p] = "opening" THEN [clients EXCEPT ![p] = "failed"] ELSE clients
        /\ stage' = [stage EXCEPT ![p] = "raised"]
    BY <1>0, <1>10 DEF Lazy!OpeningFails, Lazy!Goes, Lazy!Becomes
  <2>2. /\ stage' \in [Senders -> Stages] /\ clients' \in [Senders -> Fates]
        /\ \A q \in Senders \ {p} : stage'[q] = stage[q] /\ clients'[q] = clients[q]
        /\ stage'[p] = "raised"
        /\ clients'[p] = IF clients[p] = "opening" THEN "failed" ELSE clients[p]
    BY <1>0, <2>1
  <2>3. Lazy!TypeOK'
    BY <1>0, <2>1, <2>2 DEF Lazy!TypeOK
  <2>4. ASSUME NEW q \in Senders PROVE OwnClient(q)'
    <3>1. OwnClient(q)
      BY DEF LazyInv
    <3> QED
      BY <1>0, <2>1, <2>2, <3>1 DEF OwnClient
  <2>5. SharedWasOpened'
    BY <1>0, <2>1, <2>2 DEF LazyInv, SharedWasOpened
  <2>6. ExitInv' /\ OpenIsShared'
    BY <1>0, <2>1, <2>2 DEF LazyInv, ExitInv, OpenIsShared
  <2> QED
    BY <2>3, <2>4, <2>5, <2>6 DEF LazyInv
<1> QED
  BY <1>1, <1>2, <1>3, <1>4, <1>5, <1>6, <1>7, <1>8, <1>9, <1>10 DEF Lazy!Next, Lazy!GoesOn

-----------------------------------------------------------------------------
(* The parts                                                               *)

\* The part that Init picked stays, and only it moves.
LEMMA BackendPartMoves ==
    ASSUME [Next]_vars
    PROVE  /\ part' = part
           /\ part = "aws" =>
                \/ Aws!Next
                \/ UNCHANGED <<published, acked, it, batch, held, closed, crashes, service, client, opened,
                               shut, uses, closing, overlapped, policy, subscribed, setUp,
                               visible, hidden, lapsed, wanted>>
           /\ part = "http" =>
                Http!Next \/ UNCHANGED <<pub, posted, queue, it, held, verdict, closed, givenUp>>
           /\ part = "publish" =>
                \/ Lazy!Next
                \/ UNCHANGED <<sort, shared, clients, stage, using, refuses, exit, resolved, crossed>>
BY DEF Next, Of, vars, commonVars, awsVars, httpVars, sharedVars

\* AwsQueue starts with nothing sent and no client.
LEMMA AwsStarts == Init /\ part = "aws" => AwsInv
<1> SUFFICES ASSUME Init, part = "aws"
             PROVE  AwsInv
  OBVIOUS
<1> USE CompetingAssumption, NobodyAssumption DEF Msgs, Aws!Msgs
<1>1. Aws!Init
  BY DEF Init
<1>2. /\ published = 0 /\ acked = {} /\ it = [c \in Consumers |-> "start"]
      /\ batch = [c \in Consumers |-> {}] /\ held = [c \in Consumers |-> Aws!NothingHeld]
      /\ closed = {} /\ crashes = 0
      /\ service \in {"sqs", "sns"}
      /\ client = NoClient /\ opened = 0 /\ shut = {} /\ closing = "no"
      /\ uses = [c \in Consumers |-> NoClient]
      /\ policy = FALSE /\ subscribed = FALSE /\ setUp = FALSE
      /\ visible = {} /\ hidden = {} /\ lapsed = {} /\ wanted = {} /\ overlapped = {}
  BY <1>1 DEF Aws!Init, Aws!CommonInit
<1>3. Aws!NothingHeld \in [Msgs -> 0..1] /\ \A x \in Msgs : Aws!NothingHeld[x] = 0
  BY DEF Aws!NothingHeld
<1>4. NotYet \in SUBSET Consumers /\ Consumers \in SUBSET Consumers
  BY DEF NotYet
<1>5. /\ Cardinality(Consumers) \in Nat /\ Cardinality(NotYet) <= Cardinality(Consumers)
      /\ Cardinality(NotYet) \in Nat /\ Aws!Cardinality(Consumers) = Cardinality(Consumers)
  BY <1>4, CountNotYet, AwsCountsSo
<1>6. Aws!TypeOK
  <2>1. /\ published \in 0..N /\ crashes \in 0..MaxCrashes
        /\ it \in [Consumers -> {"start", "opening", "queue", "policy", "subscribe", "poll", "out", "ended"}]
        /\ batch \in [Consumers -> SUBSET (1..published)]
        /\ held \in [Consumers -> [Msgs -> 0..1]]
    BY <1>2, <1>3
  <2>2. opened \in 0..Aws!Cardinality(Consumers) /\ uses \in [Consumers -> 1..opened \cup {NoClient}]
    BY <1>2, <1>5
  <2> QED
    BY <1>2, <2>1, <2>2 DEF Aws!TypeOK, Aws!CommonTypes
<1>7. ClientInv
  BY <1>2, <1>5 DEF ClientInv, Aws!LeakedOnlyIfOverlapped
<1>8. SetupInv /\ HeldIsPublished /\ Aws!SubscribedMissesNothing
  BY <1>2, <1>3 DEF SetupInv, HeldIsPublished, Aws!SubscribedMissesNothing
<1> QED
  BY <1>6, <1>7, <1>8 DEF AwsInv

\* HttpWebhook starts with nothing posted.
LEMMA HttpStarts == Init /\ part = "http" => HttpInv
<1> SUFFICES ASSUME Init, part = "http"
             PROVE  HttpInv
  OBVIOUS
<1> USE CompetingAssumption
<1>1. Http!Init
  BY DEF Init
<1>2. /\ pub = [p \in Senders |-> "ready"] /\ posted = [p \in Senders |-> 0] /\ queue = <<>>
      /\ it = [i \in Consumers |-> "get"] /\ held = [i \in Consumers |-> {}]
      /\ verdict = [r \in Http!Requests |-> "none"] /\ closed = FALSE /\ givenUp = {}
  BY <1>1 DEF Http!Init
<1>3. Http!TypeOK
  <2>1. queue \in Seq(Http!Requests) /\ 0 \in 0..N
    BY <1>2
  <2>2. /\ pub \in [Senders -> {"ready", "waiting", "returned", "refused", "timedOut"}]
        /\ posted \in [Senders -> 0..N]
        /\ it \in [Consumers -> {"get", "out", "ended"}]
        /\ held \in [Consumers -> SUBSET Http!Requests]
        /\ verdict \in [Http!Requests -> {"none", "acked", "nacked"}]
    BY <1>2, <2>1
  <2> QED
    BY <1>2, <2>1, <2>2 DEF Http!TypeOK
<1>4. Http!Posted = {}
  BY <1>2 DEF Http!Posted, Http!Requests
<1>5. QueueIsFresh /\ HandsAreFresh /\ SettledWasPosted /\ Http!SuccessMeansAcked
  BY <1>2, <1>4 DEF QueueIsFresh, HandsAreFresh, SettledWasPosted, Http!SuccessMeansAcked
<1> QED
  BY <1>3, <1>5 DEF HttpInv

\* LazyClient starts without a client.
LEMMA LazyStarts == Init /\ part = "publish" => LazyInv
<1> SUFFICES ASSUME Init, part = "publish"
             PROVE  LazyInv
  OBVIOUS
<1> USE NobodyAssumption
<1>1. Lazy!Init
  BY DEF Init
<1>2. /\ sort \in {"http", "aws", "kafka"}
      /\ shared = NoClient /\ clients = [k \in Senders |-> "none"]
      /\ stage = [p \in Senders |-> "idle"] /\ using = [p \in Senders |-> NoClient]
      /\ refuses = FALSE /\ exit = "no" /\ crossed = {} /\ resolved \in BOOLEAN
  BY <1>1 DEF Lazy!Init
<1>3. Lazy!TypeOK
  BY <1>2 DEF Lazy!TypeOK
<1>4. (\A p \in Senders : OwnClient(p)) /\ SharedWasOpened /\ ExitInv /\ OpenIsShared
  BY <1>2 DEF OwnClient, SharedWasOpened, ExitInv, OpenIsShared
<1> QED
  BY <1>3, <1>4 DEF LazyInv

\* A step of the part keeps its invariant, and so does a stutter.
LEMMA BackendStep ==
    ASSUME [Next]_vars
    PROVE  /\ (part = "aws" => AwsInv) => (part = "aws" => AwsInv)'
           /\ (part = "http" => HttpInv) => (part = "http" => HttpInv)'
           /\ (part = "publish" => LazyInv) => (part = "publish" => LazyInv)'
<1>1. ASSUME part = "aws", AwsInv PROVE AwsInv'
  <2>1. CASE Aws!Next
    BY <1>1, <2>1, AwsStep
  <2>2. CASE UNCHANGED <<published, acked, it, batch, held, closed, crashes, service, client, opened,
                         shut, uses, closing, overlapped, policy, subscribed, setUp,
                         visible, hidden, lapsed, wanted>>
    <3>1. Aws!TypeOK' /\ ClientInv'
      BY <1>1, <2>2 DEF AwsInv, Aws!TypeOK, Aws!CommonTypes, ClientInv, NotYet, Aws!LeakedOnlyIfOverlapped
    <3>2. SetupInv' /\ HeldIsPublished' /\ Aws!SubscribedMissesNothing'
      BY <1>1, <2>2 DEF AwsInv, SetupInv, HeldIsPublished, Aws!SubscribedMissesNothing
    <3> QED
      BY <3>1, <3>2 DEF AwsInv
  <2> QED
    BY <1>1, <2>1, <2>2, BackendPartMoves
<1>2. ASSUME part = "http", HttpInv PROVE HttpInv'
  <2>1. CASE Http!Next
    BY <1>2, <2>1, HttpStep
  <2>2. CASE UNCHANGED <<pub, posted, queue, it, held, verdict, closed, givenUp>>
    BY <1>2, <2>2 DEF HttpInv, Http!TypeOK, QueueIsFresh, HandsAreFresh, SettledWasPosted,
       Http!SuccessMeansAcked, Http!Posted, Http!Current
  <2> QED
    BY <1>2, <2>1, <2>2, BackendPartMoves
<1>3. ASSUME part = "publish", LazyInv PROVE LazyInv'
  <2>1. CASE Lazy!Next
    BY <1>3, <2>1, LazyStep
  <2>2. CASE UNCHANGED <<sort, shared, clients, stage, using, refuses, exit, resolved, crossed>>
    BY <1>3, <2>2 DEF LazyInv, Lazy!TypeOK, OwnClient, SharedWasOpened, ExitInv, OpenIsShared
  <2> QED
    BY <1>3, <2>1, <2>2, BackendPartMoves
<1> QED
  BY <1>1, <1>2, <1>3, BackendPartMoves

\* The inductive invariants are invariants.
THEOREM BackendInvariants ==
    Spec => /\ [](part = "aws" => AwsInv)
            /\ [](part = "http" => HttpInv)
            /\ [](part = "publish" => LazyInv)
<1>1. Init => (part = "aws" => AwsInv) /\ (part = "http" => HttpInv) /\ (part = "publish" => LazyInv)
  BY AwsStarts, HttpStarts, LazyStarts
<1>2. [Next]_vars /\ (part = "aws" => AwsInv) => (part = "aws" => AwsInv)'
  BY BackendStep
<1>3. [Next]_vars /\ (part = "http" => HttpInv) => (part = "http" => HttpInv)'
  BY BackendStep
<1>4. [Next]_vars /\ (part = "publish" => LazyInv) => (part = "publish" => LazyInv)'
  BY BackendStep
<1> QED
  BY <1>1, <1>2, <1>3, <1>4, PTL DEF Spec

\* AwsQueue: what was sent to the queue, or to the topic since the queue was subscribed, is
\* visible, hidden or acknowledged, however the iterations interleave their setups.
THEOREM AwsMissesNothing == Spec => []SubscribedMissesNothing
<1>1. (part = "aws" => AwsInv) => SubscribedMissesNothing
  BY DEF SubscribedMissesNothing, AwsInv
<1> QED
  BY <1>1, BackendInvariants, PTL

\* HttpWebhook: a posted request was acked unless it is the last one of a publish() that waits,
\* was refused or timed out.
THEOREM HttpSuccessMeansAcked == Spec => []SuccessMeansAcked
<1>1. (part = "http" => HttpInv) => SuccessMeansAcked
  BY DEF SuccessMeansAcked, HttpInv
<1> QED
  BY <1>1, BackendInvariants, PTL

\* AwsQueue and LazyClient: a client that nobody closes was replaced by one that an overlapping
\* iteration or publish opened, or was opened across close().
THEOREM ClientsLeakOnlyIfOverlapped == Spec => []LeakedOnlyIfOverlapped
<1>1. (part = "aws" => AwsInv) /\ (part = "publish" => LazyInv) => LeakedOnlyIfOverlapped
  BY LazyLeaks DEF LeakedOnlyIfOverlapped, AwsInv, ClientInv
<1> QED
  BY <1>1, BackendInvariants, PTL

\* LazyClient: what a publish goes on with is ready, is closed by a publisher that refuses, or is
\* a producer of Kafka that its own publish has not started.
THEOREM PublishesFindReadyClients == Spec => []ReadyUnlessNotStarted
<1>1. (part = "publish" => LazyInv) => ReadyUnlessNotStarted
  BY LazyReady DEF ReadyUnlessNotStarted
<1> QED
  BY <1>1, BackendInvariants, PTL
=============================================================================
