--------------------------- MODULE RefinementProofs ---------------------------
(***************************************************************************)
(* The four backends of MCParts implement WorkQueue: a proof of what the   *)
(* runs check of IsWorkQueue, for any constants.                           *)
(*                                                                         *)
(* The backends with a log share the first layer: the lemmas of LogSends   *)
(* to LogLapses say which change of who has what (LogHas), and of what has *)
(* lapsed (LogLapsed), is which step of the queue.  Each backend then owes *)
(* that every step of its own is one of those.  Kafka and AWS need an      *)
(* invariant more than in BackendProofs, about who else may have a message *)
(* that is fetched: KafkaOwnerInv and AwsHandsInv.                         *)
(***************************************************************************)
EXTENDS BackendProofs

-----------------------------------------------------------------------------
(* The steps of the queue, as a backend with a log takes them              *)

\* Who has the message of each number, and which of them lapsed, for a backend with a log.
LogHas(c, x) == (x \in batch[c] \/ held[c][x] > 0) /\ (part = "kafka" => it[c] # "ended")
LogLapsed ==
    CASE part = "aws" -> lapsed
      [] part = "kafka" -> IF crashes > 0 THEN Msgs ELSE {m \in acked : m > position}
      [] OTHER -> {}

\* The hands of the abstract queue.
Hands == [m \in AllMessages |-> {c \in Consumers : Has(c, m)}]

\* The abstract state of a backend with a log, before and after a step.
LEMMA LogIsAbstract ==
    ASSUME part \in WithLog, part' = part
    PROVE  /\ MessagesSent = Log(1..published) /\ MessagesDone = Log(acked)
           /\ MessagesLapsed = Log(LogLapsed)
           /\ MessagesSent' = Log(1..published') /\ MessagesDone' = Log(acked')
           /\ MessagesLapsed' = Log(LogLapsed')
           /\ \A m \in AllMessages : m[1] \in {None} \cup Senders /\ m[2] \in Msgs /\ m = <<m[1], m[2]>>
           /\ \A x \in Msgs : <<None, x>> \in AllMessages
           /\ \A m \in AllMessages, c \in Consumers : Has(c, m) <=> m[1] = None /\ LogHas(c, m[2])
           /\ \A m \in AllMessages, c \in Consumers : Has(c, m)' <=> m[1] = None /\ LogHas(c, m[2])'
<1>1. /\ MessagesSent = Log(1..published) /\ MessagesDone = Log(acked)
      /\ MessagesLapsed = Log(LogLapsed)
  BY DEF MessagesSent, MessagesDone, MessagesLapsed, WithLog, LogLapsed, Log
<1>2. /\ MessagesSent' = Log(1..published') /\ MessagesDone' = Log(acked')
      /\ MessagesLapsed' = Log(LogLapsed')
  BY DEF MessagesSent, MessagesDone, MessagesLapsed, WithLog, LogLapsed, Log
<1>3. \A m \in AllMessages : m[1] \in {None} \cup Senders /\ m[2] \in Msgs /\ m = <<m[1], m[2]>>
  BY DEF AllMessages
<1>4. \A x \in Msgs : <<None, x>> \in AllMessages
  BY DEF AllMessages
<1>5. ASSUME NEW m \in AllMessages, NEW c \in Consumers
      PROVE  Has(c, m) <=> m[1] = None /\ LogHas(c, m[2])
  BY DEF Has, LogHas, WithLog
<1>6. ASSUME NEW m \in AllMessages, NEW c \in Consumers
      PROVE  Has(c, m)' <=> m[1] = None /\ LogHas(c, m[2])'
  BY DEF Has, LogHas, WithLog
<1> QED
  BY <1>1, <1>2, <1>3, <1>4, <1>5, <1>6

\* Publishing sends a message, and changes nothing else.
LEMMA LogSends ==
    ASSUME part \in WithLog, part' = part, published \in Nat, published' = published + 1, published' \in Msgs,
           acked' = acked, LogLapsed' = LogLapsed,
           \A c \in Consumers, x \in Msgs : LogHas(c, x)' <=> LogHas(c, x)
    PROVE  Abstract!Next
<1> DEFINE m == <<None, published'>>
<1>1. /\ m \in AllMessages /\ m \notin MessagesSent /\ MessagesSent' = MessagesSent \cup {m}
  <2>1. published' \notin 1..published /\ 1..published' = 1..published \cup {published'}
    BY CompetingAssumption
  <2> QED
    BY <2>1, LogIsAbstract DEF Log
<1>2. MessagesDone' = MessagesDone /\ MessagesLapsed' = MessagesLapsed
  BY LogIsAbstract DEF Log
<1>3. Hands' = Hands
  <2>1. \A n \in AllMessages, c \in Consumers : Has(c, n)' <=> Has(c, n)
    BY LogIsAbstract
  <2>2. AllMessages' = AllMessages
    BY DEF AllMessages, Msgs
  <2> QED
    BY <2>1, <2>2 DEF Hands
<1> QED
  BY <1>1, <1>2, <1>3 DEF Abstract!Next, Abstract!Send, Abstract!Holds, Hands

\* What holds of the log's lapsed messages, as the abstract queue wants it.
LogHolds ==
    /\ LogLapsed' \subseteq LogLapsed \cup acked'
    /\ \A x \in LogLapsed \ LogLapsed', c, d \in Consumers : LogHas(c, x)' /\ LogHas(d, x)' => c = d

\* LogHolds says of the log what Holds says of the messages.
LEMMA LogHoldsSo ==
    ASSUME part \in WithLog, part' = part, LogLapsed \subseteq Msgs, LogHolds
    PROVE  Abstract!Holds
<1>1. MessagesLapsed' \subseteq MessagesLapsed \cup MessagesDone'
  BY LogIsAbstract DEF Log, LogHolds
<1>2. ASSUME NEW m \in MessagesLapsed \ MessagesLapsed', NEW c \in Hands'[m], NEW d \in Hands'[m]
      PROVE  c = d
  <2>1. PICK x \in LogLapsed \ LogLapsed' : m = <<None, x>>
    BY <1>2, LogIsAbstract DEF Log
  <2>2. m \in AllMessages /\ AllMessages' = AllMessages
    BY <2>1, LogIsAbstract DEF AllMessages, Msgs
  <2>3. c \in Consumers /\ Has(c, m)' /\ d \in Consumers /\ Has(d, m)'
    BY <1>2, <2>2 DEF Hands
  <2>4. LogHas(c, x)' /\ LogHas(d, x)'
    BY <2>1, <2>2, <2>3, LogIsAbstract
  <2> QED
    BY <2>1, <2>3, <2>4 DEF LogHolds
<1> QED
  BY <1>1, <1>2 DEF Abstract!Holds, Hands

\* A fetch takes messages that nobody has and that are not settled, or whose hold has lapsed.
LEMMA LogTakes ==
    ASSUME part \in WithLog, part' = part, LogLapsed \subseteq Msgs, LogHolds,
           published \in 0..N, published' = published, acked' = acked,
           NEW c \in Consumers, NEW T \in SUBSET (1..published),
           \A x \in T : x \in LogLapsed \/ (x \notin acked /\ \A d \in Consumers : ~ LogHas(d, x)),
           \A d \in Consumers, x \in Msgs : LogHas(d, x)' <=> LogHas(d, x) \/ (d = c /\ x \in T)
    PROVE  Abstract!Next
<1>1. /\ Log(T) \subseteq MessagesSent /\ MessagesSent' = MessagesSent /\ MessagesDone' = MessagesDone
  BY LogIsAbstract DEF Log
<1>2. AllMessages' = AllMessages /\ \A x \in T : x \in Msgs
  BY CompetingAssumption DEF AllMessages, Msgs
<1>3. \A m \in Log(T) : m \in MessagesLapsed \/ (Hands[m] = {} /\ m \notin MessagesDone)
  BY <1>2, LogIsAbstract DEF Log, Hands
<1>4. Hands' = [m \in AllMessages |-> IF m \in Log(T) THEN Hands[m] \cup {c} ELSE Hands[m]]
  <2>1. \A m \in AllMessages, d \in Consumers : Has(d, m)' <=> Has(d, m) \/ (d = c /\ m \in Log(T))
    BY LogIsAbstract DEF Log
  <2> QED
    BY <1>2, <2>1 DEF Hands
<1>5. Abstract!Take(c, Log(T))
  BY <1>1, <1>3, <1>4 DEF Abstract!Take, Hands
<1> QED
  BY <1>1, <1>5, LogHoldsSo DEF Abstract!Next

\* A nack, a crash or the end of an iteration releases what one consumer has.
LEMMA LogReleases ==
    ASSUME part \in WithLog, part' = part, LogLapsed \subseteq Msgs, LogHolds,
           published' = published, acked' = acked,
           NEW c \in Consumers, NEW T \in SUBSET (1..published),
           \A d \in Consumers, x \in Msgs : LogHas(d, x)' <=> LogHas(d, x) /\ ~ (d = c /\ x \in T)
    PROVE  Abstract!Next
<1>1. /\ Log(T) \subseteq MessagesSent /\ MessagesSent' = MessagesSent /\ MessagesDone' = MessagesDone
  BY LogIsAbstract DEF Log
<1>2. AllMessages' = AllMessages
  BY DEF AllMessages, Msgs
<1>3. Hands' = [m \in AllMessages |-> IF m \in Log(T) THEN Hands[m] \ {c} ELSE Hands[m]]
  <2>1. \A m \in AllMessages, d \in Consumers : Has(d, m)' <=> Has(d, m) /\ ~ (d = c /\ m \in Log(T))
    BY LogIsAbstract DEF Log
  <2> QED
    BY <1>2, <2>1 DEF Hands
<1>4. Abstract!Release(c, Log(T))
  BY <1>1, <1>3 DEF Abstract!Release, Hands
<1> QED
  BY <1>1, <1>4, LogHoldsSo DEF Abstract!Next

\* An ack finishes a message; who acked it may have another copy.
LEMMA LogFinishes ==
    ASSUME part \in WithLog, part' = part, LogLapsed \subseteq Msgs, LogHolds,
           published \in 0..N, published' = published, NEW m \in 1..published, acked' = acked \cup {m},
           NEW c \in Consumers, LogHas(c, m), NEW T \in SUBSET {m},
           \A d \in Consumers, x \in Msgs : LogHas(d, x)' <=> LogHas(d, x) /\ ~ (d = c /\ x \in T)
    PROVE  Abstract!Next
<1> DEFINE n == <<None, m>>
<1>1. /\ n \in MessagesSent /\ MessagesSent' = MessagesSent /\ MessagesDone' = MessagesDone \cup {n}
  <2>1. n \in MessagesSent /\ MessagesSent' = MessagesSent
    BY LogIsAbstract DEF Log
  <2>2. MessagesDone = Log(acked) /\ MessagesDone' = Log(acked \cup {m})
    BY LogIsAbstract
  <2>3. Log(acked \cup {m}) = Log(acked) \cup {n}
    BY DEF Log
  <2> QED
    BY <2>1, <2>2, <2>3
<1>2. AllMessages' = AllMessages /\ n \in AllMessages /\ m \in Msgs
  BY CompetingAssumption DEF AllMessages, Msgs
<1>3. c \in Hands[n]
  BY <1>2, LogIsAbstract DEF Hands
<1>4. Hands' \in {Hands, [Hands EXCEPT ![n] = @ \ {c}]}
  <2>1. \A k \in AllMessages, d \in Consumers : Has(d, k)' <=> Has(d, k) /\ ~ (d = c /\ k \in Log(T))
    BY LogIsAbstract DEF Log
  <2>2. CASE T = {}
    BY <1>2, <2>1, <2>2 DEF Hands, Log
  <2>3. CASE T = {m}
    <3>1. \A k : k \in Log(T) <=> k = n
      BY <2>3 DEF Log
    <3> HIDE DEF n
    <3>2. \A k \in AllMessages, d \in Consumers : Has(d, k)' <=> Has(d, k) /\ ~ (d = c /\ k = n)
      BY <2>1, <3>1
    <3> QED
      BY <1>2, <3>2 DEF Hands
  <2> QED
    BY <2>2, <2>3
<1>5. Abstract!Finish(c, n)
  BY <1>1, <1>3, <1>4 DEF Abstract!Finish, Hands
<1> QED
  BY <1>1, <1>5, LogHoldsSo DEF Abstract!Next

\* Everybody keeps what he has.
LEMMA LogStays ==
    ASSUME part \in WithLog, part' = part, LogLapsed \subseteq Msgs, LogHolds,
           published' = published, acked' = acked,
           \A d \in Consumers, x \in Msgs : LogHas(d, x)' <=> LogHas(d, x)
    PROVE  Abstract!Next
<1>1. MessagesSent' = MessagesSent /\ MessagesDone' = MessagesDone
  BY LogIsAbstract DEF Log
<1>2. Hands' = Hands
  <2>1. \A m \in AllMessages, d \in Consumers : Has(d, m)' <=> Has(d, m)
    BY LogIsAbstract
  <2>2. AllMessages' = AllMessages
    BY DEF AllMessages, Msgs
  <2> QED
    BY <2>1, <2>2 DEF Hands
<1> QED
  BY <1>1, <1>2, LogHoldsSo DEF Abstract!Next, Hands

\* Holds lapse, and nobody is given anything.
LEMMA LogLapses ==
    ASSUME part \in WithLog, part' = part, LogLapsed \subseteq LogLapsed', LogLapsed' \subseteq Msgs,
           published' = published, acked' = acked,
           \A d \in Consumers, x \in Msgs : LogHas(d, x)' => LogHas(d, x)
    PROVE  Abstract!Next
<1>1. /\ MessagesSent' = MessagesSent /\ MessagesDone' = MessagesDone
      /\ MessagesLapsed \subseteq MessagesLapsed'
  BY LogIsAbstract DEF Log
<1>2. MessagesLapsed' \subseteq AllMessages
  BY LogIsAbstract DEF Log
<1>3. Hands' \in [AllMessages -> SUBSET Consumers] /\ \A m \in AllMessages : Hands'[m] \subseteq Hands[m]
  <2>1. \A m \in AllMessages, d \in Consumers : Has(d, m)' => Has(d, m)
    BY LogIsAbstract
  <2>2. AllMessages' = AllMessages
    BY DEF AllMessages, Msgs
  <2> QED
    BY <2>1, <2>2 DEF Hands
<1>4. Abstract!Lapse
  BY <1>1, <1>2, <1>3 DEF Abstract!Lapse, Hands
<1> QED
  BY <1>4 DEF Abstract!Next

-----------------------------------------------------------------------------
(* RedisStream                                                             *)

\* Redis: who has what when an entry of S, the batch of c from now on, was yielded.
LEMMA RedisYieldsOf ==
    ASSUME part = "redis", part' = part, RedisInv, NEW c \in Consumers, NEW S \in SUBSET Msgs, S # {},
           Redis!Yield(c, S)
    PROVE  \A d \in Consumers, x \in Msgs :
               LogHas(d, x)' <=> IF d = c THEN x \in S \/ held[c][x] > 0 ELSE LogHas(d, x)
<1>1. PICK m \in S :
             /\ held[c][m] < MaxHeld
             /\ held' \in [Consumers -> [Msgs -> 0..MaxHeld]]
             /\ batch' \in [Consumers -> SUBSET Msgs]
             /\ \A d \in Consumers : batch'[d] = IF d = c THEN S \ {m} ELSE batch[d]
             /\ \A d \in Consumers, x \in Msgs :
                   held'[d][x] = IF d = c /\ x = m THEN held[c][m] + 1 ELSE held[d][x]
  BY RedisYields
<1>2. held[c][m] \in Nat
  BY CompetingAssumption DEF RedisInv, Redis!TypeOK, Redis!CommonTypes, Redis!Msgs, Msgs
<1> QED
  BY <1>1, <1>2 DEF LogHas

\* Redis: every step is one of the abstract queue; nothing lapses.
LEMMA RedisRefines ==
    ASSUME part = "redis", part' = part, RedisInv, Redis!Next
    PROVE  Abstract!Next
<1> USE CompetingAssumption DEF Redis!Msgs, Msgs
<1>0. /\ part \in WithLog /\ LogLapsed \subseteq Msgs /\ LogHolds /\ LogLapsed' = LogLapsed
      /\ published \in Nat /\ published \in 0..N /\ read \in Nat /\ read <= published
      /\ batch \in [Consumers -> SUBSET (1..read)] /\ pel \in [Consumers -> SUBSET (1..read)]
      /\ held \in [Consumers -> [Msgs -> 0..MaxHeld]] /\ 1..read \subseteq Msgs
      /\ acked \subseteq 1..read
  BY DEF WithLog, LogLapsed, LogHolds, RedisInv, Redis!TypeOK, Redis!CommonTypes
<1>1. CASE Redis!Add
  <2>1. /\ published' = published + 1 /\ published' \in Msgs
        /\ UNCHANGED <<acked, batch, held>>
    BY <1>0, <1>1 DEF Redis!Add
  <2>2. \A d \in Consumers, x \in Msgs : LogHas(d, x)' <=> LogHas(d, x)
    BY <2>1 DEF LogHas
  <2> QED
    BY <1>0, <2>1, <2>2, LogSends
<1>2. ASSUME UNCHANGED <<published, acked, batch, held>>
      PROVE  Abstract!Next
  <2>1. \A d \in Consumers, x \in Msgs : LogHas(d, x)' <=> LogHas(d, x)
    BY <1>2 DEF LogHas
  <2> QED
    BY <1>0, <1>2, <2>1, LogStays
\* What is yielded from the pending list, or from the new entries, nobody else has.
<1>3. ASSUME NEW c \in Consumers, NEW S \in SUBSET Msgs, S # {}, S \subseteq 1..published, Redis!Yield(c, S),
             batch[c] = {}, UNCHANGED <<published, acked>>,
             \A x \in S : x \notin acked /\ \A d \in Consumers \ {c} : ~ LogHas(d, x)
      PROVE  Abstract!Next
  <2> DEFINE T == {x \in S : ~ LogHas(c, x)}
  <2>1. T \in SUBSET (1..published)
    BY <1>3
  <2>2. \A x \in T : x \notin acked /\ \A d \in Consumers : ~ LogHas(d, x)
    BY <1>3
  <2>3. \A d \in Consumers, x \in Msgs : LogHas(d, x)' <=> LogHas(d, x) \/ (d = c /\ x \in T)
    <3>1. \A d \in Consumers, x \in Msgs :
               LogHas(d, x)' <=> IF d = c THEN x \in S \/ held[c][x] > 0 ELSE LogHas(d, x)
      BY <1>3, RedisYieldsOf
    <3>2. \A x \in Msgs : LogHas(c, x) <=> held[c][x] > 0
      BY <1>3 DEF LogHas
    <3> QED
      BY <3>1, <3>2
  <2> HIDE DEF T
  <2> QED
    BY <1>0, <1>3, <2>1, <2>2, <2>3, LogTakes
<1>4. ASSUME NEW c \in Consumers, Redis!ReadPending(c)
      PROVE  Abstract!Next
  <2>1. /\ it[c] = "pending" /\ UNCHANGED <<published, acked>>
        /\ IF pel[c] # {} THEN Redis!Yield(c, Redis!First(pel[c])) ELSE UNCHANGED <<held, batch>>
    BY <1>4 DEF Redis!ReadPending
  <2>2. batch[c] = {}
    BY <2>1 DEF RedisInv, TurnStartsEmpty
  <2>3. CASE pel[c] # {}
    <3>1. pel[c] \in SUBSET Msgs /\ pel[c] \subseteq 1..published
      BY <1>0
    <3>2. /\ Redis!First(pel[c]) \in SUBSET Msgs /\ Redis!First(pel[c]) \subseteq pel[c]
          /\ Redis!First(pel[c]) # {}
      BY <2>3, <3>1, FirstOfMessages
    <3>3. \A x \in pel[c] : x \notin acked /\ \A d \in Consumers \ {c} : ~ LogHas(d, x)
      BY DEF RedisInv, Redis!OneOwner, Redis!Has, LogHas
    <3> QED
      BY <1>3, <2>1, <2>2, <2>3, <3>1, <3>2, <3>3
  <2> QED
    BY <1>2, <2>1, <2>3
<1>5. ASSUME NEW c \in Consumers, Redis!ReadNew(c)
      PROVE  Abstract!Next
  <2>1. /\ it[c] = "fresh" /\ UNCHANGED <<published, acked>>
        /\ IF Redis!Unread # {} THEN Redis!Yield(c, Redis!First(Redis!Unread)) ELSE UNCHANGED <<held, batch>>
    BY <1>5 DEF Redis!ReadNew
  <2>2. batch[c] = {}
    BY <2>1 DEF RedisInv, TurnStartsEmpty
  <2>3. CASE Redis!Unread # {}
    <3>1. Redis!Unread \in SUBSET Msgs /\ Redis!Unread \subseteq 1..published
      BY <1>0 DEF Redis!Unread
    <3>2. /\ Redis!First(Redis!Unread) \in SUBSET Msgs /\ Redis!First(Redis!Unread) \subseteq Redis!Unread
          /\ Redis!First(Redis!Unread) # {}
      BY <2>3, <3>1, FirstOfMessages
    <3>3. ASSUME NEW x \in Redis!Unread, NEW d \in Consumers
          PROVE  x \notin acked /\ ~ LogHas(d, x)
      <4>1. x \in Msgs /\ x \notin 1..read /\ ~ (x <= read)
        BY <1>0, <3>1 DEF Redis!Unread
      <4> QED
        BY <1>0, <4>1 DEF LogHas, RedisInv, HeldIsRead
    <3> QED
      BY <1>3, <2>1, <2>2, <2>3, <3>1, <3>2, <3>3
  <2> QED
    BY <1>2, <2>1, <2>3
<1>6. ASSUME NEW c \in Consumers, Redis!Ask(c)
      PROVE  Abstract!Next
  <2>1. /\ UNCHANGED <<published, acked>>
        /\ IF batch[c] # {} THEN Redis!Yield(c, batch[c]) ELSE UNCHANGED <<held, batch>>
    BY <1>6 DEF Redis!Ask
  <2>2. CASE batch[c] # {}
    <3>1. batch[c] \in SUBSET Msgs
      BY <1>0
    <3>2. \A d \in Consumers, x \in Msgs :
               LogHas(d, x)' <=> IF d = c THEN x \in batch[c] \/ held[c][x] > 0 ELSE LogHas(d, x)
      BY <2>1, <2>2, <3>1, RedisYieldsOf
    <3>3. \A d \in Consumers, x \in Msgs : LogHas(d, x)' <=> LogHas(d, x)
      BY <3>2 DEF LogHas
    <3> QED
      BY <1>0, <2>1, <3>3, LogStays
  <2> QED
    BY <1>2, <2>1, <2>2
<1>7. ASSUME NEW c \in Consumers, NEW m \in Msgs, Redis!Ack(c, m) \/ Redis!Nack(c, m)
      PROVE  Abstract!Next
  <2> DEFINE T == {x \in {m} : x \notin batch[c] /\ held[c][x] = 1}
  <2>1. /\ held[c][m] > 0 /\ held' = [held EXCEPT ![c][m] = @ - 1]
        /\ UNCHANGED <<published, batch>> /\ acked' \in {acked, acked \cup {m}}
    BY <1>7 DEF Redis!Ack, Redis!Nack, Redis!Release
  <2>2. held[c][m] \in Nat /\ \A d \in Consumers, x \in Msgs :
             held'[d][x] = IF d = c /\ x = m THEN held[c][m] - 1 ELSE held[d][x]
    BY <1>0, <2>1
  <2>3. m \in 1..published /\ LogHas(c, m)
    BY <1>0, <2>1 DEF RedisInv, HeldIsRead, LogHas
  <2>4. T \in SUBSET {m} /\ T \in SUBSET (1..published)
    BY <2>3
  <2>5. \A d \in Consumers, x \in Msgs : LogHas(d, x)' <=> LogHas(d, x) /\ ~ (d = c /\ x \in T)
    BY <2>1, <2>2 DEF LogHas
  <2> HIDE DEF T
  <2>6. CASE acked' = acked
    BY <1>0, <2>1, <2>4, <2>5, <2>6, LogReleases
  <2>7. CASE acked' = acked \cup {m}
    <3>1. PICK k \in 1..published : k = m
      BY <2>3
    <3>2. PICK U \in SUBSET {k} : U = T
      BY <2>4, <3>1
    <3>3. acked' = acked \cup {k} /\ LogHas(c, k) /\ published' = published
      BY <2>1, <2>3, <2>7, <3>1
    <3>4. \A d \in Consumers, x \in Msgs : LogHas(d, x)' <=> LogHas(d, x) /\ ~ (d = c /\ x \in U)
      BY <2>5, <3>2
    <3> HIDE DEF T, Msgs, Redis!Msgs
    <3>5. part \in WithLog /\ LogLapsed \subseteq Msgs /\ LogHolds /\ published \in 0..N
      BY <1>0
    <3> QED
      BY <3>3, <3>4, <3>5, LogFinishes
  <2> QED
    BY <2>1, <2>6, <2>7
<1>8. ASSUME NEW c \in Consumers, Redis!Close(c)
      PROVE  Abstract!Next
  BY <1>2, <1>8 DEF Redis!Close, Redis!SetClosed
<1>9. ASSUME NEW c \in Consumers, Redis!Crash(c)
      PROVE  Abstract!Next
  <2> DEFINE T == 1..published
  <2>1. /\ UNCHANGED <<published, acked>> /\ batch' = [batch EXCEPT ![c] = {}]
        /\ held' = [held EXCEPT ![c] = Redis!NothingHeld]
    BY <1>9 DEF Redis!Crash, Redis!Respawn
  <2>2. /\ batch'[c] = {} /\ \A x \in Msgs : held'[c][x] = 0
        /\ \A d \in Consumers \ {c} : batch'[d] = batch[d] /\ held'[d] = held[d]
    BY <1>0, <2>1 DEF Redis!NothingHeld
  <2>3. \A x \in Msgs : LogHas(c, x) => x \in T
    BY <1>0 DEF LogHas, RedisInv, HeldIsRead
  <2>4. T \in SUBSET (1..published)
    OBVIOUS
  <2> HIDE DEF T
  <2>5. \A d \in Consumers, x \in Msgs : LogHas(d, x)' <=> LogHas(d, x) /\ ~ (d = c /\ x \in T)
    BY <2>2, <2>3 DEF LogHas
  <2> QED
    BY <1>0, <2>1, <2>4, <2>5, LogReleases
<1> QED
  BY <1>1, <1>4, <1>5, <1>6, <1>7, <1>8, <1>9 DEF Redis!Next, Redis!Iterates, Redis!Settles

-----------------------------------------------------------------------------
(* KafkaPartition                                                          *)

\* As long as the partition was not taken from anybody, only its owner has records, and he is in
\* his loop.
KafkaOwnerInv ==
    /\ \A c \in Consumers : owner = c => it[c] # "ended"
    /\ crashes = 0 =>
         \A c \in Consumers : owner # c /\ it[c] # "ended" => \A m \in Msgs : ~ Kafka!Yields(c, m)

\* Who yields what when a record of S, the batch of c from now on, was yielded.
LEMMA KafkaYieldsOf ==
    ASSUME Kafka!TypeOK, NEW c \in Consumers, NEW S \in SUBSET (1..published), S # {},
           Kafka!YieldRecord(c, S)
    PROVE  \A d \in Consumers, x \in Msgs :
               Kafka!Yields(d, x)' <=> IF d = c THEN x \in S \/ held[c][x] > 0 ELSE Kafka!Yields(d, x)
<1> USE CompetingAssumption DEF Kafka!Msgs, Msgs
<1>1. /\ held \in [Consumers -> [Msgs -> 0..MaxHeld]] /\ MaxHeld \in Nat
      /\ batch \in [Consumers -> SUBSET (1..published)] /\ 1..published \subseteq Msgs
  BY DEF Kafka!TypeOK, Kafka!CommonTypes
<1>2. S \in SUBSET Msgs /\ Kafka!Oldest(S) = Redis!Oldest(S)
  BY <1>1 DEF Kafka!Oldest, Redis!Oldest
<1>3. Kafka!Oldest(S) \in S
  BY <1>2, OldestIsOne
<1>4. PICK m \in S : /\ held' = [held EXCEPT ![c][m] = @ + 1]
                     /\ batch' = [batch EXCEPT ![c] = S \ {m}]
  BY <1>3 DEF Kafka!Yield, Kafka!YieldRecord
<1>5. /\ m \in Msgs /\ held[c][m] \in Nat
      /\ \A d \in Consumers : batch'[d] = IF d = c THEN S \ {m} ELSE batch[d]
      /\ \A d \in Consumers, x \in Msgs :
            held'[d][x] = IF d = c /\ x = m THEN held[c][m] + 1 ELSE held[d][x]
  BY <1>1, <1>2, <1>4
<1> QED
  BY <1>5 DEF Kafka!Yields

\* What one consumer does keeps it: the others have what they had.
LEMMA KafkaOwnerActs ==
    ASSUME KafkaOwnerInv, NEW c \in Consumers,
           crashes' = crashes \/ crashes' # 0,
           owner' = owner \/ (owner = c /\ owner' = None), None \notin Consumers,
           it'[c] = "ended" => owner' # c, it[c] = "ended" => it'[c] = "ended" \/ crashes' # 0,
           \A d \in Consumers \ {c} : it'[d] = it[d],
           \A d \in Consumers \ {c}, x \in Msgs : Kafka!Yields(d, x)' => Kafka!Yields(d, x),
           crashes' = 0 /\ owner' # c /\ it'[c] # "ended" => \A x \in Msgs : ~ Kafka!Yields(c, x)'
    PROVE  KafkaOwnerInv'
BY DEF KafkaOwnerInv, Msgs

\* A rebalance and a crash are counted; before the first of them only the owner fetches.
LEMMA KafkaOwnerStep == KafkaInv /\ KafkaOwnerInv /\ Kafka!Next => KafkaOwnerInv'
<1> SUFFICES ASSUME KafkaInv, KafkaOwnerInv, Kafka!Next
             PROVE  KafkaOwnerInv'
  OBVIOUS
<1> USE CompetingAssumption, NobodyAssumption DEF Kafka!Msgs, Msgs
<1>0. /\ Kafka!TypeOK /\ None \notin Consumers
      /\ published \in Nat /\ published \in 0..N /\ position \in 0..published
      /\ batch \in [Consumers -> SUBSET (1..published)] /\ 1..published \subseteq Msgs
      /\ it \in [Consumers -> {"poll", "out", "ended"}]
      /\ held \in [Consumers -> [Msgs -> 0..MaxHeld]]
      /\ owner \in Consumers \cup {None} /\ crashes \in Nat
  BY DEF KafkaInv, Kafka!TypeOK, Kafka!CommonTypes
<1>1. CASE Kafka!Produce \/ \E c \in Consumers : Kafka!Close(c)
  BY <1>1 DEF Kafka!Produce, Kafka!Close, Kafka!SetClosed, Kafka!kafkaVars, KafkaOwnerInv, Kafka!Yields
<1>2. CASE Kafka!Rebalance
  BY <1>0, <1>2 DEF Kafka!Rebalance, KafkaOwnerInv
<1>3. ASSUME NEW c \in Consumers, Kafka!Assign(c)
      PROVE  KafkaOwnerInv'
  BY <1>0, <1>3 DEF Kafka!Assign, Kafka!commonVars, KafkaOwnerInv, Kafka!Yields
<1>4. ASSUME NEW c \in Consumers, Kafka!Poll(c)
      PROVE  KafkaOwnerInv'
  <2> DEFINE end == IF position + Batch < published THEN position + Batch ELSE published
             S == (position + 1)..end
  <2>1. /\ owner = c /\ Kafka!YieldRecord(c, S) /\ it' = [it EXCEPT ![c] = "out"]
        /\ position < published /\ UNCHANGED <<crashes, owner>>
    BY <1>4 DEF Kafka!Poll, Kafka!Goto
  <2>2. end \in Nat /\ position < end /\ end <= published
    BY <1>0, <2>1
  <2> HIDE DEF end
  <2>3. S \in SUBSET (1..published) /\ S # {}
    <3>1. position + 1 \in S
      BY <1>0, <2>2
    <3>2. \A x \in S : x \in 1..published
      BY <1>0, <2>2
    <3> QED
      BY <3>1, <3>2
  <2> HIDE DEF S
  <2>4. \A d \in Consumers, x \in Msgs :
             Kafka!Yields(d, x)' <=> IF d = c THEN x \in S \/ held[c][x] > 0 ELSE Kafka!Yields(d, x)
    BY <1>0, <2>1, <2>3, KafkaYieldsOf
  <2> QED
    BY <1>0, <2>1, <2>4, KafkaOwnerActs DEF KafkaOwnerInv
<1>5. ASSUME NEW c \in Consumers, Kafka!PollEnds(c)
      PROVE  KafkaOwnerInv'
  <2>1. /\ it' = [it EXCEPT ![c] = "ended"] /\ owner' = (IF owner = c THEN None ELSE owner)
        /\ UNCHANGED <<crashes, batch, held>>
    BY <1>5 DEF Kafka!PollEnds, Kafka!Stop, Kafka!Goto
  <2> QED
    BY <1>0, <2>1, KafkaOwnerActs DEF Kafka!Yields
<1>6. ASSUME NEW c \in Consumers, Kafka!Ask(c)
      PROVE  KafkaOwnerInv'
  <2>1. it[c] = "out" /\ crashes' = crashes
    BY <1>6 DEF Kafka!Ask
  <2>2. CASE batch[c] # {}
    <3>1. Kafka!YieldRecord(c, batch[c]) /\ UNCHANGED <<it, owner>> /\ batch[c] \in SUBSET (1..published)
      BY <1>0, <1>6, <2>2 DEF Kafka!Ask
    <3>2. \A d \in Consumers, x \in Msgs :
               Kafka!Yields(d, x)' <=> IF d = c THEN x \in batch[c] \/ held[c][x] > 0 ELSE Kafka!Yields(d, x)
      BY <1>0, <2>2, <3>1, KafkaYieldsOf
    <3>3. \A d \in Consumers, x \in Msgs : Kafka!Yields(d, x)' <=> Kafka!Yields(d, x)
      BY <3>2 DEF Kafka!Yields
    <3> QED
      BY <2>1, <3>1, <3>3 DEF KafkaOwnerInv
  <2>3. CASE batch[c] = {}
    <3>1. /\ UNCHANGED <<held, batch>>
          /\ \/ it' = [it EXCEPT ![c] = "ended"] /\ owner' = (IF owner = c THEN None ELSE owner)
             \/ it' = [it EXCEPT ![c] = "poll"] /\ owner' = owner
      BY <1>6, <2>3 DEF Kafka!Ask, Kafka!Stop, Kafka!Goto
    <3> QED
      BY <1>0, <2>1, <3>1, KafkaOwnerActs DEF Kafka!Yields, KafkaOwnerInv
  <2> QED
    BY <2>2, <2>3
<1>7. ASSUME NEW c \in Consumers, NEW m \in Msgs, Kafka!Ack(c, m) \/ Kafka!Nack(c, m) \/ Kafka!Abandon(c, m)
      PROVE  KafkaOwnerInv'
  <2>1. Kafka!Release(c, m) /\ UNCHANGED <<it, owner, crashes, batch>>
    BY <1>7 DEF Kafka!Ack, Kafka!Nack, Kafka!Abandon
  <2>2. \A d \in Consumers, x \in Msgs : held'[d][x] > 0 => held[d][x] > 0
    BY <1>0, <2>1, KafkaReleases
  <2> QED
    BY <2>1, <2>2 DEF KafkaOwnerInv, Kafka!Yields
<1>8. ASSUME NEW c \in Consumers, Kafka!Crash(c)
      PROVE  KafkaOwnerInv'
  <2>1. /\ crashes' = crashes + 1 /\ it' = [it EXCEPT ![c] = "poll"]
        /\ owner' = (IF owner = c THEN None ELSE owner)
    BY <1>8 DEF Kafka!Crash, Kafka!Respawn, Kafka!Goto
  <2> QED
    BY <1>0, <2>1 DEF KafkaOwnerInv
<1> QED
  BY <1>1, <1>2, <1>3, <1>4, <1>5, <1>6, <1>7, <1>8 DEF Kafka!Next, Kafka!Iterates, Kafka!Settles

\* A settled record that lies behind the position again, or any record after a crash, may be
\* handed out twice; a step before which nobody crashed leaves at most the owner with records.
LEMMA KafkaHolds ==
    ASSUME part = "kafka", part' = part, KafkaInv, KafkaOwnerInv', crashes' = crashes,
           owner' \in Consumers \cup {None}
    PROVE  LogHolds /\ LogLapsed \subseteq Msgs
<1> USE CompetingAssumption DEF Kafka!Msgs, Msgs
<1>1. crashes \in Nat /\ acked \subseteq 1..published /\ 1..published \subseteq Msgs
  BY DEF KafkaInv, Kafka!TypeOK, Kafka!CommonTypes
<1>2. LogLapsed \subseteq Msgs /\ LogLapsed' \subseteq LogLapsed \cup acked'
  BY <1>1 DEF LogLapsed
<1>3. ASSUME NEW x \in LogLapsed \ LogLapsed', NEW c \in Consumers, NEW d \in Consumers,
             LogHas(c, x)', LogHas(d, x)'
      PROVE  c = d
  <2>1. x \in Msgs /\ crashes' = 0
    BY <1>1, <1>2, <1>3 DEF LogLapsed
  <2>2. \A e \in Consumers : LogHas(e, x)' => Kafka!Yields(e, x)' /\ it'[e] # "ended"
    BY DEF LogHas, Kafka!Yields
  <2>3. \A e \in Consumers : LogHas(e, x)' => owner' = e
    BY <2>1, <2>2 DEF KafkaOwnerInv
  <2> QED
    BY <1>3, <2>3
<1> QED
  BY <1>2, <1>3 DEF LogHolds

\* Kafka: every step is one of the abstract queue; a crash or a rebalance lets all holds lapse.
LEMMA KafkaRefines ==
    ASSUME part = "kafka", part' = part, KafkaInv, KafkaOwnerInv, Kafka!Next
    PROVE  Abstract!Next
<1> USE CompetingAssumption, NobodyAssumption DEF Kafka!Msgs, Msgs
<1>0. /\ part \in WithLog /\ Kafka!TypeOK /\ None \notin Consumers
      /\ published \in Nat /\ published \in 0..N /\ position \in 0..published
      /\ acked \subseteq 1..published
      /\ batch \in [Consumers -> SUBSET (1..published)] /\ 1..published \subseteq Msgs
      /\ it \in [Consumers -> {"poll", "out", "ended"}]
      /\ held \in [Consumers -> [Msgs -> 0..MaxHeld]]
      /\ owner \in Consumers \cup {None} /\ crashes \in Nat
  <2>1. Kafka!TypeOK /\ part \in WithLog /\ None \notin Consumers
    BY Zenon DEF KafkaInv, WithLog
  <2>2. /\ published \in 0..N /\ position \in 0..published /\ acked \subseteq 1..published
        /\ batch \in [Consumers -> SUBSET (1..published)]
        /\ it \in [Consumers -> {"poll", "out", "ended"}]
        /\ held \in [Consumers -> [Msgs -> 0..MaxHeld]]
        /\ owner \in Consumers \cup {None} /\ crashes \in 0..MaxCrashes
    BY <2>1, Zenon DEF Kafka!TypeOK, Kafka!CommonTypes
  <2>3. published \in Nat /\ crashes \in Nat /\ 1..published \subseteq Msgs
    BY <2>2
  <2> QED
    BY <2>1, <2>2, <2>3, Zenon
<1>1. KafkaInv' /\ KafkaOwnerInv'
  BY KafkaStep, KafkaOwnerStep
<1>2. owner' \in Consumers \cup {None}
  BY <1>1 DEF KafkaInv, Kafka!TypeOK
<1>3. \A c \in Consumers, x \in Msgs : LogHas(c, x) <=> Kafka!Yields(c, x) /\ it[c] # "ended"
  BY DEF LogHas, Kafka!Yields
<1>4. \A c \in Consumers, x \in Msgs : LogHas(c, x)' <=> Kafka!Yields(c, x)' /\ it'[c] # "ended"
  BY DEF LogHas, Kafka!Yields
<1>5. \A c \in Consumers, x \in Msgs : Kafka!Yields(c, x) => x \in 1..published
  BY <1>0 DEF KafkaInv, HeldIsPublished, Kafka!Yields
<1>6. LogLapsed \subseteq Msgs /\ (crashes' = crashes => LogHolds)
  <2>1. LogLapsed \subseteq Msgs
    BY <1>0 DEF LogLapsed
  <2> QED
    BY <1>1, <1>2, <2>1, KafkaHolds
<1>7. ASSUME UNCHANGED <<published, acked, batch, held, it, crashes>>
      PROVE  Abstract!Next
  <2>1. \A d \in Consumers, x \in Msgs : LogHas(d, x)' <=> LogHas(d, x)
    BY <1>7 DEF LogHas
  <2> QED
    BY <1>0, <1>6, <1>7, <2>1, LogStays
<1>8. CASE Kafka!Produce
  <2>1. /\ published' = published + 1 /\ published' \in Msgs
        /\ UNCHANGED <<acked, batch, held, it, crashes, position>>
    BY <1>0, <1>8 DEF Kafka!Produce, Kafka!kafkaVars
  <2>2. \A d \in Consumers, x \in Msgs : LogHas(d, x)' <=> LogHas(d, x)
    BY <2>1 DEF LogHas
  <2>3. LogLapsed' = LogLapsed
    BY <2>1 DEF LogLapsed
  <2> QED
    BY <1>0, <2>1, <2>2, <2>3, LogSends
\* Everything lapses.
<1>9. ASSUME crashes' = crashes + 1, UNCHANGED <<published, acked>>,
             \A d \in Consumers, x \in Msgs : LogHas(d, x)' => LogHas(d, x)
      PROVE  Abstract!Next
  <2>1. crashes' > 0
    BY <1>0, <1>9
  <2>2. LogLapsed' = Msgs
    BY <2>1 DEF LogLapsed
  <2> QED
    BY <1>0, <1>6, <1>9, <2>2, LogLapses
<1>10. CASE Kafka!Rebalance
  <2>1. UNCHANGED <<published, acked, batch, held, it>> /\ crashes' = crashes + 1
    BY <1>10 DEF Kafka!Rebalance
  <2> QED
    BY <1>9, <2>1 DEF LogHas
<1>11. ASSUME NEW c \in Consumers, Kafka!Crash(c)
       PROVE  Abstract!Next
  <2>1. /\ UNCHANGED <<published, acked>> /\ crashes' = crashes + 1
        /\ it' = [it EXCEPT ![c] = "poll"] /\ batch' = [batch EXCEPT ![c] = {}]
        /\ held' = [held EXCEPT ![c] = Kafka!NothingHeld]
    BY <1>11 DEF Kafka!Crash, Kafka!Respawn, Kafka!Goto
  <2>2. /\ batch'[c] = {} /\ \A x \in Msgs : held'[c][x] = 0
        /\ \A d \in Consumers \ {c} : batch'[d] = batch[d] /\ held'[d] = held[d] /\ it'[d] = it[d]
    BY <1>0, <2>1 DEF Kafka!NothingHeld
  <2> QED
    BY <1>9, <2>1, <2>2 DEF LogHas
<1>12. ASSUME NEW c \in Consumers, Kafka!Assign(c) \/ Kafka!Close(c)
       PROVE  Abstract!Next
  BY <1>7, <1>12 DEF Kafka!Assign, Kafka!Close, Kafka!SetClosed, Kafka!commonVars
<1>13. ASSUME NEW c \in Consumers, Kafka!Poll(c)
       PROVE  Abstract!Next
  <2> DEFINE end == IF position + Batch < published THEN position + Batch ELSE published
             S == (position + 1)..end
  <2>1. /\ owner = c /\ Kafka!YieldRecord(c, S) /\ it[c] = "poll" /\ it' = [it EXCEPT ![c] = "out"]
        /\ position < published /\ UNCHANGED <<published, acked, crashes>>
    BY <1>13 DEF Kafka!Poll, Kafka!Goto
  <2>2. end \in Nat /\ position < end /\ end <= published
    BY <1>0, <2>1
  <2> HIDE DEF end
  <2>3. S \in SUBSET (1..published) /\ S # {} /\ \A x \in S : x > position
    <3>1. position + 1 \in S
      BY <1>0, <2>2
    <3>2. \A x \in S : x \in 1..published /\ x > position
      BY <1>0, <2>2
    <3> QED
      BY <3>1, <3>2
  <2> HIDE DEF S
  <2>4. \A d \in Consumers, x \in Msgs :
             Kafka!Yields(d, x)' <=> IF d = c THEN x \in S \/ held[c][x] > 0 ELSE Kafka!Yields(d, x)
    BY <1>0, <2>1, <2>3, KafkaYieldsOf
  <2>5. batch[c] = {}
    BY <2>1 DEF KafkaInv, PollStartsEmpty
  <2> DEFINE T == {x \in S : ~ LogHas(c, x)}
  <2>6. \A x \in T : x \in LogLapsed \/ (x \notin acked /\ \A d \in Consumers : ~ LogHas(d, x))
    <3>1. SUFFICES ASSUME NEW x \in T, x \notin LogLapsed
                   PROVE  x \notin acked /\ \A d \in Consumers : ~ LogHas(d, x)
      OBVIOUS
    <3>2. x \in Msgs /\ x > position
      BY <1>0, <2>3
    <3>3. crashes = 0 /\ x \notin acked
      BY <1>0, <3>1, <3>2 DEF LogLapsed
    <3>4. \A d \in Consumers \ {c} : ~ LogHas(d, x)
      BY <1>3, <2>1, <3>2, <3>3 DEF KafkaOwnerInv
    <3> QED
      BY <3>1, <3>3, <3>4
  <2>7. \A d \in Consumers, x \in Msgs : LogHas(d, x)' <=> LogHas(d, x) \/ (d = c /\ x \in T)
    <3>1. ASSUME NEW x \in Msgs
          PROVE  LogHas(c, x)' <=> LogHas(c, x) \/ x \in T
      BY <1>0, <1>3, <1>4, <2>1, <2>4, <2>5 DEF Kafka!Yields
    <3>2. ASSUME NEW d \in Consumers \ {c}, NEW x \in Msgs
          PROVE  LogHas(d, x)' <=> LogHas(d, x)
      BY <1>0, <1>3, <1>4, <2>1, <2>4
    <3> QED
      BY <3>1, <3>2
  <2>8. T \in SUBSET (1..published)
    BY <2>3
  <2> HIDE DEF T
  <2> QED
    BY <1>0, <1>6, <2>1, <2>6, <2>7, <2>8, LogTakes
\* The loop is left: what the consumer has is out of its hands.
<1>14. ASSUME NEW c \in Consumers, it' = [it EXCEPT ![c] = "ended"],
              UNCHANGED <<published, acked, batch, held, crashes>>
       PROVE  Abstract!Next
  <2> DEFINE T == 1..published
  <2>1. T \in SUBSET (1..published)
    OBVIOUS
  <2>2. \A d \in Consumers, x \in Msgs : Kafka!Yields(d, x)' <=> Kafka!Yields(d, x)
    BY <1>14 DEF Kafka!Yields
  <2>3. \A x \in Msgs : Kafka!Yields(c, x) => x \in T
    BY <1>5
  <2> HIDE DEF T
  <2>4. \A d \in Consumers, x \in Msgs : LogHas(d, x)' <=> LogHas(d, x) /\ ~ (d = c /\ x \in T)
    BY <1>0, <1>3, <1>4, <1>14, <2>2, <2>3
  <2> QED
    BY <1>0, <1>6, <1>14, <2>1, <2>4, LogReleases
<1>15. ASSUME NEW c \in Consumers, Kafka!PollEnds(c)
       PROVE  Abstract!Next
  BY <1>14, <1>15 DEF Kafka!PollEnds, Kafka!Stop, Kafka!Goto
<1>16. ASSUME NEW c \in Consumers, Kafka!Ask(c)
       PROVE  Abstract!Next
  <2>1. it[c] = "out" /\ UNCHANGED <<published, acked, crashes>>
    BY <1>16 DEF Kafka!Ask
  <2>2. CASE batch[c] # {}
    <3>1. Kafka!YieldRecord(c, batch[c]) /\ it' = it /\ batch[c] \in SUBSET (1..published)
      BY <1>0, <1>16, <2>2 DEF Kafka!Ask
    <3>2. \A d \in Consumers, x \in Msgs :
               Kafka!Yields(d, x)' <=> IF d = c THEN x \in batch[c] \/ held[c][x] > 0 ELSE Kafka!Yields(d, x)
      BY <1>0, <2>2, <3>1, KafkaYieldsOf
    <3>3. \A d \in Consumers, x \in Msgs : LogHas(d, x)' <=> LogHas(d, x)
      BY <1>3, <1>4, <3>1, <3>2 DEF Kafka!Yields
    <3> QED
      BY <1>0, <1>6, <2>1, <3>3, LogStays
  <2>3. CASE batch[c] = {} /\ c \in closed
    BY <1>14, <1>16, <2>3 DEF Kafka!Ask, Kafka!Stop, Kafka!Goto
  <2>4. CASE batch[c] = {} /\ c \notin closed
    <3>1. UNCHANGED <<held, batch>> /\ it' = [it EXCEPT ![c] = "poll"]
      BY <1>16, <2>4 DEF Kafka!Ask, Kafka!Goto
    <3>2. \A d \in Consumers, x \in Msgs : LogHas(d, x)' <=> LogHas(d, x)
      BY <1>0, <2>1, <3>1 DEF LogHas
    <3> QED
      BY <1>0, <1>6, <2>1, <3>2, LogStays
  <2> QED
    BY <2>2, <2>3, <2>4
<1>17. ASSUME NEW c \in Consumers, NEW m \in Msgs, Kafka!Ack(c, m) \/ Kafka!Nack(c, m) \/ Kafka!Abandon(c, m)
       PROVE  Abstract!Next
  <2> DEFINE T == {x \in {m} : x \notin batch[c] /\ held[c][x] = 1}
  <2>1. /\ held[c][m] > 0 /\ held' = [held EXCEPT ![c][m] = @ - 1]
        /\ UNCHANGED <<published, batch, it, crashes>>
        /\ acked' = acked \/ (acked' = acked \cup {m} /\ owner = c)
    BY <1>17 DEF Kafka!Ack, Kafka!Nack, Kafka!Abandon, Kafka!Release
  <2>2. held[c][m] \in Nat /\ \A d \in Consumers, x \in Msgs :
             held'[d][x] = IF d = c /\ x = m THEN held[c][m] - 1 ELSE held[d][x]
    BY <1>0, <2>1
  <2>3. m \in 1..published
    BY <1>5, <2>1 DEF Kafka!Yields
  <2>4. T \in SUBSET {m} /\ T \in SUBSET (1..published)
    BY <2>3
  <2>5. \A d \in Consumers, x \in Msgs : LogHas(d, x)' <=> LogHas(d, x) /\ ~ (d = c /\ x \in T)
    BY <2>1, <2>2 DEF LogHas
  <2> HIDE DEF T
  <2>6. CASE acked' = acked
    <3>1. part \in WithLog /\ LogLapsed \subseteq Msgs /\ LogHolds /\ published' = published
      BY <1>0, <1>6, <2>1
    <3> HIDE DEF Msgs, Kafka!Msgs
    <3> QED
      BY <2>4, <2>5, <2>6, <3>1, LogReleases
  <2>7. CASE acked' = acked \cup {m} /\ owner = c
    <3>1. PICK k \in 1..published : k = m
      BY <2>3
    <3>2. PICK U \in SUBSET {k} : U = T
      BY <2>4, <3>1
    <3>3. acked' = acked \cup {k} /\ LogHas(c, k) /\ published' = published
      BY <2>1, <2>7, <3>1 DEF LogHas, KafkaOwnerInv
    <3>4. \A d \in Consumers, x \in Msgs : LogHas(d, x)' <=> LogHas(d, x) /\ ~ (d = c /\ x \in U)
      BY <2>5, <3>2
    <3>5. part \in WithLog /\ LogLapsed \subseteq Msgs /\ LogHolds /\ published \in 0..N
      BY <1>0, <1>6, <2>1
    <3> HIDE DEF Msgs, Kafka!Msgs
    <3> QED
      BY <3>3, <3>4, <3>5, LogFinishes
  <2> QED
    BY <2>1, <2>6, <2>7
<1> QED
  BY <1>8, <1>10, <1>11, <1>12, <1>13, <1>15, <1>16, <1>17 DEF Kafka!Next, Kafka!Iterates, Kafka!Settles

-----------------------------------------------------------------------------
(* AwsQueue                                                                *)

\* An iteration of AwsQueue has a message.
AwsHas(c, m) == m \in batch[c] \/ held[c][m] > 0

\* Who has a message that can be received again, or has it twice, or shares it with another one,
\* has it past its visibility timeout.
AwsHandsInv ==
    /\ acked \cap (visible \cup hidden) = {}
    /\ \A c \in Consumers, m \in Msgs : AwsHas(c, m) /\ m \in visible => m \in lapsed
    /\ \A c, d \in Consumers, m \in Msgs : AwsHas(c, m) /\ AwsHas(d, m) /\ c # d => m \in lapsed
    /\ \A c \in Consumers, m \in Msgs : m \in batch[c] /\ held[c][m] > 0 => m \in lapsed
    /\ \A c \in Consumers : it[c] \notin {"out", "ended"} => batch[c] = {}

\* What an iteration does before it polls, or after its last message, leaves all messages alone.
LEMMA AwsHandsStay ==
    ASSUME AwsHandsInv, NEW c \in Consumers, NEW next, Aws!Goto(c, next),
           next \notin {"out", "ended"} => batch[c] = {},
           it \in [Consumers -> {"start", "opening", "queue", "policy", "subscribe", "poll", "out", "ended"}],
           UNCHANGED <<acked, batch, held, visible, hidden, lapsed>>
    PROVE  AwsHandsInv'
<1>1. \A d \in Consumers : it'[d] = IF d = c THEN next ELSE it[d]
  BY DEF Aws!Goto
<1> QED
  BY <1>1 DEF AwsHandsInv, AwsHas, Msgs

\* A reception takes visible messages, and only a timeout or a nack makes them visible again.
LEMMA AwsHandsStep == AwsInv /\ AwsHandsInv /\ Aws!Next => AwsHandsInv'
<1> SUFFICES ASSUME AwsInv, AwsHandsInv, Aws!Next
             PROVE  AwsHandsInv'
  OBVIOUS
<1> USE CompetingAssumption, NobodyAssumption DEF Aws!Msgs, Msgs
<1>0. /\ Aws!TypeOK
      /\ published \in Nat /\ published \in 0..N /\ acked \subseteq 1..published
      /\ it \in [Consumers -> {"start", "opening", "queue", "policy", "subscribe", "poll", "out", "ended"}]
      /\ batch \in [Consumers -> SUBSET (1..published)] /\ 1..published \subseteq Msgs
      /\ held \in [Consumers -> [Msgs -> 0..1]]
      /\ visible \subseteq 1..published /\ hidden \subseteq 1..published
      /\ lapsed \subseteq 1..published
      /\ visible \cap hidden = {}
  BY DEF AwsInv, Aws!TypeOK, Aws!CommonTypes
<1>1. CASE Aws!Send \/ Aws!PublishToTopic
  <2>1. /\ UNCHANGED <<acked, it, batch, held, hidden, lapsed>>
        /\ published < N /\ published' = published + 1
        /\ visible' \in {visible, visible \cup {published'}}
    BY <1>1 DEF Aws!Send, Aws!PublishToTopic, Aws!clientVars, Aws!setupVars
  <2>2. /\ published' \notin 1..published /\ published' \in Msgs
        /\ \A c \in Consumers : ~ AwsHas(c, published')
    BY <1>0, <2>1 DEF AwsHas, AwsInv, HeldIsPublished
  <2> QED
    BY <1>0, <2>1, <2>2 DEF AwsHandsInv, AwsHas
<1>2. CASE Aws!Close \/ Aws!ClientExited
  BY <1>2 DEF Aws!Close, Aws!ClientExited, Aws!commonVars, Aws!queueVars, AwsHandsInv, AwsHas
<1>3. ASSUME NEW c \in Consumers,
             Aws!GetClient(c) \/ Aws!ClientOpened(c) \/ Aws!SetsUpQueue(c) \/ Aws!ReceiveEnds(c)
      PROVE  AwsHandsInv'
  <2>1. UNCHANGED <<acked, batch, held, visible, hidden, lapsed>>
    BY <1>3 DEF Aws!GetClient, Aws!ClientOpened, Aws!SetsUpQueue, Aws!Known, Aws!MakeQueue, Aws!SetPolicy,
       Aws!SubscribeQueue, Aws!SetsUp, Aws!ReceiveEnds, Aws!awsVars, Aws!queueVars
  <2>2. it[c] \notin {"out", "ended"}
    BY <1>3 DEF Aws!GetClient, Aws!ClientOpened, Aws!SetsUpQueue, Aws!Known, Aws!MakeQueue, Aws!SetPolicy,
       Aws!SubscribeQueue, Aws!SetsUp, Aws!ReceiveEnds
  <2>3. batch[c] = {}
    BY <2>2 DEF AwsHandsInv
  <2>4. \E next : Aws!Goto(c, next)
    BY <1>3 DEF Aws!GetClient, Aws!ClientOpened, Aws!SetsUpQueue, Aws!Known, Aws!MakeQueue, Aws!SetPolicy,
       Aws!SubscribeQueue, Aws!SetsUp, Aws!ReceiveEnds
  <2> QED
    BY <1>0, <2>1, <2>3, <2>4, AwsHandsStay
<1>4. ASSUME NEW c \in Consumers, Aws!Receive(c)
      PROVE  AwsHandsInv'
  <2>1. PICK S \in Aws!Few(visible) : Aws!Hide(S) /\ Aws!Yield(c, S)
    BY <1>4 DEF Aws!Receive
  <2>2. /\ S \in SUBSET visible /\ S \in SUBSET (1..published) /\ S # {}
        /\ visible' = visible \ S /\ hidden' = hidden \cup S
        /\ UNCHANGED <<acked, lapsed>> /\ it' = [it EXCEPT ![c] = "out"] /\ it[c] = "poll"
    BY <1>0, <1>4, <2>1 DEF Aws!Receive, Aws!Few, Aws!Hide, Aws!Goto
  <2>3. batch[c] = {}
    BY <2>2 DEF AwsHandsInv
  <2>4. /\ held' \in [Consumers -> [Msgs -> 0..1]]
        /\ \A d \in Consumers \ {c} : batch'[d] = batch[d] /\ held'[d] = held[d]
        /\ \A x \in Msgs : x \in S <=> x \in batch'[c] \/ (held'[c][x] > 0 /\ held[c][x] = 0)
        /\ \A x \in Msgs : held[c][x] > 0 => held'[c][x] > 0
    BY <1>0, <2>1, <2>2, AwsYields
  <2>5. \A x \in Msgs : held[c][x] \in 0..1
    BY <1>0
  <2>6. \A d \in Consumers, x \in Msgs : AwsHas(d, x)' <=> AwsHas(d, x) \/ (d = c /\ x \in S)
    BY <2>3, <2>4, <2>5 DEF AwsHas
  <2>7. acked' \cap (visible' \cup hidden') = {}
    BY <2>2 DEF AwsHandsInv
  <2>8. ASSUME NEW d \in Consumers, NEW x \in Msgs, AwsHas(d, x)', x \in visible'
        PROVE  x \in lapsed'
    BY <2>2, <2>6, <2>8 DEF AwsHandsInv
  <2>9. ASSUME NEW d \in Consumers, NEW e \in Consumers, d # e, NEW x \in Msgs, AwsHas(d, x)', AwsHas(e, x)'
        PROVE  x \in lapsed'
    BY <2>2, <2>6, <2>9 DEF AwsHandsInv
  <2>10. ASSUME NEW d \in Consumers, NEW x \in Msgs, x \in batch'[d], held'[d][x] > 0
         PROVE  x \in lapsed'
    <3>1. CASE d = c
      <4>1. x \in S /\ held[c][x] > 0 => x \in lapsed
        BY <2>2 DEF AwsHandsInv, AwsHas
      <4>2. x \in S
        BY <2>4, <2>10, <3>1
      <4>3. held[c][x] > 0
        <5>1. PICK m \in S : held[c][m] < 1 /\ held' = [held EXCEPT ![c][m] = @ + 1] /\ batch' = [batch EXCEPT ![c] = S \ {m}]
          <6>1. S \in SUBSET Msgs /\ Aws!Oldest(S) = Redis!Oldest(S)
            BY <1>0, <2>2 DEF Aws!Oldest, Redis!Oldest
          <6>2. Aws!Oldest(S) \in S
            BY <2>2, <6>1, OldestIsOne
          <6> QED
            BY <2>1, <6>2 DEF Aws!Yield
        <5>2. x # m
          BY <1>0, <2>10, <3>1, <5>1
        <5> QED
          BY <1>0, <2>10, <3>1, <5>1, <5>2
      <4> QED
        BY <2>2, <4>1, <4>2, <4>3
    <3>2. CASE d # c
      BY <2>2, <2>4, <2>10, <3>2 DEF AwsHandsInv
    <3> QED
      BY <3>1, <3>2
  <2>11. \A d \in Consumers : it'[d] \notin {"out", "ended"} => batch'[d] = {}
    BY <1>0, <2>2, <2>4 DEF AwsHandsInv
  <2> QED
    BY <2>7, <2>8, <2>9, <2>10, <2>11 DEF AwsHandsInv
<1>5. ASSUME NEW c \in Consumers, Aws!Ask(c)
      PROVE  AwsHandsInv'
  <2>1. it[c] = "out" /\ UNCHANGED <<acked, visible, hidden, lapsed>>
    BY <1>5 DEF Aws!Ask, Aws!awsVars, Aws!queueVars
  <2>2. CASE batch[c] = {}
    BY <1>0, <1>5, <2>1, <2>2, AwsHandsStay DEF Aws!Ask
  <2>3. CASE batch[c] # {}
    <3>1. Aws!Yield(c, batch[c]) /\ it' = it /\ batch[c] \in SUBSET (1..published)
      BY <1>0, <1>5, <2>3 DEF Aws!Ask
    <3>2. PICK m \in batch[c] : /\ held[c][m] < 1
                                /\ held' = [held EXCEPT ![c][m] = @ + 1]
                                /\ batch' = [batch EXCEPT ![c] = batch[c] \ {m}]
      <4>1. batch[c] \in SUBSET Msgs /\ Aws!Oldest(batch[c]) = Redis!Oldest(batch[c])
        BY <1>0, <3>1 DEF Aws!Oldest, Redis!Oldest
      <4>2. Aws!Oldest(batch[c]) \in batch[c]
        BY <2>3, <4>1, OldestIsOne
      <4> QED
        BY <3>1, <4>2 DEF Aws!Yield
    <3>3. /\ m \in Msgs /\ held[c][m] \in 0..1
          /\ \A d \in Consumers : batch'[d] = IF d = c THEN batch[c] \ {m} ELSE batch[d]
          /\ \A d \in Consumers, x \in Msgs :
                held'[d][x] = IF d = c /\ x = m THEN held[c][m] + 1 ELSE held[d][x]
      BY <1>0, <3>1, <3>2
    <3>4. \A d \in Consumers, x \in Msgs : AwsHas(d, x)' <=> AwsHas(d, x)
      BY <3>2, <3>3 DEF AwsHas
    <3>5. \A d \in Consumers, x \in Msgs :
              x \in batch'[d] /\ held'[d][x] > 0 => x \in batch[d] /\ held[d][x] > 0
      BY <3>3
    <3>6. \A d \in Consumers : it'[d] \notin {"out", "ended"} => batch'[d] = {}
      BY <2>1, <3>1, <3>3 DEF AwsHandsInv
    <3> QED
      BY <2>1, <3>4, <3>5, <3>6 DEF AwsHandsInv
  <2> QED
    BY <2>2, <2>3
<1>6. ASSUME NEW c \in Consumers, NEW m \in Msgs, Aws!Ack(c, m) \/ Aws!Nack(c, m) \/ Aws!Abandon(c, m)
      PROVE  AwsHandsInv'
  <2>1. /\ UNCHANGED <<it, batch>> /\ Aws!Release(c, m)
        /\ \A x : x \in lapsed' <=> x \in lapsed /\ \E d \in Consumers : held'[d][x] > 0 \/ x \in batch[d]
    BY <1>6 DEF Aws!Ack, Aws!Nack, Aws!Abandon, Aws!Remember
  <2>2. /\ held[c][m] = 1 /\ held'[c][m] = 0
        /\ \A d \in Consumers, x \in Msgs : d # c \/ x # m => held'[d][x] = held[d][x]
    BY <1>0, <2>1, AwsReleases
  <2>3. /\ \A d \in Consumers, x \in Msgs : AwsHas(d, x)' => AwsHas(d, x) /\ (x \in lapsed => x \in lapsed')
        /\ AwsHas(c, m)' => m \in batch[c]
    BY <2>1, <2>2 DEF AwsHas
  <2>4. /\ acked' \cap (visible' \cup hidden') = {}
        /\ \A x \in visible' : x \in visible \/ (x = m /\ Aws!Nack(c, m))
    BY <1>0, <1>6 DEF Aws!Ack, Aws!Nack, Aws!Abandon, AwsHandsInv
  <2>5. ASSUME NEW d \in Consumers, NEW x \in Msgs, AwsHas(d, x)', x \in visible'
        PROVE  x \in lapsed'
    <3>1. CASE x \in visible
      BY <2>3, <2>5, <3>1 DEF AwsHandsInv
    <3>2. CASE x = m /\ d # c
      <4>1. AwsHas(c, m) /\ AwsHas(d, m)
        BY <2>2, <2>3, <2>5, <3>2 DEF AwsHas
      <4> QED
        BY <2>3, <2>5, <3>2, <4>1 DEF AwsHandsInv
    <3>3. CASE x = m /\ d = c
      <4>1. m \in batch[c] /\ held[c][m] > 0
        BY <2>2, <2>3, <2>5, <3>3
      <4> QED
        BY <2>3, <2>5, <3>3, <4>1 DEF AwsHandsInv
    <3> QED
      BY <2>4, <2>5, <3>1, <3>2, <3>3
  <2>6. ASSUME NEW d \in Consumers, NEW e \in Consumers, d # e, NEW x \in Msgs, AwsHas(d, x)', AwsHas(e, x)'
        PROVE  x \in lapsed'
    BY <2>3, <2>6 DEF AwsHandsInv
  <2>7. ASSUME NEW d \in Consumers, NEW x \in Msgs, x \in batch'[d], held'[d][x] > 0
        PROVE  x \in lapsed'
    <3>1. AwsHas(d, x)'
      BY <2>7 DEF AwsHas
    <3>2. x \in batch[d] /\ held[d][x] > 0
      BY <2>1, <2>2, <2>7
    <3> QED
      BY <2>3, <3>1, <3>2 DEF AwsHandsInv
  <2>8. \A d \in Consumers : it'[d] \notin {"out", "ended"} => batch'[d] = {}
    BY <2>1 DEF AwsHandsInv
  <2> QED
    BY <2>4, <2>5, <2>6, <2>7, <2>8 DEF AwsHandsInv
<1>7. ASSUME NEW m \in Msgs, Aws!TimeoutElapses(m)
      PROVE  AwsHandsInv'
  <2>1. /\ UNCHANGED <<acked, it, batch, held>>
        /\ m \in hidden /\ visible' = visible \cup {m} /\ hidden' = hidden \ {m}
        /\ lapsed' = IF Aws!InHand(m) THEN lapsed \cup {m} ELSE lapsed
    BY <1>7 DEF Aws!TimeoutElapses, Aws!commonVars
  <2>2. (\E c \in Consumers : AwsHas(c, m)) => Aws!InHand(m)
    BY DEF AwsHas, Aws!InHand, Aws!HandedTo
  <2> QED
    BY <2>1, <2>2 DEF AwsHandsInv, AwsHas
<1> QED
  BY <1>1, <1>2, <1>3, <1>4, <1>5, <1>6, <1>7 DEF Aws!Next, Aws!Iterates, Aws!Settles

\* AWS: every step is one of the abstract queue; a hold lapses with its visibility timeout.
LEMMA AwsRefines ==
    ASSUME part = "aws", part' = part, AwsInv, AwsHandsInv, Aws!Next
    PROVE  Abstract!Next
<1> USE CompetingAssumption, NobodyAssumption DEF Aws!Msgs, Msgs
<1>0. /\ part \in WithLog /\ Aws!TypeOK
      /\ published \in Nat /\ published \in 0..N /\ acked \subseteq 1..published
      /\ it \in [Consumers -> {"start", "opening", "queue", "policy", "subscribe", "poll", "out", "ended"}]
      /\ batch \in [Consumers -> SUBSET (1..published)] /\ 1..published \subseteq Msgs
      /\ held \in [Consumers -> [Msgs -> 0..1]]
      /\ visible \subseteq 1..published /\ hidden \subseteq 1..published
      /\ lapsed \subseteq 1..published
      /\ LogLapsed = lapsed /\ LogLapsed' = lapsed' /\ LogLapsed \subseteq Msgs
  BY DEF WithLog, AwsInv, Aws!TypeOK, Aws!CommonTypes, LogLapsed
<1>1. \A c \in Consumers, x \in Msgs : LogHas(c, x) <=> AwsHas(c, x)
  BY DEF LogHas, AwsHas
<1>2. \A c \in Consumers, x \in Msgs : LogHas(c, x)' <=> AwsHas(c, x)'
  BY DEF LogHas, AwsHas
<1>3. lapsed' = lapsed => LogHolds
  BY <1>0 DEF LogHolds
<1>4. ASSUME UNCHANGED <<published, acked, batch, held, lapsed>>
      PROVE  Abstract!Next
  <2>1. \A d \in Consumers, x \in Msgs : LogHas(d, x)' <=> LogHas(d, x)
    BY <1>1, <1>2, <1>4 DEF AwsHas
  <2> QED
    BY <1>0, <1>3, <1>4, <2>1, LogStays
<1>5. CASE Aws!Send \/ Aws!PublishToTopic
  <2>1. /\ UNCHANGED <<acked, batch, held, lapsed>>
        /\ published' \in Msgs /\ published' = published + 1
    BY <1>0, <1>5 DEF Aws!Send, Aws!PublishToTopic
  <2>2. \A d \in Consumers, x \in Msgs : LogHas(d, x)' <=> LogHas(d, x)
    BY <1>1, <1>2, <2>1 DEF AwsHas
  <2>3. LogLapsed' = LogLapsed
    BY <1>0, <2>1
  <2> QED
    BY <1>0, <2>1, <2>2, <2>3, LogSends
<1>6. CASE Aws!Close \/ Aws!ClientExited
  BY <1>4, <1>6 DEF Aws!Close, Aws!ClientExited, Aws!commonVars, Aws!queueVars
<1>7. ASSUME NEW c \in Consumers,
             Aws!GetClient(c) \/ Aws!ClientOpened(c) \/ Aws!SetsUpQueue(c) \/ Aws!ReceiveEnds(c)
      PROVE  Abstract!Next
  <2>1. UNCHANGED <<published, acked, batch, held, lapsed>>
    BY <1>7 DEF Aws!GetClient, Aws!ClientOpened, Aws!SetsUpQueue, Aws!Known, Aws!MakeQueue, Aws!SetPolicy,
       Aws!SubscribeQueue, Aws!SetsUp, Aws!ReceiveEnds, Aws!awsVars, Aws!queueVars
  <2> QED
    BY <1>4, <2>1
<1>8. ASSUME NEW c \in Consumers, Aws!Receive(c)
      PROVE  Abstract!Next
  <2>1. PICK S \in Aws!Few(visible) : Aws!Yield(c, S)
    BY <1>8 DEF Aws!Receive
  <2>2. /\ S \in SUBSET visible /\ S \in SUBSET (1..published) /\ S # {}
        /\ UNCHANGED <<published, acked, lapsed>> /\ it[c] = "poll"
    BY <1>0, <1>8, <2>1 DEF Aws!Receive, Aws!Few
  <2>3. batch[c] = {}
    BY <2>2 DEF AwsHandsInv
  <2>4. /\ held' \in [Consumers -> [Msgs -> 0..1]]
        /\ \A d \in Consumers \ {c} : batch'[d] = batch[d] /\ held'[d] = held[d]
        /\ \A x \in Msgs : x \in S <=> x \in batch'[c] \/ (held'[c][x] > 0 /\ held[c][x] = 0)
        /\ \A x \in Msgs : held[c][x] > 0 => held'[c][x] > 0
    BY <1>0, <2>1, <2>2, AwsYields
  <2>5. \A x \in Msgs : held[c][x] \in 0..1
    BY <1>0
  <2>6. \A d \in Consumers, x \in Msgs : LogHas(d, x)' <=> LogHas(d, x) \/ (d = c /\ x \in S)
    BY <1>1, <1>2, <2>3, <2>4, <2>5 DEF AwsHas
  <2>7. \A x \in S : x \in LogLapsed \/ (x \notin acked /\ \A d \in Consumers : ~ LogHas(d, x))
    BY <1>0, <1>1, <2>2 DEF AwsHandsInv
  <2> QED
    BY <1>0, <1>3, <2>2, <2>6, <2>7, LogTakes
<1>9. ASSUME NEW c \in Consumers, Aws!Ask(c)
      PROVE  Abstract!Next
  <2>1. UNCHANGED <<published, acked, lapsed>>
    BY <1>9 DEF Aws!Ask, Aws!awsVars, Aws!queueVars
  <2>2. CASE batch[c] = {}
    BY <1>4, <1>9, <2>1, <2>2 DEF Aws!Ask
  <2>3. CASE batch[c] # {}
    <3>1. Aws!Yield(c, batch[c]) /\ batch[c] \in SUBSET (1..published)
      BY <1>0, <1>9, <2>3 DEF Aws!Ask
    <3>2. /\ held' \in [Consumers -> [Msgs -> 0..1]]
          /\ \A d \in Consumers \ {c} : batch'[d] = batch[d] /\ held'[d] = held[d]
          /\ \A x \in Msgs : x \in batch[c] <=> x \in batch'[c] \/ (held'[c][x] > 0 /\ held[c][x] = 0)
          /\ \A x \in Msgs : held[c][x] > 0 => held'[c][x] > 0
      BY <1>0, <2>3, <3>1, AwsYields
    <3>3. \A x \in Msgs : held[c][x] \in 0..1
      BY <1>0
    <3>4. \A d \in Consumers, x \in Msgs : LogHas(d, x)' <=> LogHas(d, x)
      BY <1>1, <1>2, <3>2, <3>3 DEF AwsHas
    <3> QED
      BY <1>0, <1>3, <2>1, <3>4, LogStays
  <2> QED
    BY <2>2, <2>3
<1>10. ASSUME NEW c \in Consumers, NEW m \in Msgs, Aws!Ack(c, m) \/ Aws!Nack(c, m) \/ Aws!Abandon(c, m)
       PROVE  Abstract!Next
  <2> DEFINE T == {x \in {m} : x \notin batch[c]}
  <2>1. /\ UNCHANGED <<published, batch>> /\ Aws!Release(c, m) /\ acked' \in {acked, acked \cup {m}}
        /\ \A x : x \in lapsed' <=> x \in lapsed /\ \E d \in Consumers : held'[d][x] > 0 \/ x \in batch[d]
    BY <1>10 DEF Aws!Ack, Aws!Nack, Aws!Abandon, Aws!Remember
  <2>2. /\ held[c][m] = 1 /\ held'[c][m] = 0
        /\ \A d \in Consumers, x \in Msgs : d # c \/ x # m => held'[d][x] = held[d][x]
    BY <1>0, <2>1, AwsReleases
  <2>3. m \in 1..published
    BY <1>0, <2>2 DEF AwsInv, HeldIsPublished
  <2>4. T \in SUBSET {m} /\ T \in SUBSET (1..published)
    BY <2>3
  <2>5. \A d \in Consumers, x \in Msgs : LogHas(d, x)' <=> LogHas(d, x) /\ ~ (d = c /\ x \in T)
    BY <1>1, <1>2, <2>1, <2>2 DEF AwsHas
  <2>6. LogHolds
    <3>1. ASSUME NEW x \in lapsed \ lapsed', NEW d \in Consumers
          PROVE  ~ LogHas(d, x)'
      BY <1>0, <1>2, <2>1 DEF AwsHas
    <3> QED
      BY <1>0, <2>1, <3>1 DEF LogHolds
  <2> HIDE DEF T
  <2>7. CASE acked' = acked
    BY <1>0, <2>1, <2>4, <2>5, <2>6, <2>7, LogReleases
  <2>8. CASE acked' = acked \cup {m}
    <3>1. PICK k \in 1..published : k = m
      BY <2>3
    <3>2. PICK U \in SUBSET {k} : U = T
      BY <2>4, <3>1
    <3>3. acked' = acked \cup {k} /\ LogHas(c, k) /\ published' = published
      BY <1>1, <2>1, <2>2, <2>8, <3>1 DEF AwsHas
    <3>4. \A d \in Consumers, x \in Msgs : LogHas(d, x)' <=> LogHas(d, x) /\ ~ (d = c /\ x \in U)
      BY <2>5, <3>2
    <3>5. part \in WithLog /\ LogLapsed \subseteq Msgs /\ LogHolds /\ published \in 0..N
      BY <1>0, <2>6
    <3> HIDE DEF Msgs, Aws!Msgs
    <3> QED
      BY <3>3, <3>4, <3>5, LogFinishes
  <2> QED
    BY <2>1, <2>7, <2>8
<1>11. ASSUME NEW m \in Msgs, Aws!TimeoutElapses(m)
       PROVE  Abstract!Next
  <2>1. UNCHANGED <<published, acked, batch, held>> /\ lapsed \subseteq lapsed' /\ lapsed' \subseteq Msgs
    BY <1>0, <1>11 DEF Aws!TimeoutElapses, Aws!commonVars
  <2>2. \A d \in Consumers, x \in Msgs : LogHas(d, x)' => LogHas(d, x)
    BY <1>1, <1>2, <2>1 DEF AwsHas
  <2> QED
    BY <1>0, <2>1, <2>2, LogLapses
<1> QED
  BY <1>5, <1>6, <1>7, <1>8, <1>9, <1>10, <1>11 DEF Aws!Next, Aws!Iterates, Aws!Settles

-----------------------------------------------------------------------------
(* HttpWebhook                                                             *)

\* The abstract state of HttpWebhook, before and after a step.
LEMMA HttpIsAbstract ==
    ASSUME part = "http", part' = part, Http!TypeOK
    PROVE  /\ MessagesSent = Http!Posted /\ MessagesSent' = Http!Posted'
           /\ MessagesDone = {r \in Http!Requests : verdict[r] # "none"}
           /\ MessagesDone' = {r \in Http!Requests : verdict'[r] # "none"}
           /\ MessagesLapsed = {} /\ MessagesLapsed' = {}
           /\ Http!Requests \subseteq AllMessages /\ AllMessages' = AllMessages
           /\ \A m \in AllMessages, c \in Consumers : Has(c, m) <=> m[1] # None /\ m \in held[c]
           /\ \A m \in AllMessages, c \in Consumers : Has(c, m)' <=> m[1] # None /\ m \in held'[c]
           /\ \A r \in Http!Requests : r[1] # None
<1> USE NobodyAssumption
<1>1. /\ MessagesSent = Http!Posted /\ MessagesSent' = Http!Posted'
      /\ MessagesDone = {r \in Http!Requests : verdict[r] # "none"}
      /\ MessagesDone' = {r \in Http!Requests : verdict'[r] # "none"}
      /\ MessagesLapsed = {} /\ MessagesLapsed' = {}
  BY DEF MessagesSent, MessagesDone, MessagesLapsed, WithLog
<1>2. Http!Requests \subseteq AllMessages /\ \A r \in Http!Requests : r[1] # None
  BY DEF Http!Requests, AllMessages, Msgs
<1>3. AllMessages' = AllMessages
  BY DEF AllMessages, Msgs
<1>4. ASSUME NEW m \in AllMessages, NEW c \in Consumers
      PROVE  Has(c, m) <=> m[1] # None /\ m \in held[c]
  BY DEF Has, WithLog
<1>5. ASSUME NEW m \in AllMessages, NEW c \in Consumers
      PROVE  Has(c, m)' <=> m[1] # None /\ m \in held'[c]
  BY DEF Has, WithLog
<1> QED
  BY <1>1, <1>2, <1>3, <1>4, <1>5

\* HTTP: every step is one of the abstract queue; nothing lapses, and no request is given to
\* two iterations or twice.
LEMMA HttpRefines ==
    ASSUME part = "http", part' = part, HttpInv, Http!Next
    PROVE  Abstract!Next
<1> USE CompetingAssumption
<1>0. /\ Http!TypeOK /\ N \in Nat
      /\ posted \in [Senders -> 0..N]
      /\ queue \in Seq(Http!Requests)
      /\ held \in [Consumers -> SUBSET Http!Requests]
      /\ verdict \in [Http!Requests -> {"none", "acked", "nacked"}]
  BY DEF HttpInv, Http!TypeOK
<1>1. MessagesLapsed = {} /\ MessagesLapsed' = {} /\ Abstract!Holds
  BY <1>0, HttpIsAbstract DEF Abstract!Holds
<1>2. ASSUME UNCHANGED <<posted, held, verdict>>
      PROVE  Abstract!Next
  <2>1. MessagesSent' = MessagesSent /\ MessagesDone' = MessagesDone
    BY <1>0, <1>2, HttpIsAbstract DEF Http!Posted
  <2>2. Hands' = Hands
    BY <1>0, <1>2, HttpIsAbstract DEF Hands
  <2> QED
    BY <1>1, <2>1, <2>2 DEF Abstract!Next, Hands
<1>3. ASSUME NEW p \in Senders, Http!Post(p)
      PROVE  Abstract!Next
  <2> DEFINE new == <<p, posted[p] + 1>>
  <2>1. /\ posted[p] < N /\ posted' = [posted EXCEPT ![p] = @ + 1]
        /\ UNCHANGED <<held, verdict>>
    BY <1>3 DEF Http!Post
  <2>2. posted[p] \in Nat /\ posted[p] + 1 \in 1..N
    BY <1>0, <2>1
  <2>3. \A q \in Senders : posted'[q] = IF q = p THEN posted[p] + 1 ELSE posted[q]
    BY <1>0, <2>1, <2>2
  <2>4. new \in Http!Requests /\ new \notin Http!Posted
    BY <2>2 DEF Http!Requests, Http!Posted
  <2>5. \A r \in Http!Requests : r \in Http!Posted' <=> r \in Http!Posted \/ r = new
    <3>1. SUFFICES ASSUME NEW q \in Senders, NEW k \in 1..N
                   PROVE  k <= posted'[q] <=> k <= posted[q] \/ <<q, k>> = new
      BY DEF Http!Requests, Http!Posted
    <3>2. posted[q] \in Nat
      BY <1>0
    <3> QED
      BY <2>2, <2>3, <3>2
  <2>6. Http!Posted' = Http!Posted \cup {new}
    BY <2>4, <2>5 DEF Http!Posted
  <2> HIDE DEF new
  <2>7. /\ new \in AllMessages /\ new \notin MessagesSent /\ MessagesSent' = MessagesSent \cup {new}
        /\ MessagesDone' = MessagesDone
    BY <1>0, <2>1, <2>4, <2>6, HttpIsAbstract
  <2>8. Hands' = Hands
    BY <1>0, <2>1, HttpIsAbstract DEF Hands
  <2>9. Abstract!Send(new)
    BY <2>7, <2>8 DEF Abstract!Send, Hands
  <2> QED
    BY <1>1, <2>7, <2>9 DEF Abstract!Next
<1>4. ASSUME NEW c \in Consumers, Http!Get(c)
      PROVE  Abstract!Next
  <2>1. /\ queue # <<>> /\ held' = [held EXCEPT ![c] = @ \cup {Head(queue)}]
        /\ UNCHANGED <<posted, verdict>>
    BY <1>4 DEF Http!Get
  <2>2. Head(queue) = queue[1] /\ queue[1] \in Http!Requests /\ 1 \in 1..Len(queue)
    BY <1>0, <2>1
  <2>3. PICK r \in Http!Requests : r = queue[1]
    BY <2>2
  <2>4. \A d \in Consumers : held'[d] = IF d = c THEN held[c] \cup {r} ELSE held[d]
    BY <1>0, <2>1, <2>2, <2>3
  <2>5. r \in Http!Posted /\ verdict[r] = "none" /\ \A d \in Consumers : r \notin held[d]
    BY <2>2, <2>3 DEF HttpInv, QueueIsFresh
  <2>6. /\ {r} \in SUBSET MessagesSent /\ MessagesSent' = MessagesSent
        /\ MessagesDone' = MessagesDone /\ r \notin MessagesDone
    BY <1>0, <2>1, <2>5, HttpIsAbstract DEF Http!Posted
  <2>7. r \in AllMessages /\ Hands[r] = {}
    BY <1>0, <2>5, HttpIsAbstract DEF Hands
  <2>8. Hands' = [m \in AllMessages |-> IF m \in {r} THEN Hands[m] \cup {c} ELSE Hands[m]]
    <3>1. \A m \in AllMessages, d \in Consumers : Has(d, m)' <=> Has(d, m) \/ (d = c /\ m \in {r})
      BY <1>0, <2>4, HttpIsAbstract
    <3> QED
      BY <1>0, <3>1, HttpIsAbstract DEF Hands
  <2>9. Abstract!Take(c, {r})
    BY <2>6, <2>7, <2>8 DEF Abstract!Take, Hands
  <2> QED
    BY <1>1, <2>6, <2>9 DEF Abstract!Next
<1>5. ASSUME NEW c \in Consumers, NEW r \in Http!Requests, Http!Ack(c, r) \/ Http!Nack(c, r)
      PROVE  Abstract!Next
  <2>1. r \in held[c] /\ held' = [held EXCEPT ![c] = @ \ {r}] /\ posted' = posted
    BY <1>5 DEF Http!Ack, Http!Nack, Http!Settle
  <2>2. PICK how \in {"acked", "nacked"} : verdict' = [verdict EXCEPT ![r] = how]
    BY <1>5 DEF Http!Ack, Http!Nack, Http!Settle
  <2>3. /\ \A d \in Consumers : held'[d] = IF d = c THEN held[c] \ {r} ELSE held[d]
        /\ verdict'[r] # "none" /\ \A x \in Http!Requests \ {r} : verdict'[x] = verdict[x]
    BY <1>0, <2>1, <2>2
  <2>4. r \in Http!Posted
    BY <2>1 DEF HttpInv, HandsAreFresh
  <2>5. /\ r \in MessagesSent /\ MessagesSent' = MessagesSent
        /\ MessagesDone' = MessagesDone \cup {r}
    <3>1. \A x \in Http!Requests : verdict'[x] # "none" <=> verdict[x] # "none" \/ x = r
      BY <2>3
    <3>2. r \in MessagesSent /\ MessagesSent' = MessagesSent
      BY <1>0, <2>1, <2>4, HttpIsAbstract DEF Http!Posted
    <3>3. \A x : x \in MessagesDone' <=> x \in MessagesDone \/ x = r
      BY <1>0, <3>1, HttpIsAbstract
    <3> QED
      BY <3>2, <3>3
  <2>6. r \in AllMessages /\ c \in Hands[r]
    BY <1>0, <2>1, HttpIsAbstract DEF Hands
  <2>7. Hands' = [Hands EXCEPT ![r] = @ \ {c}]
    <3>1. \A m \in AllMessages, d \in Consumers : Has(d, m)' <=> Has(d, m) /\ ~ (d = c /\ m = r)
      BY <1>0, <2>3, HttpIsAbstract
    <3>2. AllMessages' = AllMessages
      BY <1>0, HttpIsAbstract
    <3>3. ASSUME NEW m \in AllMessages
          PROVE  {d \in Consumers : Has(d, m)'} = IF m = r THEN {d \in Consumers : Has(d, m)} \ {c}
                                                  ELSE {d \in Consumers : Has(d, m)}
      BY <3>1
    <3> QED
      BY <2>6, <3>2, <3>3 DEF Hands
  <2>8. Abstract!Finish(c, r)
    BY <2>5, <2>6, <2>7 DEF Abstract!Finish, Hands
  <2> QED
    BY <1>1, <2>5, <2>8 DEF Abstract!Next
<1>6. ASSUME NEW c \in Consumers, NEW r \in Http!Requests, Http!Abandon(c, r)
      PROVE  Abstract!Next
  <2>1. r \in held[c] /\ held' = [held EXCEPT ![c] = @ \ {r}] /\ UNCHANGED <<posted, verdict>>
    BY <1>6 DEF Http!Abandon
  <2>2. \A d \in Consumers : held'[d] = IF d = c THEN held[c] \ {r} ELSE held[d]
    BY <1>0, <2>1
  <2>3. r \in Http!Posted
    BY <2>1 DEF HttpInv, HandsAreFresh
  <2>4. {r} \in SUBSET MessagesSent /\ MessagesSent' = MessagesSent /\ MessagesDone' = MessagesDone
    BY <1>0, <2>1, <2>3, HttpIsAbstract DEF Http!Posted
  <2>5. Hands' = [m \in AllMessages |-> IF m \in {r} THEN Hands[m] \ {c} ELSE Hands[m]]
    <3>1. \A m \in AllMessages, d \in Consumers : Has(d, m)' <=> Has(d, m) /\ ~ (d = c /\ m \in {r})
      BY <1>0, <2>2, HttpIsAbstract
    <3> QED
      BY <1>0, <3>1, HttpIsAbstract DEF Hands
  <2>6. Abstract!Release(c, {r})
    BY <2>4, <2>5 DEF Abstract!Release, Hands
  <2> QED
    BY <1>1, <2>4, <2>6 DEF Abstract!Next
<1>7. ASSUME NEW p \in Senders, Http!Respond(p) \/ Http!SenderTimesOut(p)
      PROVE  Abstract!Next
  BY <1>2, <1>7 DEF Http!Respond, Http!SenderTimesOut
<1>8. ASSUME NEW c \in Consumers, Http!GetTimesOut(c) \/ Http!Ask(c)
      PROVE  Abstract!Next
  BY <1>2, <1>8 DEF Http!GetTimesOut, Http!Ask
<1>9. CASE Http!Close
  BY <1>2, <1>9 DEF Http!Close
<1> QED
  BY <1>3, <1>4, <1>5, <1>6, <1>7, <1>8, <1>9 DEF Http!Next, Http!Iterates, Http!Settles

-----------------------------------------------------------------------------
(* The refinement                                                          *)

\* What the refinement needs of the state.
QueueInv ==
    /\ part = "redis" => RedisInv
    /\ part = "kafka" => KafkaInv /\ KafkaOwnerInv
    /\ part = "aws" => AwsInv /\ AwsHandsInv
    /\ part = "http" => HttpInv

\* The abstract queue is empty at first.
LEMMA QueueStarts == Init => QueueInv /\ Abstract!Init
<1> SUFFICES ASSUME Init
             PROVE  QueueInv /\ Abstract!Init
  OBVIOUS
<1> USE CompetingAssumption, NobodyAssumption DEF Msgs
<1>1. /\ part = "redis" => RedisInv
      /\ part = "kafka" => KafkaInv
      /\ part = "aws" => AwsInv
      /\ part = "http" => HttpInv
  BY LogInit, AwsStarts, HttpStarts
<1>2. ASSUME part \in WithLog
      PROVE  /\ published = 0 /\ acked = {}
             /\ \A c \in Consumers : batch[c] = {} /\ \A x \in Msgs : held[c][x] = 0
             /\ part = "aws" => visible = {} /\ hidden = {} /\ lapsed = {}
             /\ part = "kafka" => owner = None /\ crashes = 0 /\ it = [c \in Consumers |-> "poll"]
  <2>1. CASE part = "redis"
    BY <2>1 DEF Init, Redis!Init, Redis!CommonInit, Redis!NothingHeld, Redis!Msgs
  <2>2. CASE part = "kafka"
    BY <2>2 DEF Init, Kafka!Init, Kafka!CommonInit, Kafka!NothingHeld, Kafka!Msgs
  <2>3. CASE part = "aws"
    BY <2>3 DEF Init, Aws!Init, Aws!CommonInit, Aws!NothingHeld, Aws!Msgs
  <2> QED
    BY <1>2, <2>1, <2>2, <2>3 DEF WithLog
<1>3. part = "kafka" => KafkaOwnerInv
  BY <1>2 DEF KafkaOwnerInv, Kafka!Yields, Kafka!Msgs, WithLog
<1>4. part = "aws" => AwsHandsInv
  BY <1>2 DEF AwsHandsInv, AwsHas, WithLog
<1>5. MessagesSent = {} /\ MessagesDone = {} /\ MessagesLapsed = {}
  <2>1. CASE part \in WithLog
    <3>1. 1..published = {} /\ (crashes = 0 => {m \in acked : m > position} = {})
      BY <1>2, <2>1
    <3> QED
      BY <1>2, <2>1, <3>1 DEF MessagesSent, MessagesDone, MessagesLapsed, WithLog, Log
  <2>2. CASE part = "http"
    <3>1. posted = [p \in Senders |-> 0] /\ verdict = [r \in Http!Requests |-> "none"]
      BY <2>2 DEF Init, Http!Init
    <3>2. Http!Posted = {}
      BY <3>1 DEF Http!Posted, Http!Requests
    <3> QED
      BY <2>2, <3>1, <3>2 DEF MessagesSent, MessagesDone, MessagesLapsed, WithLog
  <2>3. CASE part \notin WithLog \cup {"http"}
    BY <2>3 DEF MessagesSent, MessagesDone, MessagesLapsed, WithLog
  <2> QED
    BY <2>1, <2>2, <2>3
<1>6. ASSUME NEW m \in AllMessages, NEW c \in Consumers
      PROVE  ~ Has(c, m)
  <2>1. CASE part \in WithLog
    BY <1>2, <2>1 DEF Has, AllMessages, WithLog
  <2>2. CASE part = "http"
    <3>1. held = [i \in Consumers |-> {}]
      BY <2>2 DEF Init, Http!Init
    <3> QED
      BY <2>2, <3>1 DEF Has, WithLog
  <2>3. CASE part \notin WithLog \cup {"http"}
    BY <2>3 DEF Has
  <2> QED
    BY <2>1, <2>2, <2>3
<1> QED
  BY <1>1, <1>3, <1>4, <1>5, <1>6 DEF QueueInv, Abstract!Init

\* A step of a backend is one of the abstract queue; a step of anything else stutters.
LEMMA QueueStep == QueueInv /\ [Next]_vars => QueueInv' /\ [Abstract!Next]_Abstract!vars
<1> SUFFICES ASSUME QueueInv, [Next]_vars
             PROVE  QueueInv' /\ [Abstract!Next]_Abstract!vars
  OBVIOUS
<1>1. part' = part
  BY LogPartMoves
<1>2. CASE part \notin WithLog \cup {"http"}
  <2>1. QueueInv'
    BY <1>1, <1>2 DEF QueueInv, WithLog
  <2>2. /\ MessagesSent' = MessagesSent /\ MessagesDone' = MessagesDone
        /\ MessagesLapsed' = MessagesLapsed
    BY <1>1, <1>2 DEF MessagesSent, MessagesDone, MessagesLapsed, WithLog
  <2>3. Hands' = Hands
    <3>1. \A m \in AllMessages, c \in Consumers : ~ Has(c, m) /\ ~ Has(c, m)'
      BY <1>1, <1>2 DEF Has, WithLog
    <3>2. AllMessages' = AllMessages
      BY DEF AllMessages, Msgs
    <3> QED
      BY <3>1, <3>2 DEF Hands
  <2>4. UNCHANGED Abstract!vars
    BY <2>2, <2>3 DEF Abstract!vars, Hands
  <2> QED
    BY <2>1, <2>4
<1>3. CASE UNCHANGED vars
  <2>1. /\ (part = "redis" => RedisInv)' /\ (part = "kafka" => KafkaInv)'
        /\ (part = "aws" => AwsInv)' /\ (part = "http" => HttpInv)'
    BY LogStep, BackendStep DEF QueueInv
  <2>2. UNCHANGED <<part, acked, it, batch, held, crashes, owner, visible, hidden, lapsed>>
    BY <1>3 DEF vars, commonVars, kafkaVars, awsVars
  <2>3. (KafkaOwnerInv => KafkaOwnerInv') /\ (AwsHandsInv => AwsHandsInv')
    BY <2>2 DEF KafkaOwnerInv, AwsHandsInv, AwsHas, Kafka!Yields, Msgs
  <2>4. QueueInv'
    BY <1>1, <2>1, <2>3 DEF QueueInv
  <2>5. UNCHANGED <<published, posted, verdict, position>>
    BY <1>3 DEF vars, commonVars, kafkaVars, httpVars
  <2>6. /\ MessagesSent' = MessagesSent /\ MessagesDone' = MessagesDone
        /\ MessagesLapsed' = MessagesLapsed
    BY <2>2, <2>5 DEF MessagesSent, MessagesDone, MessagesLapsed, WithLog, Log, Msgs, Http!Posted, Http!Requests
  <2>7. Hands' = Hands
    <3>1. \A m \in AllMessages, c \in Consumers : Has(c, m)' <=> Has(c, m)
      BY <2>2 DEF Has, WithLog
    <3>2. AllMessages' = AllMessages
      BY DEF AllMessages, Msgs
    <3> QED
      BY <3>1, <3>2 DEF Hands
  <2>8. UNCHANGED Abstract!vars
    BY <2>6, <2>7 DEF Abstract!vars, Hands
  <2> QED
    BY <2>4, <2>8
<1>4. ASSUME part = "redis", Redis!Next
      PROVE  QueueInv' /\ Abstract!Next
  BY <1>1, <1>4, RedisStep, RedisRefines DEF QueueInv
<1>5. ASSUME part = "kafka", Kafka!Next
      PROVE  QueueInv' /\ Abstract!Next
  BY <1>1, <1>5, KafkaStep, KafkaOwnerStep, KafkaRefines DEF QueueInv
<1>6. ASSUME part = "aws", Aws!Next
      PROVE  QueueInv' /\ Abstract!Next
  BY <1>1, <1>6, AwsStep, AwsHandsStep, AwsRefines DEF QueueInv
<1>7. ASSUME part = "http", Http!Next
      PROVE  QueueInv' /\ Abstract!Next
  BY <1>1, <1>7, HttpStep, HttpRefines DEF QueueInv
<1> QED
  BY <1>2, <1>3, <1>4, <1>5, <1>6, <1>7 DEF Next, Of, WithLog

\* Redis Streams, Kafka, SQS, SNS and the HTTP webhook all implement the work queue, for any
\* consumers, senders, messages and crashes: what one took no other one is given, nor is it
\* given again when it is done, unless the backend's hold on it lapsed.
THEOREM BackendsImplementWorkQueue == Spec => IsWorkQueue
<1>1. Init => QueueInv /\ Abstract!Init
  BY QueueStarts
<1>2. QueueInv /\ [Next]_vars => QueueInv' /\ [Abstract!Next]_Abstract!vars
  BY QueueStep
<1> QED
  BY <1>1, <1>2, PTL DEF Spec, IsWorkQueue, Abstract!Spec

-----------------------------------------------------------------------------
(* What the backends inherit from the queue                                *)

Inherited == INSTANCE WorkQueueProofs WITH
    Messages <- AllMessages,
    sent <- MessagesSent, done <- MessagesDone, lapsed <- MessagesLapsed,
    hands <- [m \in AllMessages |-> {c \in Consumers : Has(c, m)}]

\* Nobody has a message that was not sent, and two consumers have the same one only if the
\* backend's hold on it has lapsed.
InOneHand ==
    \A m \in AllMessages, c, d \in Consumers :
        /\ Has(c, m) => m \in MessagesSent
        /\ Has(c, m) /\ Has(d, m) => c = d \/ m \in MessagesLapsed

\* Fetched or in an application, a message is with one consumer: in Redis and HTTP always, in
\* SQS until its visibility timeout elapses, in Kafka until a crash, a rebalance or a seek to
\* before what is committed.
THEOREM BackendsKeepInOneHand == Spec => []InOneHand
<1>1. Spec => Inherited!Spec
  <2>1. Abstract!Init => Inherited!Init
    BY DEF Abstract!Init, Inherited!Init
  <2>2. [Abstract!Next]_Abstract!vars => [Inherited!Next]_Inherited!vars
    BY DEF Abstract!Next, Abstract!vars, Abstract!Send, Abstract!Take, Abstract!Release,
           Abstract!Finish, Abstract!Holds, Abstract!Lapse,
           Inherited!Next, Inherited!vars, Inherited!Send, Inherited!Take, Inherited!Release,
           Inherited!Finish, Inherited!Holds, Inherited!Lapse
  <2> QED
    BY <2>1, <2>2, BackendsImplementWorkQueue, PTL DEF IsWorkQueue, Abstract!Spec, Inherited!Spec
<1>2. Spec => []Inherited!Exclusive
  BY <1>1, Inherited!Exclusion, PTL
<1>3. Inherited!Exclusive => InOneHand
  BY DEF Inherited!Exclusive, InOneHand
<1> QED
  BY <1>2, <1>3, PTL
===============================================================================
