--------------------------- MODULE InMemoryProofs ---------------------------
(***************************************************************************)
(* What InMemoryPubSub keeps for any topics, subscriptions, publishers,    *)
(* closers, batches and buffer sizes.                                      *)
(***************************************************************************)
EXTENDS MCInMemoryPubSub, SequenceTheorems, TLAPS

-----------------------------------------------------------------------------
(* Sequences whose elements differ                                         *)

\* RemoveFirst takes the element at the only place it has and moves up what is behind.
LEMMA RemoveFirstAt ==
    ASSUME NEW S, NEW seq \in Seq(S), NEW k \in 1..Len(seq), IsInjective(seq)
    PROVE  LET r == RemoveFirst(seq, seq[k]) IN
               /\ r \in Seq(S) /\ Len(r) = Len(seq) - 1
               /\ \A i \in 1..(Len(seq) - 1) : r[i] = IF i < k THEN seq[i] ELSE seq[i + 1]
<1> DEFINE I == {i \in 1..Len(seq) : seq[i] = seq[k]}
<1>1. Len(seq) \in Nat /\ DOMAIN seq = 1..Len(seq) /\ \A i \in 1..Len(seq) : seq[i] \in S
  BY LenProperties, ElementOfSeq
<1>2. I = {k}
  BY <1>1 DEF IsInjective
<1>3. Min({k}) = k
  BY <1>1 DEF Min
<1>4. SelectInSeq(seq, LAMBDA v : v = seq[k]) = k
  BY <1>2, <1>3 DEF SelectInSeq
<1>5. RemoveFirst(seq, seq[k]) = SubSeq(seq, 1, k - 1) \o SubSeq(seq, k + 1, Len(seq))
  BY <1>4 DEF RemoveFirst, RemoveAt
<1> DEFINE a == SubSeq(seq, 1, k - 1)
           b == SubSeq(seq, k + 1, Len(seq))
<1>6. a \in Seq(S) /\ Len(a) = k - 1 /\ \A i \in 1..(k - 1) : a[i] = seq[i]
  <2>1. \A i \in 1..(k - 1) : seq[i] \in S
    BY <1>1
  <2>2. 1 \in Int /\ k - 1 \in Int
    BY <1>1
  <2> HIDE DEF a
  <2>3. /\ a \in Seq(S)
        /\ Len(a) = IF 1 <= k - 1 THEN k - 1 - 1 + 1 ELSE 0
        /\ \A i \in 1..(k - 1 - 1 + 1) : a[i] = seq[1 + i - 1]
    BY <2>1, <2>2, SubSeqProperties DEF a
  <2> QED
    BY <1>1, <2>3
<1>7. b \in Seq(S) /\ Len(b) = Len(seq) - k /\ \A i \in 1..(Len(seq) - k) : b[i] = seq[k + i]
  <2>1. \A i \in (k + 1)..Len(seq) : seq[i] \in S
    BY <1>1
  <2>2. k + 1 \in Int /\ Len(seq) \in Int
    BY <1>1
  <2> HIDE DEF b
  <2>3. /\ b \in Seq(S)
        /\ Len(b) = IF k + 1 <= Len(seq) THEN Len(seq) - (k + 1) + 1 ELSE 0
        /\ \A i \in 1..(Len(seq) - (k + 1) + 1) : b[i] = seq[k + 1 + i - 1]
    BY <2>1, <2>2, SubSeqProperties DEF b
  <2>4. \A i \in 1..(Len(seq) - k) : i \in 1..(Len(seq) - (k + 1) + 1) /\ k + 1 + i - 1 = k + i
    BY <1>1
  <2>5. \A i \in 1..(Len(seq) - k) : b[i] = seq[k + i]
    BY <2>3, <2>4
  <2>6. Len(b) = Len(seq) - k
    <3>1. Len(b) = IF k + 1 <= Len(seq) THEN Len(seq) - (k + 1) + 1 ELSE 0
      BY <2>3, Zenon
    <3>2. Len(seq) \in Nat /\ k \in Nat /\ k <= Len(seq)
      BY <1>1
    <3> HIDE DEF I
    <3> QED
      BY <3>1, <3>2
  <2> QED
    BY <2>3, <2>5, <2>6 DEF b
<1> HIDE DEF a, b
<1>8. /\ a \o b \in Seq(S) /\ Len(a \o b) = Len(a) + Len(b)
      /\ \A i \in 1..(Len(a) + Len(b)) : (a \o b)[i] = IF i <= Len(a) THEN a[i] ELSE b[i - Len(a)]
  BY <1>6, <1>7, ConcatProperties
<1> DEFINE r == RemoveFirst(seq, seq[k])
<1>9. r = a \o b
  BY <1>5 DEF a, b
<1> HIDE DEF r
<1>10. r \in Seq(S) /\ Len(r) = Len(seq) - 1
  <2>1. r \in Seq(S) /\ Len(r) = Len(a) + Len(b)
    BY <1>8, <1>9, Zenon
  <2>2. Len(a) = k - 1 /\ Len(b) = Len(seq) - k
    BY <1>6, <1>7, Zenon
  <2> QED
    BY <1>1, <2>1, <2>2
<1>11. ASSUME NEW i \in 1..(Len(seq) - 1)
       PROVE  r[i] = IF i < k THEN seq[i] ELSE seq[i + 1]
  <2>1. r[i] = IF i <= Len(a) THEN a[i] ELSE b[i - Len(a)]
    BY <1>1, <1>6, <1>7, <1>8, <1>9
  <2>2. CASE i < k
    BY <1>1, <1>6, <2>1, <2>2
  <2>3. CASE i >= k
    <3>1. i - (k - 1) \in 1..(Len(seq) - k) /\ k + (i - (k - 1)) = i + 1
      BY <1>1, <2>3
    <3>2. b[i - (k - 1)] = seq[i + 1]
      BY <1>7, <3>1
    <3> QED
      BY <1>1, <1>6, <2>1, <2>3, <3>2
  <2> QED
    BY <1>1, <2>2, <2>3
<1> QED
  BY <1>10, <1>11 DEF r

\* Without the element there is nothing to remove.
LEMMA RemoveFirstAbsent ==
    ASSUME NEW S, NEW seq \in Seq(S), NEW m, m \notin ToSet(seq)
    PROVE  RemoveFirst(seq, m) = seq
<1>1. DOMAIN seq = 1..Len(seq)
  BY LenProperties
<1>2. ~ \E i \in 1..Len(seq) : seq[i] = m
  BY <1>1 DEF ToSet
<1> QED
  BY <1>2 DEF RemoveFirst

\* What RemoveFirst leaves: everything else, once.
LEMMA RemoveFirstRemoves ==
    ASSUME NEW S, NEW seq \in Seq(S), NEW m, IsInjective(seq)
    PROVE  /\ RemoveFirst(seq, m) \in Seq(S) /\ IsInjective(RemoveFirst(seq, m))
           /\ ToSet(RemoveFirst(seq, m)) = ToSet(seq) \ {m}
           /\ Len(RemoveFirst(seq, m)) <= Len(seq)
<1>1. Len(seq) \in Nat /\ DOMAIN seq = 1..Len(seq)
  BY LenProperties
<1>2. CASE \E k \in 1..Len(seq) : seq[k] = m
  <2>1. PICK k \in 1..Len(seq) : seq[k] = m
    BY <1>2
  <2> DEFINE r == RemoveFirst(seq, m)
  <2>2. /\ r \in Seq(S) /\ Len(r) = Len(seq) - 1
        /\ \A i \in 1..(Len(seq) - 1) : r[i] = IF i < k THEN seq[i] ELSE seq[i + 1]
    BY <2>1, RemoveFirstAt
  <2> HIDE DEF r
  <2>3. DOMAIN r = 1..(Len(seq) - 1)
    BY <2>2, LenProperties
  <2>4. IsInjective(r)
    <3>1. ASSUME NEW i \in 1..(Len(seq) - 1), NEW j \in 1..(Len(seq) - 1), r[i] = r[j]
          PROVE  i = j
      <4> DEFINE place(x) == IF x < k THEN x ELSE x + 1
      <4>1. place(i) \in DOMAIN seq /\ place(j) \in DOMAIN seq
        BY <1>1
      <4>2. seq[place(i)] = seq[place(j)]
        BY <2>2, <3>1
      <4>3. place(i) = place(j)
        BY <4>1, <4>2, Zenon DEF IsInjective
      <4> QED
        BY <1>1, <4>3
    <3> QED
      BY <2>3, <3>1 DEF IsInjective
  <2>5. ToSet(r) \subseteq ToSet(seq) \ {m}
    <3>1. ASSUME NEW i \in 1..(Len(seq) - 1)
          PROVE  r[i] \in ToSet(seq) \ {m}
      <4>1. PICK j \in 1..Len(seq) : j # k /\ r[i] = seq[j]
        <5>1. i \in 1..Len(seq) /\ i + 1 \in 1..Len(seq)
          BY <1>1
        <5>2. CASE i < k
          BY <2>2, <5>1, <5>2
        <5>3. CASE ~ (i < k)
          <6>1. i + 1 # k
            BY <5>3
          <6> QED
            BY <2>2, <5>1, <5>3, <6>1
        <5> QED
          BY <5>2, <5>3
      <4>2. seq[j] # seq[k]
        BY <1>1, <4>1, Zenon DEF IsInjective
      <4> QED
        BY <1>1, <2>1, <4>1, <4>2, Zenon DEF ToSet
    <3> QED
      BY <2>3, <3>1, Zenon DEF ToSet
  <2>6. ASSUME NEW x \in ToSet(seq) \ {m}
        PROVE  x \in ToSet(r)
    <3>1. PICK j \in 1..Len(seq) : seq[j] = x
      BY <1>1 DEF ToSet
    <3>2. CASE j < k
      <4>1. j \in 1..(Len(seq) - 1) /\ r[j] = x
        BY <1>1, <2>2, <3>1, <3>2
      <4> QED
        BY <4>1, <2>3 DEF ToSet
    <3>3. CASE j > k
      <4>1. j - 1 \in 1..(Len(seq) - 1) /\ r[j - 1] = x
        BY <1>1, <2>2, <3>1, <3>3
      <4> QED
        BY <4>1, <2>3 DEF ToSet
    <3> QED
      BY <1>1, <2>1, <3>1, <3>2, <3>3
  <2> QED
    BY <2>2, <2>4, <2>5, <2>6 DEF r
<1>3. CASE ~ \E k \in 1..Len(seq) : seq[k] = m
  <2>1. RemoveFirst(seq, m) = seq
    BY <1>3 DEF RemoveFirst
  <2>2. m \notin ToSet(seq)
    BY <1>1, <1>3 DEF ToSet
  <2> QED
    BY <2>1, <2>2
<1> QED
  BY <1>2, <1>3

\* A new element at the end.
LEMMA AppendAdds ==
    ASSUME NEW S, NEW seq \in Seq(S), NEW m \in S \ ToSet(seq), IsInjective(seq)
    PROVE  /\ Append(seq, m) \in Seq(S) /\ IsInjective(Append(seq, m))
           /\ ToSet(Append(seq, m)) = ToSet(seq) \cup {m}
<1> DEFINE r == Append(seq, m)
<1>1. Len(seq) \in Nat /\ DOMAIN seq = 1..Len(seq)
  BY LenProperties
<1>2. /\ r \in Seq(S) /\ Len(r) = Len(seq) + 1
      /\ \A i \in 1..Len(seq) : r[i] = seq[i]
      /\ r[Len(seq) + 1] = m
  BY AppendProperties
<1> HIDE DEF r
<1>3. DOMAIN r = 1..(Len(seq) + 1)
  BY <1>2, LenProperties
<1>4. IsInjective(r)
  BY <1>1, <1>2, <1>3 DEF IsInjective, ToSet
<1>5. ToSet(r) \subseteq ToSet(seq) \cup {m}
  BY <1>1, <1>2, <1>3 DEF ToSet
<1>6. ToSet(seq) \subseteq ToSet(r)
  BY <1>1, <1>2, <1>3 DEF ToSet
<1>7. m \in ToSet(r)
  BY <1>1, <1>2, <1>3 DEF ToSet
<1> QED
  BY <1>2, <1>4, <1>5, <1>6, <1>7 DEF r


\* All but the first.
LEMMA TailRemoves ==
    ASSUME NEW S, NEW seq \in Seq(S), seq # <<>>, IsInjective(seq)
    PROVE  /\ Head(seq) \in ToSet(seq) /\ Head(seq) \in S
           /\ Tail(seq) \in Seq(S) /\ IsInjective(Tail(seq))
           /\ ToSet(Tail(seq)) = ToSet(seq) \ {Head(seq)}
<1>1. /\ Len(seq) \in Nat /\ DOMAIN seq = 1..Len(seq) /\ Len(seq) > 0 /\ Head(seq) = seq[1]
  BY EmptySeq, LenProperties
<1> DEFINE r == Tail(seq)
<1>2. /\ Head(seq) \in S /\ r \in Seq(S) /\ Len(r) = Len(seq) - 1
      /\ \A i \in 1..Len(r) : r[i] = seq[i + 1]
  BY HeadTailProperties
<1> HIDE DEF r
<1>3. DOMAIN r = 1..(Len(seq) - 1)
  BY <1>2, LenProperties
<1>4. IsInjective(r)
  <2>1. ASSUME NEW i \in 1..(Len(seq) - 1), NEW j \in 1..(Len(seq) - 1), r[i] = r[j]
        PROVE  i = j
    <3>1. i + 1 \in DOMAIN seq /\ j + 1 \in DOMAIN seq /\ seq[i + 1] = seq[j + 1]
      BY <1>1, <1>2, <2>1
    <3>2. i + 1 = j + 1
      BY <3>1, Zenon DEF IsInjective
    <3> QED
      BY <1>1, <3>2
  <2> QED
    BY <1>3, <2>1 DEF IsInjective
<1>5. ToSet(r) \subseteq ToSet(seq) \ {Head(seq)}
  BY <1>1, <1>2, <1>3 DEF IsInjective, ToSet
<1>6. ASSUME NEW x \in ToSet(seq) \ {Head(seq)}
      PROVE  x \in ToSet(r)
  <2>1. PICK j \in 1..Len(seq) : seq[j] = x
    BY <1>1 DEF ToSet
  <2>2. j - 1 \in 1..(Len(seq) - 1) /\ r[j - 1] = x
    BY <1>1, <1>2, <2>1
  <2> QED
    BY <2>2, <1>3 DEF ToSet
<1>7. Head(seq) \in ToSet(seq)
  BY <1>1 DEF ToSet
<1> QED
  BY <1>2, <1>4, <1>5, <1>6, <1>7 DEF r

-----------------------------------------------------------------------------
(* The inductive invariant of the types and of backpressure                *)

\* A subscription is listed once, under its own topic, and only after subscribe().
ListedOnce ==
    \A t \in Topics : /\ IsInjective(subscribers[t])
                      /\ \A s \in ToSet(subscribers[t]) : TopicOf[s] = t /\ it[s] # "none"
\* A publisher waits at one stream, once, with a message of its batch.
WaitsOnce ==
    \A s \in Subs : /\ IsInjective(senders[s])
                    /\ \A p \in ToSet(senders[s]) :
                          pc[p] = "blocked" /\ at[p] = s /\ HasMessage(p)
\* A receiver sleeps on a stream that has nothing for it.
SleepsEmpty == \A s \in Subs : it[s] = "wait" => buffer[s] = <<>> /\ senders[s] = <<>>
\* What is handed over is one item.
InboxHoldsOne == \A s \in Subs : inbox[s] # <<>> => Len(inbox[s]) = 1
\* A subscription that cleaned up has closed its send stream.
DepartedIsClosed == \A s \in Subs : it[s] \in {"unsent", "zombie", "done"} => s \in sendClosed

Positive == Nat \ {0}

ListTypes ==
    /\ closed \in BOOLEAN /\ topics \in SUBSET Topics
    /\ subscribers \in [Topics -> Seq(Subs)] /\ ListedOnce
IterTypes ==
    /\ it \in [Subs -> IterStates] /\ DepartedIsClosed
    /\ sendClosed \in SUBSET Subs /\ recvClosed \in SUBSET Subs
StreamTypes ==
    /\ buffer \in [Subs -> Seq(Message)] /\ inbox \in [Subs -> Seq(Message)]
    /\ received \in [Subs -> Seq(Message)]
    /\ Backpressure /\ SleepsEmpty /\ InboxHoldsOne
SenderTypes == senders \in [Subs -> Seq(Calls)] /\ WaitsOnce
CallTypes ==
    /\ pc \in [Calls -> CallStates]
    /\ msg \in [Calls -> Positive] /\ pos \in [Calls -> Positive]
    /\ at \in [Calls -> Subs \cup {None}]
    /\ loop \in Tasks \cup {None}
CloserTypes ==
    /\ cpc \in [Closers -> CloseStates] /\ cleft \in [Closers -> SUBSET Topics]
    /\ ctopic \in [Closers -> Topics \cup {None}] /\ cpos \in [Closers -> Positive]
HistTypes ==
    /\ audience \in [Tasks -> SUBSET Subs] /\ passedOver \in [Tasks -> SUBSET Subs]
    /\ before \in [Calls -> SUBSET Calls]

StreamInv ==
    /\ ListTypes /\ IterTypes /\ StreamTypes /\ SenderTypes
    /\ CallTypes /\ CloserTypes /\ HistTypes

\* The invariant contains the types and backpressure.
LEMMA StreamInvImplies == StreamInv => TypeOK /\ Backpressure
<1>1. Positive \subseteq Nat
  BY DEF Positive
<1> QED
  BY <1>1 DEF StreamInv, ListTypes, IterTypes, StreamTypes, SenderTypes, CallTypes, CloserTypes,
              HistTypes, TypeOK

\* Every name has a topic, and no name is None.
LEMMA Names ==
    /\ \A s \in Subs : TopicOf[s] \in Topics /\ s # None
    /\ \A p \in Calls : TopicOf[p] \in Topics /\ p # None /\ p \in Tasks
    /\ \A c \in Closers : c # None /\ c \in Tasks
    /\ None \notin Topics /\ BatchSize \in Nat /\ BufferSize \in Nat
BY PubSubAssumption DEF Tasks

\* Nothing has happened when the object is new.
LEMMA StreamInvInit == Init => StreamInv
<1> SUFFICES ASSUME Init PROVE StreamInv
  OBVIOUS
<1>1. \A S : <<>> \in Seq(S) /\ Len(<<>>) = 0
  BY EmptySeq, LenProperties
<1>2. DOMAIN <<>> = {} /\ ToSet(<<>>) = {} /\ IsInjective(<<>>)
  BY DEF ToSet, IsInjective
<1>3. ListTypes
  BY <1>1, <1>2 DEF Init, ListTypes, ListedOnce
<1>4. IterTypes
  BY DEF Init, IterTypes, DepartedIsClosed, IterStates
<1>5. StreamTypes
  <2>1. Backpressure
    BY <1>1, Names DEF Init, Backpressure
  <2> QED
    BY <1>1, <2>1 DEF Init, StreamTypes, SleepsEmpty, InboxHoldsOne
<1>6. SenderTypes
  BY <1>1, <1>2 DEF Init, SenderTypes, WaitsOnce
<1>7. CallTypes
  BY DEF Init, CallTypes, CallStates, Positive
<1>8. CloserTypes
  BY DEF Init, CloserTypes, CloseStates, Positive
<1>9. HistTypes
  BY DEF Init, HistTypes
<1> QED
  BY <1>3, <1>4, <1>5, <1>6, <1>7, <1>8, <1>9 DEF StreamInv

-----------------------------------------------------------------------------
(* What a step may leave alone                                             *)

\* Steps that leave the subscriber lists alone.
LEMMA KeepLists ==
    ASSUME ListTypes, UNCHANGED <<topics, subscribers>>, closed' \in BOOLEAN,
           \A s \in Subs : it'[s] = "none" => it[s] = "none"
    PROVE  ListTypes'
<1>1. ListedOnce'
  <2> SUFFICES ASSUME NEW t \in Topics
               PROVE  /\ IsInjective(subscribers[t])
                      /\ \A s \in ToSet(subscribers[t]) : TopicOf[s] = t /\ it'[s] # "none"
    BY DEF ListedOnce
  <2>1. \A s \in ToSet(subscribers[t]) : s \in Subs
    BY LenProperties, ElementOfSeq DEF ListTypes, ToSet
  <2> QED
    BY <2>1 DEF ListTypes, ListedOnce
<1> QED
  BY <1>1 DEF ListTypes

\* Steps that leave the iterations alone.
LEMMA KeepIters ==
    ASSUME IterTypes, UNCHANGED <<it, recvClosed>>,
           sendClosed \subseteq sendClosed', sendClosed' \subseteq Subs
    PROVE  IterTypes'
BY DEF IterTypes, DepartedIsClosed

\* Steps that leave the streams alone and put no receiver to sleep on one that has an item.
LEMMA KeepStreams ==
    ASSUME StreamTypes, UNCHANGED <<buffer, inbox, received, senders>>,
           \A s \in Subs : it'[s] = "given" <=> it[s] = "given",
           \A s \in Subs : it'[s] = "wait" =>
               it[s] = "wait" \/ (buffer[s] = <<>> /\ senders[s] = <<>>)
    PROVE  StreamTypes'
BY DEF StreamTypes, Backpressure, SleepsEmpty, InboxHoldsOne

\* Steps that leave the waiting senders alone.
LEMMA KeepSenders ==
    ASSUME SenderTypes, UNCHANGED senders,
           \A p \in Calls : pc[p] = "blocked" =>
               pc'[p] = "blocked" /\ msg'[p] = msg[p] /\ at'[p] = at[p]
    PROVE  SenderTypes'
<1>1. WaitsOnce'
  <2> SUFFICES ASSUME NEW s \in Subs
               PROVE  /\ IsInjective(senders[s])
                      /\ \A p \in ToSet(senders[s]) :
                            pc'[p] = "blocked" /\ at'[p] = s /\ msg'[p] <= BatchSize
    BY DEF WaitsOnce, HasMessage
  <2>1. \A p \in ToSet(senders[s]) : p \in Calls
    BY LenProperties, ElementOfSeq DEF SenderTypes, ToSet
  <2> QED
    BY <2>1 DEF SenderTypes, WaitsOnce, HasMessage
<1> QED
  BY <1>1 DEF SenderTypes

\* Steps that leave the publishers alone.
LEMMA KeepCalls ==
    ASSUME CallTypes, UNCHANGED <<msg, pos, at>>, loop' \in Tasks \cup {None},
           pc' \in [Calls -> CallStates]
    PROVE  CallTypes'
BY DEF CallTypes

\* Steps that leave the calls of close() alone.
LEMMA KeepClosers == ASSUME CloserTypes, UNCHANGED closeVars PROVE CloserTypes'
BY DEF CloserTypes, closeVars

\* Steps that leave the history alone.
LEMMA KeepHist ==
    ASSUME HistTypes, UNCHANGED before,
           audience' \in [Tasks -> SUBSET Subs], passedOver' \in [Tasks -> SUBSET Subs]
    PROVE  HistTypes'
BY DEF HistTypes

-----------------------------------------------------------------------------
(* Every step keeps the invariant                                          *)

\* subscribe()
LEMMA SubscribeKeeps ==
    ASSUME StreamInv, NEW s \in Subs, Subscribe(s)
    PROVE  StreamInv'
<1> DEFINE t == TopicOf[s]
<1>0. /\ ListTypes /\ IterTypes /\ StreamTypes /\ SenderTypes
      /\ CallTypes /\ CloserTypes /\ HistTypes
  BY DEF StreamInv
<1>1. /\ it[s] = "none" /\ topics' = topics \cup {t}
      /\ subscribers' = [subscribers EXCEPT ![t] = Append(@, s)]
      /\ it' = [it EXCEPT ![s] = "new"]
      /\ UNCHANGED <<closed, buffer, senders, inbox, sendClosed, recvClosed, pc, msg, pos, at>>
      /\ UNCHANGED <<closeVars, loop, received, audience, passedOver, before>>
  BY DEF Subscribe, streamVars, callVars, histVars
<1>2. t \in Topics
  BY Names
<1> HIDE DEF t
<1>3. subscribers[t] \in Seq(Subs) /\ IsInjective(subscribers[t]) /\ s \notin ToSet(subscribers[t])
  BY <1>0, <1>1, <1>2 DEF ListTypes, ListedOnce
<1>4. /\ subscribers'[t] \in Seq(Subs) /\ IsInjective(subscribers'[t])
      /\ ToSet(subscribers'[t]) = ToSet(subscribers[t]) \cup {s}
  BY <1>0, <1>1, <1>2, <1>3, AppendAdds DEF ListTypes
<1>5. \A u \in Topics \ {t} : subscribers'[u] = subscribers[u]
  BY <1>0, <1>1 DEF ListTypes
<1>6. subscribers' \in [Topics -> Seq(Subs)]
  BY <1>0, <1>1, <1>2, <1>4, <1>5 DEF ListTypes
<1>7. \A r \in Subs : it'[r] = IF r = s THEN "new" ELSE it[r]
  BY <1>0, <1>1 DEF IterTypes
<1>8. ASSUME NEW u \in Topics
      PROVE  /\ IsInjective(subscribers'[u])
             /\ \A r \in ToSet(subscribers'[u]) : TopicOf[r] = u /\ it'[r] # "none"
  <2>1. \A r \in ToSet(subscribers[u]) : TopicOf[r] = u /\ it'[r] # "none"
    <3>1. \A r \in ToSet(subscribers[u]) : r \in Subs
      BY <1>0, LenProperties, ElementOfSeq DEF ListTypes, ToSet
    <3> QED
      BY <1>0, <1>7, <3>1 DEF ListTypes, ListedOnce
  <2>2. CASE u = t
    BY <1>4, <1>7, <2>1, <2>2 DEF t
  <2>3. CASE u # t
    BY <1>0, <1>5, <2>1, <2>3 DEF ListTypes, ListedOnce
  <2> QED
    BY <2>2, <2>3
<1>9. ListTypes'
  BY <1>0, <1>1, <1>2, <1>6, <1>8 DEF ListTypes, ListedOnce
<1>10. IterTypes'
  BY <1>0, <1>1, <1>7 DEF IterTypes, IterStates, DepartedIsClosed
<1>11. StreamTypes' /\ SenderTypes'
  BY <1>0, <1>1, <1>7, KeepStreams, KeepSenders
<1>12. CallTypes' /\ CloserTypes' /\ HistTypes'
  BY <1>0, <1>1, KeepCalls, KeepClosers, KeepHist DEF CallTypes, HistTypes
<1> QED
  BY <1>9, <1>10, <1>11, <1>12 DEF StreamInv

\* The first __anext__, a receive() that waits, and a consumer that leaves.
LEMMA IterationKeeps ==
    ASSUME StreamInv, NEW s \in Subs, StartIterating(s) \/ ReceiveWaits(s) \/ Leave(s)
    PROVE  StreamInv'
<1>0. /\ ListTypes /\ IterTypes /\ StreamTypes /\ SenderTypes
      /\ CallTypes /\ CloserTypes /\ HistTypes
  BY DEF StreamInv
<1>1. UNCHANGED <<closed, topics, subscribers, streamVars, callVars, closeVars, loop, histVars>>
  BY DEF StartIterating, ReceiveWaits, Leave
<1>2. PICK x \in {"active", "wait", "fin"} :
        /\ it' = [it EXCEPT ![s] = x] /\ it[s] \in {"new", "active", "wait"}
        /\ x = "wait" => buffer[s] = <<>> /\ senders[s] = <<>>
  BY DEF StartIterating, ReceiveWaits, Leave
<1>3. \A r \in Subs : it'[r] = IF r = s THEN x ELSE it[r]
  BY <1>0, <1>2 DEF IterTypes
<1>4. ListTypes'
  BY <1>0, <1>1, <1>2, <1>3, KeepLists DEF ListTypes
<1>5. IterTypes'
  BY <1>0, <1>1, <1>2, <1>3 DEF IterTypes, IterStates, DepartedIsClosed, streamVars
<1>6. StreamTypes' /\ SenderTypes'
  BY <1>0, <1>1, <1>2, <1>3, KeepStreams, KeepSenders DEF streamVars, callVars, histVars
<1>7. CallTypes' /\ CloserTypes' /\ HistTypes'
  BY <1>0, <1>1, KeepCalls, KeepClosers, KeepHist DEF CallTypes, HistTypes, callVars, histVars
<1> QED
  BY <1>4, <1>5, <1>6, <1>7 DEF StreamInv

\* The items that a stream's waiting senders bring are messages.
LEMMA OfferedIsMessage ==
    ASSUME CallTypes, SenderTypes, NEW s \in Subs
    PROVE  \A p \in ToSet(senders[s]) : p \in Calls /\ Item(p) \in Message
<1> SUFFICES ASSUME NEW p \in ToSet(senders[s]) PROVE p \in Calls /\ Item(p) \in Message
  OBVIOUS
<1>1. p \in Calls
  BY LenProperties, ElementOfSeq DEF SenderTypes, ToSet
<1>2. HasMessage(p)
  BY DEF SenderTypes, WaitsOnce
<1>3. msg[p] \in 1..BatchSize
  BY <1>1, <1>2, Names DEF CallTypes, HasMessage, Positive
<1> QED
  BY <1>1, <1>3 DEF Item, Message

\* receive() when a publisher waits: the buffer is as long as before, and one sender is awake.
LEMMA ReceiveFromSenderKeeps ==
    ASSUME StreamInv, NEW s \in Subs, ReceiveFromSender(s)
    PROVE  StreamInv'
<1> DEFINE p == Head(senders[s])
           R == Refilled(s)
<1>0. /\ ListTypes /\ IterTypes /\ StreamTypes /\ SenderTypes
      /\ CallTypes /\ CloserTypes /\ HistTypes
  BY DEF StreamInv
<1>1. /\ it[s] = "active" /\ senders[s] # <<>>
      /\ senders' = [senders EXCEPT ![s] = Tail(@)]
      /\ pc' = [pc EXCEPT ![p] = "sent"]
      /\ buffer' = [buffer EXCEPT ![s] = Tail(R)]
      /\ received' = [received EXCEPT ![s] = Append(@, Head(R))]
      /\ UNCHANGED <<closed, topics, subscribers, inbox, sendClosed, recvClosed, it, msg, pos, at>>
      /\ UNCHANGED <<closeVars, loop, audience, passedOver, before>>
  BY DEF ReceiveFromSender, Deliver
<1>2. /\ senders[s] \in Seq(Calls) /\ IsInjective(senders[s])
      /\ p \in ToSet(senders[s]) /\ p \in Calls
      /\ Tail(senders[s]) \in Seq(Calls) /\ IsInjective(Tail(senders[s]))
      /\ ToSet(Tail(senders[s])) = ToSet(senders[s]) \ {p}
  BY <1>0, <1>1, TailRemoves DEF SenderTypes, WaitsOnce
<1>3. Item(p) \in Message /\ at[p] = s
  BY <1>0, <1>2, OfferedIsMessage DEF SenderTypes, WaitsOnce
<1>4. R \in Seq(Message) /\ Len(R) = Len(buffer[s]) + 1 /\ R # <<>>
  <2>1. R = Append(buffer[s], Item(p)) /\ buffer[s] \in Seq(Message)
    BY <1>0 DEF StreamTypes, Refilled, Offered
  <2> HIDE DEF R
  <2>2. /\ Append(buffer[s], Item(p)) \in Seq(Message)
        /\ Len(Append(buffer[s], Item(p))) = Len(buffer[s]) + 1
        /\ Append(buffer[s], Item(p)) # <<>>
    BY <1>3, <2>1, AppendProperties
  <2> QED
    BY <2>1, <2>2, Zenon
<1> HIDE DEF R, p
<1>5. Head(R) \in Message /\ Tail(R) \in Seq(Message) /\ Len(Tail(R)) = Len(R) - 1
  BY <1>4, HeadTailProperties
<1>6. Len(buffer[s]) \in Nat
  BY <1>0, LenProperties DEF StreamTypes
<1>7. Append(received[s], Head(R)) \in Seq(Message)
  BY <1>0, <1>5, AppendProperties DEF StreamTypes
<1>8. /\ \A r \in Subs : buffer'[r] = IF r = s THEN Tail(R) ELSE buffer[r]
      /\ \A r \in Subs : senders'[r] = IF r = s THEN Tail(senders[s]) ELSE senders[r]
      /\ \A q \in Calls : pc'[q] = IF q = p THEN "sent" ELSE pc[q]
  BY <1>0, <1>1 DEF StreamTypes, SenderTypes, CallTypes
<1>9. Len(buffer'[s]) = Len(buffer[s])
  <2>1. buffer'[s] = Tail(R)
    BY <1>8
  <2>2. Len(buffer'[s]) = Len(R) - 1 /\ Len(R) = Len(buffer[s]) + 1
    BY <1>4, <1>5, <2>1, Zenon
  <2> QED
    BY <1>6, <2>2
<1>10. Backpressure'
  BY <1>0, <1>1, <1>8, <1>9 DEF StreamTypes, Backpressure
<1>11. StreamTypes'
  <2>1. /\ buffer' \in [Subs -> Seq(Message)] /\ inbox' \in [Subs -> Seq(Message)]
        /\ received' \in [Subs -> Seq(Message)]
    BY <1>0, <1>1, <1>5, <1>7 DEF StreamTypes
  <2>2. SleepsEmpty' /\ InboxHoldsOne'
    BY <1>0, <1>1, <1>8 DEF StreamTypes, SleepsEmpty, InboxHoldsOne
  <2> QED
    BY <1>10, <2>1, <2>2 DEF StreamTypes
<1>12. SenderTypes'
  <2>1. senders' \in [Subs -> Seq(Calls)]
    BY <1>0, <1>1, <1>2 DEF SenderTypes
  <2>2. ASSUME NEW r \in Subs
        PROVE  /\ IsInjective(senders'[r])
               /\ \A q \in ToSet(senders'[r]) : pc'[q] = "blocked" /\ at'[q] = r /\ msg'[q] <= BatchSize
    <3>1. IsInjective(senders'[r]) /\ ToSet(senders'[r]) \subseteq ToSet(senders[r]) \ {p}
      <4>1. CASE r = s
        BY <1>2, <1>8, <4>1
      <4>2. CASE r # s
        BY <1>0, <1>3, <1>8, <4>2 DEF SenderTypes, WaitsOnce
      <4> QED
        BY <4>1, <4>2
    <3>2. \A q \in ToSet(senders[r]) : q \in Calls
      BY <1>0, OfferedIsMessage
    <3> QED
      BY <1>0, <1>1, <1>8, <3>1, <3>2 DEF SenderTypes, WaitsOnce, HasMessage
  <2> QED
    BY <2>1, <2>2 DEF SenderTypes, WaitsOnce, HasMessage
<1>13. ListTypes' /\ IterTypes'
  BY <1>0, <1>1, KeepLists, KeepIters DEF ListTypes, IterTypes
<1>14. pc' \in [Calls -> CallStates]
  BY <1>0, <1>1 DEF CallTypes, CallStates
<1>15. CallTypes' /\ CloserTypes' /\ HistTypes'
  BY <1>0, <1>1, <1>14, KeepCalls, KeepClosers, KeepHist DEF CallTypes, HistTypes
<1> QED
  BY <1>11, <1>12, <1>13, <1>15 DEF StreamInv

\* receive() from the buffer, or of the item that a publisher handed over.
LEMMA ReceiveKeeps ==
    ASSUME StreamInv, NEW s \in Subs, ReceiveFromBuffer(s) \/ TakeHandedOver(s)
    PROVE  StreamInv'
<1>0. /\ ListTypes /\ IterTypes /\ StreamTypes /\ SenderTypes
      /\ CallTypes /\ CloserTypes /\ HistTypes
  BY DEF StreamInv
<1>1. /\ UNCHANGED <<closed, topics, subscribers, senders, sendClosed, recvClosed, callVars>>
      /\ UNCHANGED <<closeVars, loop, audience, passedOver, before>>
  BY DEF ReceiveFromBuffer, TakeHandedOver
<1>2. ASSUME ReceiveFromBuffer(s)
      PROVE  StreamTypes' /\ it' = it
  <2>1. /\ it[s] = "active" /\ senders[s] = <<>> /\ buffer[s] # <<>>
        /\ buffer' = [buffer EXCEPT ![s] = Tail(@)]
        /\ received' = [received EXCEPT ![s] = Append(@, Head(buffer[s]))]
        /\ UNCHANGED <<inbox, it, senders>>
    BY <1>2 DEF ReceiveFromBuffer, Deliver
  <2>2. /\ Head(buffer[s]) \in Message /\ Tail(buffer[s]) \in Seq(Message)
        /\ Len(Tail(buffer[s])) = Len(buffer[s]) - 1 /\ Len(buffer[s]) \in Nat
    BY <1>0, <2>1, HeadTailProperties, LenProperties DEF StreamTypes
  <2>3. Append(received[s], Head(buffer[s])) \in Seq(Message)
    BY <1>0, <2>2, AppendProperties DEF StreamTypes
  <2>4. \A r \in Subs : buffer'[r] = IF r = s THEN Tail(buffer[s]) ELSE buffer[r]
    BY <1>0, <2>1 DEF StreamTypes
  <2>5. Backpressure'
    <3>1. buffer'[s] = Tail(buffer[s]) /\ senders'[s] = <<>>
      BY <2>1, <2>4
    <3>2. Len(buffer'[s]) = Len(buffer[s]) - 1 /\ Len(buffer[s]) <= BufferSize
      BY <1>0, <2>2, <3>1, Zenon DEF StreamTypes, Backpressure
    <3>3. Len(buffer'[s]) <= BufferSize
      BY <2>2, <3>2, Names
    <3> QED
      BY <1>0, <2>1, <2>4, <3>1, <3>3 DEF StreamTypes, Backpressure
  <2>6. /\ buffer' \in [Subs -> Seq(Message)] /\ inbox' \in [Subs -> Seq(Message)]
        /\ received' \in [Subs -> Seq(Message)]
    BY <1>0, <2>1, <2>2, <2>3 DEF StreamTypes
  <2>7. SleepsEmpty' /\ InboxHoldsOne'
    BY <1>0, <2>1, <2>4 DEF StreamTypes, SleepsEmpty, InboxHoldsOne
  <2> QED
    BY <2>1, <2>5, <2>6, <2>7 DEF StreamTypes
<1>3. ASSUME TakeHandedOver(s)
      PROVE  StreamTypes' /\ it[s] = "given" /\ it' = [it EXCEPT ![s] = "active"]
  <2>1. /\ it[s] = "given" /\ it' = [it EXCEPT ![s] = "active"]
        /\ inbox' = [inbox EXCEPT ![s] = <<>>]
        /\ received' = [received EXCEPT ![s] = Append(@, Head(inbox[s]))]
        /\ UNCHANGED <<buffer, senders>>
    BY <1>3 DEF TakeHandedOver, Deliver
  <2>2. inbox[s] # <<>> /\ inbox[s] \in Seq(Message)
    BY <1>0, <2>1 DEF StreamTypes, Backpressure
  <2>3. Append(received[s], Head(inbox[s])) \in Seq(Message)
    BY <1>0, <2>2, HeadTailProperties, AppendProperties DEF StreamTypes
  <2>4. /\ \A r \in Subs : inbox'[r] = IF r = s THEN <<>> ELSE inbox[r]
        /\ \A r \in Subs : it'[r] = IF r = s THEN "active" ELSE it[r]
    BY <1>0, <2>1 DEF StreamTypes, IterTypes
  <2>5. Backpressure'
    BY <1>0, <2>1, <2>4 DEF StreamTypes, Backpressure
  <2>6. /\ buffer' \in [Subs -> Seq(Message)] /\ inbox' \in [Subs -> Seq(Message)]
        /\ received' \in [Subs -> Seq(Message)]
    BY <1>0, <2>1, <2>3, EmptySeq DEF StreamTypes
  <2>7. SleepsEmpty' /\ InboxHoldsOne'
    BY <1>0, <2>1, <2>4 DEF StreamTypes, SleepsEmpty, InboxHoldsOne
  <2> QED
    BY <2>1, <2>5, <2>6, <2>7 DEF StreamTypes
<1>4. /\ StreamTypes'
      /\ it' = it \/ (it[s] = "given" /\ it' = [it EXCEPT ![s] = "active"])
  BY <1>2, <1>3
<1>5. \A r \in Subs : it'[r] = it[r] \/ (it[r] = "given" /\ it'[r] = "active")
  BY <1>0, <1>4 DEF IterTypes
<1>6. ListTypes'
  BY <1>0, <1>1, <1>5, KeepLists DEF ListTypes
<1>7. IterTypes'
  BY <1>0, <1>1, <1>4, <1>5 DEF IterTypes, IterStates, DepartedIsClosed
<1>8. SenderTypes'
  BY <1>0, <1>1, KeepSenders DEF callVars
<1>9. CallTypes' /\ CloserTypes' /\ HistTypes'
  BY <1>0, <1>1, KeepCalls, KeepClosers, KeepHist DEF CallTypes, HistTypes, callVars
<1> QED
  BY <1>4, <1>6, <1>7, <1>8, <1>9 DEF StreamInv

\* The finally block.
LEMMA CleanUpKeeps ==
    ASSUME StreamInv, NEW s \in Subs, NEW x \in {"unsent", "zombie"}, CleanUp(s, x),
           it[s] \in {"active", "wait", "fin"}
    PROVE  StreamInv'
<1> DEFINE t == TopicOf[s]
<1>0. /\ ListTypes /\ IterTypes /\ StreamTypes /\ SenderTypes
      /\ CallTypes /\ CloserTypes /\ HistTypes
  BY DEF StreamInv
<1>1. /\ subscribers' = [subscribers EXCEPT ![t] = IF t \in topics THEN RemoveFirst(@, s) ELSE @]
      /\ passedOver' = [y \in Tasks |->
                           IF t \in topics
                           THEN passedOver[y] \cup PassedOver(subscribers[t], s, Cursor(y, t))
                           ELSE passedOver[y]]
      /\ sendClosed' = sendClosed \cup {s}
      /\ it' = [it EXCEPT ![s] = x]
      /\ UNCHANGED <<closed, topics, buffer, senders, inbox, recvClosed, callVars, closeVars, loop>>
      /\ UNCHANGED <<received, audience, before>>
  BY DEF CleanUp, CloseSendStream
<1>2. t \in Topics
  BY Names
<1> HIDE DEF t
<1>3. subscribers[t] \in Seq(Subs) /\ IsInjective(subscribers[t])
  BY <1>0, <1>2 DEF ListTypes, ListedOnce
<1>4. /\ subscribers'[t] \in Seq(Subs) /\ IsInjective(subscribers'[t])
      /\ ToSet(subscribers'[t]) \subseteq ToSet(subscribers[t])
  <2>1. subscribers'[t] = subscribers[t] \/ subscribers'[t] = RemoveFirst(subscribers[t], s)
    BY <1>0, <1>1, <1>2 DEF ListTypes
  <2> QED
    BY <1>3, <2>1, RemoveFirstRemoves
<1>5. \A u \in Topics \ {t} : subscribers'[u] = subscribers[u]
  BY <1>0, <1>1 DEF ListTypes
<1>6. subscribers' \in [Topics -> Seq(Subs)]
  BY <1>0, <1>1, <1>2, <1>4, <1>5 DEF ListTypes
<1>7. \A r \in Subs : it'[r] = IF r = s THEN x ELSE it[r]
  BY <1>0, <1>1 DEF IterTypes
<1>8. ASSUME NEW u \in Topics
      PROVE  /\ IsInjective(subscribers'[u])
             /\ \A r \in ToSet(subscribers'[u]) : TopicOf[r] = u /\ it'[r] # "none"
  <2>1. \A r \in ToSet(subscribers[u]) : TopicOf[r] = u /\ it'[r] # "none"
    <3>1. \A r \in ToSet(subscribers[u]) : r \in Subs
      BY <1>0, LenProperties, ElementOfSeq DEF ListTypes, ToSet
    <3> QED
      BY <1>0, <1>7, <3>1 DEF ListTypes, ListedOnce
  <2>2. CASE u = t
    BY <1>4, <2>1, <2>2
  <2>3. CASE u # t
    BY <1>0, <1>5, <2>1, <2>3 DEF ListTypes, ListedOnce
  <2> QED
    BY <2>2, <2>3
<1>9. ListTypes'
  BY <1>0, <1>1, <1>6, <1>8 DEF ListTypes, ListedOnce
<1>10. IterTypes'
  BY <1>0, <1>1, <1>7 DEF IterTypes, IterStates, DepartedIsClosed
<1>11. StreamTypes' /\ SenderTypes'
  BY <1>0, <1>1, <1>7, KeepStreams, KeepSenders DEF callVars
<1>12. passedOver' \in [Tasks -> SUBSET Subs]
  <2>1. \A y \in Tasks : PassedOver(subscribers[t], s, Cursor(y, t)) \subseteq Subs
    BY <1>3, ElementOfSeq DEF PassedOver
  <2> QED
    BY <1>0, <1>1, <2>1 DEF HistTypes
<1>13. CallTypes' /\ CloserTypes' /\ HistTypes'
  BY <1>0, <1>1, <1>12, KeepCalls, KeepClosers, KeepHist DEF CallTypes, HistTypes, callVars
<1> QED
  BY <1>9, <1>10, <1>11, <1>13 DEF StreamInv

\* receive_stream.aclose(): nobody waits for the stream any more.
LEMMA CloseReceiverKeeps ==
    ASSUME StreamInv, NEW s \in Subs, CloseReceiver(s)
    PROVE  StreamInv'
<1>0. /\ ListTypes /\ IterTypes /\ StreamTypes /\ SenderTypes
      /\ CallTypes /\ CloserTypes /\ HistTypes
  BY DEF StreamInv
<1>1. /\ it[s] = "unsent" /\ it' = [it EXCEPT ![s] = "done"]
      /\ recvClosed' = recvClosed \cup {s}
      /\ senders' = [senders EXCEPT ![s] = <<>>]
      /\ pc' = [p \in Calls |-> IF p \in ToSet(senders[s]) THEN "broken" ELSE pc[p]]
      /\ UNCHANGED <<closed, topics, subscribers, buffer, inbox, sendClosed, msg, pos, at>>
      /\ UNCHANGED <<closeVars, loop, received, audience, passedOver, before>>
  BY DEF CloseReceiver, histVars
<1>2. /\ \A r \in Subs : it'[r] = IF r = s THEN "done" ELSE it[r]
      /\ \A r \in Subs : senders'[r] = IF r = s THEN <<>> ELSE senders[r]
  BY <1>0, <1>1 DEF IterTypes, SenderTypes
<1>3. ListTypes'
  BY <1>0, <1>1, <1>2, KeepLists DEF ListTypes
<1>4. IterTypes'
  BY <1>0, <1>1, <1>2 DEF IterTypes, IterStates, DepartedIsClosed
<1>5. StreamTypes'
  <2>1. Backpressure'
    BY <1>0, <1>1, <1>2 DEF StreamTypes, Backpressure
  <2>2. SleepsEmpty' /\ InboxHoldsOne'
    BY <1>0, <1>1, <1>2 DEF StreamTypes, SleepsEmpty, InboxHoldsOne
  <2> QED
    BY <1>0, <1>1, <2>1, <2>2 DEF StreamTypes
<1>6. SenderTypes'
  <2>1. senders' \in [Subs -> Seq(Calls)]
    BY <1>0, <1>1, EmptySeq DEF SenderTypes
  <2>2. ASSUME NEW r \in Subs
        PROVE  /\ IsInjective(senders'[r])
               /\ \A q \in ToSet(senders'[r]) : pc'[q] = "blocked" /\ at'[q] = r /\ msg'[q] <= BatchSize
    <3>1. CASE r = s
      BY <1>2, <3>1 DEF IsInjective, ToSet
    <3>2. CASE r # s
      <4>1. \A q \in ToSet(senders[r]) : q \in Calls /\ q \notin ToSet(senders[s])
        BY <1>0, <3>2, OfferedIsMessage DEF SenderTypes, WaitsOnce
      <4> QED
        BY <1>0, <1>1, <1>2, <3>2, <4>1 DEF SenderTypes, WaitsOnce, HasMessage
    <3> QED
      BY <3>1, <3>2
  <2> QED
    BY <2>1, <2>2 DEF SenderTypes, WaitsOnce, HasMessage
<1>7. pc' \in [Calls -> CallStates]
  BY <1>0, <1>1 DEF CallTypes, CallStates
<1>8. CallTypes' /\ CloserTypes' /\ HistTypes'
  BY <1>0, <1>1, <1>7, KeepCalls, KeepClosers, KeepHist DEF CallTypes, HistTypes
<1> QED
  BY <1>3, <1>4, <1>5, <1>6, <1>8 DEF StreamInv

\* A publish() that ends, unless it is cancelled.
Ending(p) ==
    \/ PublishRefused(p) \/ PublishDropped(p) \/ PublishReturns(p) \/ SendBroken(p)

\* The end of a publish().
LEMMA EndingKeeps ==
    ASSUME StreamInv, NEW p \in Calls, Ending(p)
    PROVE  StreamInv'
<1>0. /\ ListTypes /\ IterTypes /\ StreamTypes /\ SenderTypes
      /\ CallTypes /\ CloserTypes /\ HistTypes
  BY DEF StreamInv
<1>1. /\ pc[p] # "blocked" /\ loop' = None
      /\ UNCHANGED <<closed, topics, subscribers, streamVars, it, msg, pos, at, closeVars, histVars>>
      /\ pc' = [pc EXCEPT ![p] = "ok"] \/ pc' = [pc EXCEPT ![p] = "raised"]
  BY DEF Ending, PublishRefused, PublishDropped, PublishReturns, SendBroken, Finish, Runs
<1>2. /\ pc' \in [Calls -> CallStates]
      /\ \A q \in Calls : pc[q] = "blocked" => pc'[q] = "blocked"
  BY <1>0, <1>1 DEF CallTypes, CallStates
<1>3. ListTypes' /\ IterTypes'
  BY <1>0, <1>1, KeepLists, KeepIters DEF ListTypes, IterTypes, streamVars
<1>4. StreamTypes' /\ SenderTypes'
  BY <1>0, <1>1, <1>2, KeepStreams, KeepSenders DEF streamVars, histVars
<1>5. CallTypes' /\ CloserTypes' /\ HistTypes'
  BY <1>0, <1>1, <1>2, KeepCalls, KeepClosers, KeepHist DEF CallTypes, HistTypes, histVars
<1> QED
  BY <1>3, <1>4, <1>5 DEF StreamInv

\* A publish() that begins.
LEMMA PublishKeeps ==
    ASSUME StreamInv, NEW p \in Calls, Publish(p)
    PROVE  StreamInv'
<1>0. /\ ListTypes /\ IterTypes /\ StreamTypes /\ SenderTypes
      /\ CallTypes /\ CloserTypes /\ HistTypes
  BY DEF StreamInv
<1>1. /\ pc[p] = "idle" /\ loop' = p /\ pc' = [pc EXCEPT ![p] = "run"]
      /\ audience' = [audience EXCEPT ![p] = ToSet(subscribers[TopicOf[p]])]
      /\ before' = [before EXCEPT ![p] = {q \in Calls : pc[q] \in {"ok", "raised"}}]
      /\ UNCHANGED <<closed, topics, subscribers, streamVars, it, msg, pos, at, closeVars>>
      /\ UNCHANGED <<received, passedOver>>
  BY DEF Publish
<1>2. /\ pc' \in [Calls -> CallStates]
      /\ \A q \in Calls : pc[q] = "blocked" => pc'[q] = "blocked"
  BY <1>0, <1>1 DEF CallTypes, CallStates
<1>3. ListTypes' /\ IterTypes'
  BY <1>0, <1>1, KeepLists, KeepIters DEF ListTypes, IterTypes, streamVars
<1>4. StreamTypes' /\ SenderTypes'
  BY <1>0, <1>1, <1>2, KeepStreams, KeepSenders DEF streamVars
<1>5. CallTypes' /\ CloserTypes'
  BY <1>0, <1>1, <1>2, Names, KeepCalls, KeepClosers
<1>6. HistTypes'
  <2>1. ToSet(subscribers[TopicOf[p]]) \subseteq Subs
    BY <1>0, Names, LenProperties, ElementOfSeq DEF ListTypes, ToSet
  <2> QED
    BY <1>0, <1>1, <2>1 DEF HistTypes
<1> QED
  BY <1>3, <1>4, <1>5, <1>6 DEF StreamInv

\* What send() does to the call and to the list.
LEMMA AtStreamKeeps ==
    ASSUME StreamInv, NEW p \in Calls, AtStream(p),
           loop' \in Tasks \cup {None}, pc' \in [Calls -> CallStates],
           \A s \in Subs : it'[s] = "none" => it[s] = "none"
    PROVE  /\ Stream(p) \in Subs /\ Stream(p) \in ToSet(subscribers[TopicOf[p]])
           /\ Item(p) \in Message /\ pc[p] # "blocked"
           /\ ListTypes' /\ CallTypes' /\ CloserTypes' /\ HistTypes'
<1>0. ListTypes /\ CallTypes /\ CloserTypes /\ HistTypes
  BY DEF StreamInv
<1>1. /\ Runs(p) /\ HasMessage(p) /\ HasNextStream(p)
      /\ pos' = [pos EXCEPT ![p] = @ + 1]
      /\ at' = [at EXCEPT ![p] = Stream(p)]
      /\ UNCHANGED <<closed, topics, subscribers, sendClosed, recvClosed, msg, closeVars, histVars>>
  BY DEF AtStream
<1>2. pos[p] \in 1..Len(subscribers[TopicOf[p]]) /\ subscribers[TopicOf[p]] \in Seq(Subs)
  BY <1>0, <1>1, Names, LenProperties DEF ListTypes, CallTypes, HasNextStream, Positive
<1>3. Stream(p) \in Subs /\ Stream(p) \in ToSet(subscribers[TopicOf[p]])
  BY <1>2, LenProperties, ElementOfSeq DEF Stream, ToSet
<1>4. Item(p) \in Message
  <2>1. msg[p] \in 1..BatchSize
    BY <1>0, <1>1, Names DEF CallTypes, HasMessage, Positive
  <2> QED
    BY <2>1 DEF Item, Message
<1>5. pc[p] # "blocked"
  BY <1>1 DEF Runs
<1>6. ListTypes'
  BY <1>0, <1>1, KeepLists DEF ListTypes
<1>7. CallTypes'
  <2>1. pos' \in [Calls -> Positive]
    BY <1>0, <1>1 DEF CallTypes, Positive
  <2> QED
    BY <1>0, <1>1, <1>3, <2>1 DEF CallTypes
<1>8. CloserTypes' /\ HistTypes'
  BY <1>0, <1>1, KeepClosers, KeepHist DEF HistTypes, histVars
<1> QED
  BY <1>3, <1>4, <1>5, <1>6, <1>7, <1>8

\* A send() into a closed stream.
LEMMA SendRefusedKeeps ==
    ASSUME StreamInv, NEW p \in Calls, SendRefused(p)
    PROVE  StreamInv'
<1>0. IterTypes /\ StreamTypes /\ SenderTypes /\ CallTypes
  BY DEF StreamInv
<1>1. /\ AtStream(p) /\ pc' = [pc EXCEPT ![p] = "raised"] /\ loop' = None
      /\ UNCHANGED <<buffer, senders, inbox, it>>
  BY DEF SendRefused, Finish
<1>2. /\ UNCHANGED <<sendClosed, recvClosed, msg, histVars>> /\ pc[p] # "blocked"
      /\ at' = [at EXCEPT ![p] = Stream(p)]
  BY <1>1 DEF AtStream, Runs
<1>3. /\ pc' \in [Calls -> CallStates]
      /\ \A q \in Calls : pc[q] = "blocked" => pc'[q] = "blocked" /\ at'[q] = at[q]
  BY <1>0, <1>1, <1>2 DEF CallTypes, CallStates
<1>4. ListTypes' /\ CallTypes' /\ CloserTypes' /\ HistTypes'
  BY <1>1, <1>3, AtStreamKeeps
<1>5. IterTypes' /\ StreamTypes' /\ SenderTypes'
  BY <1>0, <1>1, <1>2, <1>3, KeepIters, KeepStreams, KeepSenders DEF IterTypes, histVars
<1> QED
  BY <1>4, <1>5 DEF StreamInv

\* A send() to a receiver that waits.
LEMMA SendHandsOverKeeps ==
    ASSUME StreamInv, NEW p \in Calls, SendHandsOver(p)
    PROVE  StreamInv'
<1> DEFINE s == Stream(p)
<1>0. IterTypes /\ StreamTypes /\ SenderTypes /\ CallTypes
  BY DEF StreamInv
<1>1. /\ AtStream(p) /\ s \notin sendClosed /\ it[s] = "wait"
      /\ inbox' = [inbox EXCEPT ![s] = <<Item(p)>>] /\ it' = [it EXCEPT ![s] = "given"]
      /\ pc' = [pc EXCEPT ![p] = "run"] /\ loop' = p
      /\ UNCHANGED <<buffer, senders>>
  BY DEF SendHandsOver, Open, Awaited
<1>2. /\ UNCHANGED <<sendClosed, recvClosed, msg, histVars>> /\ pc[p] # "blocked"
      /\ at' = [at EXCEPT ![p] = s]
  BY <1>1 DEF AtStream, Runs
<1> HIDE DEF s
<1>3. /\ pc' \in [Calls -> CallStates] /\ loop' \in Tasks
      /\ \A q \in Calls : pc[q] = "blocked" => pc'[q] = "blocked" /\ at'[q] = at[q]
      /\ \A r \in Subs : it'[r] = IF r = s THEN "given" ELSE it[r]
  BY <1>0, <1>1, <1>2, Names DEF CallTypes, CallStates, IterTypes
<1>4. ListTypes' /\ CallTypes' /\ CloserTypes' /\ HistTypes' /\ s \in Subs /\ Item(p) \in Message
  BY <1>1, <1>3, AtStreamKeeps DEF s
<1>5. IterTypes'
  BY <1>0, <1>1, <1>2, <1>3 DEF IterTypes, IterStates, DepartedIsClosed
<1>6. StreamTypes'
  <2>1. <<Item(p)>> \in Seq(Message) /\ <<Item(p)>> # <<>>
    BY <1>4
  <2>2. \A r \in Subs : inbox'[r] = IF r = s THEN <<Item(p)>> ELSE inbox[r]
    BY <1>0, <1>1 DEF StreamTypes
  <2>3. Backpressure'
    BY <1>0, <1>1, <1>3, <2>1, <2>2 DEF StreamTypes, Backpressure
  <2>4. /\ buffer' \in [Subs -> Seq(Message)] /\ inbox' \in [Subs -> Seq(Message)]
        /\ received' \in [Subs -> Seq(Message)]
    BY <1>0, <1>1, <1>2, <2>1 DEF StreamTypes, histVars
  <2>5. SleepsEmpty' /\ InboxHoldsOne'
    BY <1>0, <1>1, <1>3 DEF StreamTypes, SleepsEmpty, InboxHoldsOne
  <2> QED
    BY <2>3, <2>4, <2>5 DEF StreamTypes
<1>7. SenderTypes'
  BY <1>0, <1>1, <1>2, <1>3, KeepSenders
<1> QED
  BY <1>4, <1>5, <1>6, <1>7 DEF StreamInv

\* A send() into a buffer that has room: nobody waits for room.
LEMMA SendBuffersKeeps ==
    ASSUME StreamInv, NEW p \in Calls, SendBuffers(p)
    PROVE  StreamInv' /\ senders[Stream(p)] = <<>> /\ inbox[Stream(p)] = inbox'[Stream(p)]
<1> DEFINE s == Stream(p)
<1>0. IterTypes /\ StreamTypes /\ SenderTypes /\ CallTypes
  BY DEF StreamInv
<1>1. /\ AtStream(p) /\ it[s] # "wait" /\ Len(buffer[s]) < BufferSize
      /\ buffer' = [buffer EXCEPT ![s] = Append(@, Item(p))]
      /\ pc' = [pc EXCEPT ![p] = "run"] /\ loop' = p
      /\ UNCHANGED <<senders, inbox, it>>
  BY DEF SendBuffers, Awaited, HasRoom
<1>2. /\ UNCHANGED <<sendClosed, recvClosed, msg, histVars>> /\ pc[p] # "blocked"
      /\ at' = [at EXCEPT ![p] = s]
  BY <1>1 DEF AtStream, Runs
<1> HIDE DEF s
<1>3. /\ pc' \in [Calls -> CallStates] /\ loop' \in Tasks
      /\ \A q \in Calls : pc[q] = "blocked" => pc'[q] = "blocked" /\ at'[q] = at[q]
  BY <1>0, <1>1, <1>2, Names DEF CallTypes, CallStates
<1>4. ListTypes' /\ CallTypes' /\ CloserTypes' /\ HistTypes' /\ s \in Subs /\ Item(p) \in Message
  BY <1>1, <1>3, AtStreamKeeps DEF s
<1>5. IterTypes'
  BY <1>0, <1>1, <1>2, KeepIters DEF IterTypes
<1>6. buffer[s] \in Seq(Message) /\ Len(buffer[s]) \in Nat
  BY <1>0, <1>4, LenProperties DEF StreamTypes
<1>7. senders[s] = <<>>
  <2>1. senders[s] # <<>> => Len(buffer[s]) = BufferSize
    BY <1>0, <1>4, Zenon DEF StreamTypes, Backpressure
  <2> QED
    BY <1>1, <1>6, <2>1, Names
<1>8. StreamTypes'
  <2>1. \A r \in Subs : buffer'[r] = IF r = s THEN Append(buffer[s], Item(p)) ELSE buffer[r]
    BY <1>0, <1>1 DEF StreamTypes
  <2>2. Append(buffer[s], Item(p)) \in Seq(Message)
        /\ Len(Append(buffer[s], Item(p))) = Len(buffer[s]) + 1
    BY <1>4, <1>6, AppendProperties
  <2>3. Len(Append(buffer[s], Item(p))) <= BufferSize
    BY <1>1, <1>6, <2>2, Names
  <2>4. Backpressure'
    BY <1>0, <1>1, <1>7, <2>1, <2>3 DEF StreamTypes, Backpressure
  <2>5. /\ buffer' \in [Subs -> Seq(Message)] /\ inbox' \in [Subs -> Seq(Message)]
        /\ received' \in [Subs -> Seq(Message)]
    BY <1>0, <1>1, <1>2, <2>2 DEF StreamTypes, histVars
  <2>6. SleepsEmpty' /\ InboxHoldsOne'
    BY <1>0, <1>1, <2>1 DEF StreamTypes, SleepsEmpty, InboxHoldsOne
  <2> QED
    BY <2>4, <2>5, <2>6 DEF StreamTypes
<1>9. SenderTypes'
  BY <1>0, <1>1, <1>2, <1>3, KeepSenders
<1> QED
  BY <1>1, <1>4, <1>5, <1>7, <1>8, <1>9 DEF StreamInv, s

\* A send() that waits: the buffer is full, and the publisher waits nowhere else.
LEMMA SendBlocksKeeps ==
    ASSUME StreamInv, NEW p \in Calls, SendBlocks(p)
    PROVE  StreamInv'
<1> DEFINE s == Stream(p)
<1>0. IterTypes /\ StreamTypes /\ SenderTypes /\ CallTypes
  BY DEF StreamInv
<1>1. /\ AtStream(p) /\ it[s] # "wait" /\ ~ (Len(buffer[s]) < BufferSize)
      /\ senders' = [senders EXCEPT ![s] = Append(@, p)]
      /\ pc' = [pc EXCEPT ![p] = "blocked"] /\ loop' = None
      /\ UNCHANGED <<buffer, inbox, it>>
  BY DEF SendBlocks, Awaited, HasRoom, Finish
<1>2. /\ UNCHANGED <<sendClosed, recvClosed, msg, histVars>> /\ pc[p] # "blocked"
      /\ at' = [at EXCEPT ![p] = s] /\ HasMessage(p)
  BY <1>1 DEF AtStream, Runs
<1> HIDE DEF s
<1>3. pc' \in [Calls -> CallStates]
  BY <1>0, <1>1 DEF CallTypes, CallStates
<1>4. ListTypes' /\ CallTypes' /\ CloserTypes' /\ HistTypes' /\ s \in Subs
  BY <1>1, <1>3, AtStreamKeeps DEF s
<1>5. IterTypes'
  BY <1>0, <1>1, <1>2, KeepIters DEF IterTypes
<1>6. \A r \in Subs : senders'[r] = IF r = s THEN Append(senders[s], p) ELSE senders[r]
  BY <1>0, <1>1 DEF SenderTypes
<1>7. \A r \in Subs : p \notin ToSet(senders[r])
  BY <1>0, <1>2 DEF SenderTypes, WaitsOnce
<1>8. /\ Append(senders[s], p) \in Seq(Calls) /\ IsInjective(Append(senders[s], p))
      /\ ToSet(Append(senders[s], p)) = ToSet(senders[s]) \cup {p}
  BY <1>0, <1>4, <1>7, AppendAdds DEF SenderTypes, WaitsOnce
<1>9. StreamTypes'
  <2>1. Len(buffer[s]) = BufferSize
    <3>1. Len(buffer[s]) \in Nat /\ Len(buffer[s]) <= BufferSize
      BY <1>0, <1>4, LenProperties DEF StreamTypes, Backpressure
    <3> QED
      BY <1>1, <3>1, Names
  <2>2. Backpressure'
    BY <1>0, <1>1, <1>6, <2>1 DEF StreamTypes, Backpressure
  <2>3. SleepsEmpty' /\ InboxHoldsOne'
    BY <1>0, <1>1, <1>6 DEF StreamTypes, SleepsEmpty, InboxHoldsOne
  <2> QED
    BY <1>0, <1>1, <1>2, <2>2, <2>3 DEF StreamTypes, histVars
<1>10. SenderTypes'
  <2>1. senders' \in [Subs -> Seq(Calls)]
    BY <1>0, <1>1, <1>8 DEF SenderTypes
  <2>2. ASSUME NEW r \in Subs
        PROVE  /\ IsInjective(senders'[r])
               /\ \A q \in ToSet(senders'[r]) : pc'[q] = "blocked" /\ at'[q] = r /\ msg'[q] <= BatchSize
    <3>1. \A q \in ToSet(senders[r]) : q \in Calls /\ q # p
      BY <1>0, <1>7, OfferedIsMessage
    <3>2. \A q \in ToSet(senders[r]) : pc'[q] = "blocked" /\ at'[q] = r /\ msg'[q] <= BatchSize
      BY <1>0, <1>1, <1>2, <3>1 DEF SenderTypes, WaitsOnce, HasMessage, CallTypes
    <3>3. pc'[p] = "blocked" /\ at'[p] = s /\ msg'[p] <= BatchSize
      BY <1>0, <1>1, <1>2 DEF CallTypes, HasMessage
    <3>4. CASE r = s
      BY <1>6, <1>8, <3>2, <3>3, <3>4
    <3>5. CASE r # s
      BY <1>0, <1>6, <3>2, <3>5 DEF SenderTypes, WaitsOnce
    <3> QED
      BY <3>4, <3>5
  <2> QED
    BY <2>1, <2>2 DEF SenderTypes, WaitsOnce, HasMessage
<1> QED
  BY <1>4, <1>5, <1>9, <1>10 DEF StreamInv

\* The next message of the batch.
LEMMA NextMessageKeeps ==
    ASSUME StreamInv, NEW p \in Calls, NextMessage(p)
    PROVE  StreamInv'
<1>0. /\ ListTypes /\ IterTypes /\ StreamTypes /\ SenderTypes
      /\ CallTypes /\ CloserTypes /\ HistTypes
  BY DEF StreamInv
<1>1. /\ pc[p] # "blocked" /\ pc' = [pc EXCEPT ![p] = "run"] /\ loop' = p
      /\ msg' = [msg EXCEPT ![p] = @ + 1] /\ pos' = [pos EXCEPT ![p] = 1]
      /\ UNCHANGED <<closed, topics, subscribers, streamVars, it, at, closeVars, histVars>>
  BY DEF NextMessage, Runs
<1>2. /\ pc' \in [Calls -> CallStates]
      /\ \A q \in Calls : pc[q] = "blocked" => pc'[q] = "blocked" /\ msg'[q] = msg[q]
  BY <1>0, <1>1 DEF CallTypes, CallStates
<1>3. ListTypes' /\ IterTypes'
  BY <1>0, <1>1, KeepLists, KeepIters DEF ListTypes, IterTypes, streamVars
<1>4. StreamTypes' /\ SenderTypes'
  BY <1>0, <1>1, <1>2, KeepStreams, KeepSenders DEF streamVars, histVars
<1>5. CallTypes'
  <2>1. msg' \in [Calls -> Positive] /\ pos' \in [Calls -> Positive]
    BY <1>0, <1>1 DEF CallTypes, Positive
  <2> QED
    BY <1>0, <1>1, <1>2, <2>1, Names DEF CallTypes
<1>6. CloserTypes' /\ HistTypes'
  BY <1>0, <1>1, KeepClosers, KeepHist DEF HistTypes, histVars
<1> QED
  BY <1>3, <1>4, <1>5, <1>6 DEF StreamInv

\* A publisher that is cancelled while it waits.
LEMMA CancelPublishKeeps ==
    ASSUME StreamInv, NEW p \in Calls, CancelPublish(p)
    PROVE  StreamInv'
<1>0. /\ ListTypes /\ IterTypes /\ StreamTypes /\ SenderTypes
      /\ CallTypes /\ CloserTypes /\ HistTypes
  BY DEF StreamInv
<1>1. /\ pc' = [pc EXCEPT ![p] = "raised"] /\ loop' = None
      /\ senders' = [senders EXCEPT ![at[p]] = RemoveFirst(@, p)]
      /\ UNCHANGED <<closed, topics, subscribers, buffer, inbox, sendClosed, recvClosed, it>>
      /\ UNCHANGED <<msg, pos, at, closeVars, histVars>>
  BY DEF CancelPublish, Finish
<1>2. pc' \in [Calls -> CallStates]
  BY <1>0, <1>1 DEF CallTypes, CallStates
<1>3. ASSUME NEW r \in Subs
      PROVE  /\ senders'[r] \in Seq(Calls) /\ IsInjective(senders'[r])
             /\ ToSet(senders'[r]) \subseteq ToSet(senders[r]) \ {p}
  <2>1. senders[r] \in Seq(Calls) /\ IsInjective(senders[r])
    BY <1>0 DEF SenderTypes, WaitsOnce
  <2>2. CASE r = at[p]
    <3>1. senders'[r] = RemoveFirst(senders[r], p)
      BY <1>0, <1>1, <2>2 DEF SenderTypes
    <3> QED
      BY <2>1, <3>1, RemoveFirstRemoves
  <2>3. CASE r # at[p]
    <3>1. senders'[r] = senders[r]
      BY <1>0, <1>1, <2>3 DEF SenderTypes
    <3>2. p \notin ToSet(senders[r])
      BY <1>0, <2>3 DEF SenderTypes, WaitsOnce
    <3> QED
      BY <2>1, <3>1, <3>2
  <2> QED
    BY <2>2, <2>3
<1>4. SenderTypes'
  <2>1. senders' \in [Subs -> Seq(Calls)]
    BY <1>0, <1>1, <1>3 DEF SenderTypes
  <2>2. ASSUME NEW r \in Subs
        PROVE  /\ IsInjective(senders'[r])
               /\ \A q \in ToSet(senders'[r]) : pc'[q] = "blocked" /\ at'[q] = r /\ msg'[q] <= BatchSize
    <3>1. \A q \in ToSet(senders[r]) : q \in Calls
      BY <1>0, OfferedIsMessage
    <3> QED
      BY <1>0, <1>1, <1>3, <3>1 DEF SenderTypes, WaitsOnce, HasMessage, CallTypes
  <2> QED
    BY <2>1, <2>2 DEF SenderTypes, WaitsOnce, HasMessage
<1>5. StreamTypes'
  <2>1. \A r \in Subs : senders'[r] # <<>> => senders[r] # <<>>
    <3> SUFFICES ASSUME NEW r \in Subs, senders'[r] # <<>> PROVE senders[r] # <<>>
      OBVIOUS
    <3>1. Head(senders'[r]) \in ToSet(senders[r])
      BY <1>3, TailRemoves
    <3>2. ToSet(<<>>) = {}
      BY DEF ToSet
    <3> QED
      BY <3>1, <3>2
  <2>2. Backpressure'
    BY <1>0, <1>1, <2>1 DEF StreamTypes, Backpressure
  <2>3. SleepsEmpty' /\ InboxHoldsOne'
    BY <1>0, <1>1, <2>1 DEF StreamTypes, SleepsEmpty, InboxHoldsOne
  <2> QED
    BY <1>0, <1>1, <2>2, <2>3 DEF StreamTypes, histVars
<1>6. ListTypes' /\ IterTypes'
  BY <1>0, <1>1, KeepLists, KeepIters DEF ListTypes, IterTypes
<1>7. CallTypes' /\ CloserTypes' /\ HistTypes'
  BY <1>0, <1>1, <1>2, KeepCalls, KeepClosers, KeepHist DEF CallTypes, HistTypes, histVars
<1> QED
  BY <1>4, <1>5, <1>6, <1>7 DEF StreamInv

\* close()
LEMMA CloseKeeps ==
    ASSUME StreamInv, NEW c \in Closers, CloseBegins(c) \/ CloseStep(c)
    PROVE  StreamInv'
<1>0. /\ ListTypes /\ IterTypes /\ StreamTypes /\ SenderTypes
      /\ CallTypes /\ CloserTypes /\ HistTypes
  BY DEF StreamInv
<1>1. /\ UNCHANGED <<subscribers, buffer, senders, inbox, recvClosed, it, callVars>>
      /\ UNCHANGED <<received, passedOver, before>>
      /\ closed' \in BOOLEAN /\ topics' \subseteq topics
      /\ loop' \in {None, c} /\ sendClosed \subseteq sendClosed'
  BY <1>0 DEF CloseBegins, CloseStep, CloseStream, CloseNextTopic, CloseReturns, CloseRaises,
              streamVars, histVars, ListTypes
<1>2. ListTypes'
  <2>1. ListedOnce'
    BY <1>0, <1>1 DEF ListTypes, ListedOnce
  <2> QED
    BY <1>0, <1>1, <2>1 DEF ListTypes
<1>3. HasStream(c) => subscribers[ctopic[c]][cpos[c]] \in Subs
  <2> SUFFICES ASSUME HasStream(c) PROVE subscribers[ctopic[c]][cpos[c]] \in Subs
    OBVIOUS
  <2>1. ctopic[c] \in Topics /\ cpos[c] \in Positive /\ cpos[c] <= Len(subscribers[ctopic[c]])
    BY <1>0 DEF CloserTypes, HasStream
  <2>2. subscribers[ctopic[c]] \in Seq(Subs) /\ Len(subscribers[ctopic[c]]) \in Nat
    BY <1>0, <2>1, LenProperties DEF ListTypes
  <2>3. cpos[c] \in 1..Len(subscribers[ctopic[c]])
    BY <2>1, <2>2 DEF Positive
  <2> QED
    BY <2>2, <2>3, ElementOfSeq
<1>4. sendClosed' \subseteq Subs
  BY <1>0, <1>3 DEF IterTypes, CloseBegins, CloseStep, CloseStream, CloseNextTopic, CloseReturns,
                    CloseRaises, streamVars
<1>5. IterTypes' /\ StreamTypes' /\ SenderTypes'
  BY <1>0, <1>1, <1>4, KeepIters, KeepStreams, KeepSenders DEF callVars
<1>6. CallTypes'
  BY <1>0, <1>1, Names, KeepCalls DEF callVars, CallTypes
<1>7. CloserTypes'
  <2>1. CASE CloseBegins(c)
    BY <1>0, <2>1 DEF CloseBegins, CloserTypes, CloseStates, ListTypes
  <2>2. CASE CloseStream(c)
    BY <1>0, <2>2 DEF CloseStream, CloserTypes, Positive
  <2>3. CASE CloseNextTopic(c)
    BY <1>0, <2>3 DEF CloseNextTopic, CloserTypes, Positive
  <2>4. CASE CloseReturns(c)
    BY <1>0, <2>4 DEF CloseReturns, CloserTypes, CloseStates
  <2>5. CASE CloseRaises(c)
    BY <1>0, <2>5 DEF CloseRaises, CloserTypes, CloseStates
  <2> QED
    BY <2>1, <2>2, <2>3, <2>4, <2>5 DEF CloseStep
<1>8. audience' \in [Tasks -> SUBSET Subs]
  <2>1. CASE CloseBegins(c)
    <3>1. UNION {ToSet(subscribers[t]) : t \in topics} \subseteq Subs
      BY <1>0, LenProperties, ElementOfSeq DEF ListTypes, ToSet
    <3> QED
      BY <1>0, <2>1, <3>1 DEF CloseBegins, HistTypes
  <2>2. CASE CloseStep(c)
    BY <1>0, <2>2 DEF CloseStep, CloseStream, CloseNextTopic, CloseReturns, CloseRaises, histVars,
                      HistTypes
  <2> QED
    BY <2>1, <2>2
<1>9. HistTypes'
  BY <1>0, <1>1, <1>8, KeepHist DEF HistTypes
<1> QED
  BY <1>2, <1>5, <1>6, <1>7, <1>9 DEF StreamInv

-----------------------------------------------------------------------------
\* A stuttering step.
LEMMA StutterKeeps == ASSUME StreamInv, UNCHANGED vars PROVE StreamInv'
<1>0. /\ ListTypes /\ IterTypes /\ StreamTypes /\ SenderTypes
      /\ CallTypes /\ CloserTypes /\ HistTypes
  BY DEF StreamInv
<1>1. /\ UNCHANGED <<closed, topics, subscribers, streamVars, it, callVars, closeVars>>
      /\ UNCHANGED <<loop, histVars>>
  BY DEF vars
<1>2. ListTypes' /\ IterTypes'
  BY <1>0, <1>1, KeepLists, KeepIters DEF ListTypes, IterTypes, streamVars
<1>3. StreamTypes' /\ SenderTypes'
  BY <1>0, <1>1, KeepStreams, KeepSenders DEF streamVars, callVars, histVars
<1>4. CallTypes' /\ CloserTypes' /\ HistTypes'
  BY <1>0, <1>1, KeepCalls, KeepClosers, KeepHist DEF CallTypes, HistTypes, callVars, histVars
<1> QED
  BY <1>2, <1>3, <1>4 DEF StreamInv

\* An iteration that ends by its finally block.
LEMMA CleansUp ==
    ASSUME NEW s \in Subs, EndOfStream(s) \/ Finalise(s) \/ CancelScope(s)
    PROVE  /\ it[s] \in {"active", "wait", "fin"} /\ loop = None
           /\ \E x \in {"unsent", "zombie"} : CleanUp(s, x)
BY DEF EndOfStream, Finalise, CancelScope, Drained

\* Every step keeps the types and backpressure.
LEMMA StreamInvNext == StreamInv /\ [Next]_vars => StreamInv'
<1> SUFFICES ASSUME StreamInv, [Next]_vars PROVE StreamInv'
  OBVIOUS
<1>1. ASSUME NEW s \in Subs, Subscribe(s) \/ StartIterating(s) \/ Iterate(s) \/ Leave(s) \/ CancelScope(s)
      PROVE  StreamInv'
  <2>1. CASE EndOfStream(s) \/ Finalise(s) \/ CancelScope(s)
    BY <2>1, CleansUp, CleanUpKeeps
  <2>2. CASE Subscribe(s) \/ StartIterating(s) \/ ReceiveWaits(s) \/ Leave(s)
    BY <2>2, SubscribeKeeps, IterationKeeps
  <2>3. CASE ReceiveFromSender(s) \/ ReceiveFromBuffer(s) \/ TakeHandedOver(s) \/ CloseReceiver(s)
    BY <2>3, ReceiveFromSenderKeeps, ReceiveKeeps, CloseReceiverKeeps
  <2> QED
    BY <1>1, <2>1, <2>2, <2>3 DEF Iterate, Receive
<1>2. ASSUME NEW p \in Calls, PublishStep(p) \/ CancelPublish(p)
      PROVE  StreamInv'
  BY <1>2, EndingKeeps, PublishKeeps, SendRefusedKeeps, SendHandsOverKeeps, SendBuffersKeeps,
     SendBlocksKeeps, NextMessageKeeps, CancelPublishKeeps DEF PublishStep, Ending
<1>3. ASSUME NEW c \in Closers, CloseBegins(c) \/ CloseStep(c)
      PROVE  StreamInv'
  BY <1>3, CloseKeeps
<1> QED
  BY <1>1, <1>2, <1>3, StutterKeeps DEF Next

\* The types, for any numbers of topics, subscriptions, publishers and closers.
THEOREM StreamTyping == Spec => []TypeOK
<1>1. Spec => []StreamInv
  BY StreamInvInit, StreamInvNext, PTL DEF Spec
<1> QED
  BY <1>1, StreamInvImplies, PTL

\* Backpressure: no stream holds more than its buffer has room for, a publisher waits only at
\* a full one, and an item is handed over directly exactly to a receiver that has not resumed.
THEOREM StreamsPressBack == Spec => []Backpressure
<1>1. Spec => []StreamInv
  BY StreamInvInit, StreamInvNext, PTL DEF Spec
<1> QED
  BY <1>1, StreamInvImplies, PTL

-----------------------------------------------------------------------------
(* What happens to a pipeline                                              *)

\* A non-empty sequence is its head before its tail.
LEMMA HeadThenTail ==
    ASSUME NEW S, NEW b \in Seq(S), b # <<>>
    PROVE  b = <<Head(b)>> \o Tail(b)
<1> DEFINE h == <<Head(b)>>
           r == Tail(b)
<1>1. Head(b) \in S /\ r \in Seq(S) /\ Len(r) = Len(b) - 1 /\ \A i \in 1..Len(r) : r[i] = b[i + 1]
  BY HeadTailProperties
<1>2. h \in Seq(S) /\ Len(h) = 1 /\ h[1] = b[1]
  BY <1>1
<1>3. Len(b) \in Nat /\ Len(b) > 0
  BY EmptySeq, LenProperties
<1> HIDE DEF h, r
<1>4. /\ h \o r \in Seq(S) /\ Len(h \o r) = Len(h) + Len(r)
      /\ \A i \in 1..(Len(h) + Len(r)) : (h \o r)[i] = IF i <= Len(h) THEN h[i] ELSE r[i - Len(h)]
  <2>1. h \in Seq(S) /\ r \in Seq(S)
    BY <1>1, <1>2
  <2> QED
    BY <2>1, ConcatProperties
<1>5. Len(h \o r) = Len(b)
  BY <1>1, <1>2, <1>3, <1>4
<1>6. ASSUME NEW i \in 1..Len(b)
      PROVE  (h \o r)[i] = b[i]
  <2>1. CASE i = 1
    BY <1>1, <1>2, <1>3, <1>4, <2>1
  <2>2. CASE i # 1
    <3>1. i - 1 \in 1..Len(r) /\ i - 1 + 1 = i
      BY <1>1, <1>3, <2>2
    <3>2. r[i - 1] = b[i]
      BY <1>1, <3>1
    <3> QED
      BY <1>1, <1>2, <1>3, <1>4, <2>2, <3>2
  <2> QED
    BY <2>1, <2>2
<1> QED
  BY <1>4, <1>5, <1>6, SeqEqual DEF h, r

\* Moving the head of one sequence to the end of the one before it changes nothing.
LEMMA MoveHead ==
    ASSUME NEW S, NEW a \in Seq(S), NEW b \in Seq(S), b # <<>>
    PROVE  Append(a, Head(b)) \o Tail(b) = a \o b
<1>1. Head(b) \in S /\ Tail(b) \in Seq(S) /\ <<Head(b)>> \in Seq(S)
  BY HeadTailProperties
<1>2. Append(a, Head(b)) = a \o <<Head(b)>>
  BY <1>1, AppendIsConcat
<1>3. (a \o <<Head(b)>>) \o Tail(b) = a \o (<<Head(b)>> \o Tail(b))
  BY <1>1, ConcatAssociative
<1> QED
  BY <1>2, <1>3, HeadThenTail

\* An element at the end of the second sequence is at the end of both.
LEMMA AppendToSecond ==
    ASSUME NEW S, NEW a \in Seq(S), NEW b \in Seq(S), NEW x \in S
    PROVE  a \o Append(b, x) = Append(a \o b, x)
<1>1. <<x>> \in Seq(S) /\ a \o b \in Seq(S)
  BY ConcatProperties
<1>2. Append(b, x) = b \o <<x>> /\ Append(a \o b, x) = (a \o b) \o <<x>>
  BY <1>1, AppendIsConcat
<1> QED
  BY <1>1, <1>2, ConcatAssociative

\* What the stream has taken from its senders.
Base(s) == received[s] \o inbox[s] \o buffer[s]

\* A pipeline is what the stream has taken and what its senders bring.
LEMMA PipelineIsBase == \A s : Pipeline(s) = Base(s) \o Waiting(s)
BY DEF Pipeline, Base

\* The pipeline of a stream is a sequence of messages, those of its senders last.
PipelineTypes ==
    \A s \in Subs :
        /\ Waiting(s) \in Seq(Message) /\ Len(Waiting(s)) = Len(senders[s])
        /\ \A i \in 1..Len(senders[s]) : Waiting(s)[i] = Item(senders[s][i])
        /\ received[s] \o inbox[s] \in Seq(Message)
        /\ Base(s) \in Seq(Message) /\ Pipeline(s) \in Seq(Message)

\* Pipelines are sequences of messages.
LEMMA PipelineTyping == StreamInv => PipelineTypes
<1> SUFFICES ASSUME StreamInv, NEW s \in Subs
             PROVE  /\ Waiting(s) \in Seq(Message) /\ Len(Waiting(s)) = Len(senders[s])
                    /\ \A i \in 1..Len(senders[s]) : Waiting(s)[i] = Item(senders[s][i])
                    /\ received[s] \o inbox[s] \in Seq(Message)
                    /\ Base(s) \in Seq(Message) /\ Pipeline(s) \in Seq(Message)
  BY DEF PipelineTypes
<1>0. StreamTypes /\ SenderTypes /\ CallTypes
  BY DEF StreamInv
<1>1. /\ senders[s] \in Seq(Calls) /\ Len(senders[s]) \in Nat
      /\ DOMAIN senders[s] = 1..Len(senders[s])
  BY <1>0, LenProperties DEF SenderTypes
<1>2. \A i \in 1..Len(senders[s]) : Item(senders[s][i]) \in Message
  BY <1>0, <1>1, OfferedIsMessage DEF ToSet
<1>3. /\ Waiting(s) \in [1..Len(senders[s]) -> Message]
      /\ \A i \in 1..Len(senders[s]) : Waiting(s)[i] = Item(senders[s][i])
  BY <1>1, <1>2 DEF Waiting
<1>4. Waiting(s) \in Seq(Message)
  BY <1>1, <1>3, SeqDef
<1>5. Len(Waiting(s)) = Len(senders[s])
  BY <1>1, <1>3, <1>4, LenProperties
<1>6. received[s] \o inbox[s] \in Seq(Message)
  BY <1>0, ConcatProperties DEF StreamTypes
<1>7. Base(s) \in Seq(Message)
  BY <1>0, <1>6, ConcatProperties DEF StreamTypes, Base
<1>8. Pipeline(s) \in Seq(Message)
  BY <1>4, <1>7, ConcatProperties, PipelineIsBase
<1> QED
  BY <1>3, <1>4, <1>5, <1>6, <1>7, <1>8

\* Nobody waits, nothing is waited for.
LEMMA NobodyWaits ==
    ASSUME PipelineTypes, NEW s \in Subs, senders[s] = <<>>
    PROVE  Waiting(s) = <<>> /\ Pipeline(s) = Base(s)
<1>1. Waiting(s) \in Seq(Message) /\ Len(Waiting(s)) = 0 /\ Base(s) \in Seq(Message)
  BY EmptySeq, LenProperties DEF PipelineTypes
<1>2. Waiting(s) = <<>>
  BY <1>1, EmptySeq
<1> QED
  BY <1>1, <1>2, ConcatEmptySeq, PipelineIsBase

\* Steps that do not touch the stream, or the messages its senders bring.
LEMMA PipelineStays ==
    ASSUME PipelineTypes, PipelineTypes', NEW s \in Subs,
           received'[s] = received[s], inbox'[s] = inbox[s], buffer'[s] = buffer[s],
           senders'[s] = senders[s],
           \A q \in ToSet(senders[s]) : msg'[q] = msg[q]
    PROVE  Pipeline(s)' = Pipeline(s)
<1>1. Base(s)' = Base(s)
  BY DEF Base
<1>2. Waiting(s)' = Waiting(s)
  BY DEF Waiting, Item, ToSet
<1> QED
  BY <1>1, <1>2, PipelineIsBase DEF Pipeline, Base

\* receive() takes nothing out of the pipeline.
LEMMA ReceivedStays ==
    ASSUME StreamInv, StreamInv', NEW s \in Subs,
           ReceiveFromSender(s) \/ ReceiveFromBuffer(s) \/ TakeHandedOver(s)
    PROVE  Pipeline(s)' = Pipeline(s)
<1>0. /\ PipelineTypes /\ PipelineTypes'
      /\ IterTypes /\ StreamTypes /\ SenderTypes /\ CallTypes
  <2>1. PipelineTypes'
    BY PipelineTyping, PTL
  <2> QED
    BY <2>1, PipelineTyping DEF StreamInv
<1>1. /\ received[s] \in Seq(Message) /\ inbox[s] \in Seq(Message) /\ buffer[s] \in Seq(Message)
      /\ it[s] # "given" => inbox[s] = <<>>
  BY <1>0 DEF StreamTypes, Backpressure
<1>2. CASE ReceiveFromSender(s)
  <2> DEFINE R == Refilled(s)
             W == Waiting(s)
             V == Waiting(s)'
  <2>1. /\ it[s] = "active" /\ senders[s] # <<>> /\ msg' = msg
        /\ senders'[s] = Tail(senders[s]) /\ inbox'[s] = inbox[s]
        /\ buffer'[s] = Tail(R) /\ received'[s] = Append(received[s], Head(R))
    BY <1>0, <1>2 DEF ReceiveFromSender, Deliver, SenderTypes, StreamTypes
  <2>2. inbox[s] = <<>>
    BY <1>1, <2>1
  <2>3. /\ senders[s] \in Seq(Calls) /\ Len(senders[s]) \in Nat /\ Len(senders[s]) > 0
        /\ Tail(senders[s]) \in Seq(Calls) /\ Len(Tail(senders[s])) = Len(senders[s]) - 1
        /\ \A i \in 1..(Len(senders[s]) - 1) : Tail(senders[s])[i] = senders[s][i + 1]
        /\ Head(senders[s]) = senders[s][1]
    BY <1>0, <2>1, EmptySeq, LenProperties, HeadTailProperties DEF SenderTypes
  <2>4. /\ W \in Seq(Message) /\ Len(W) = Len(senders[s])
        /\ \A i \in 1..Len(senders[s]) : W[i] = Item(senders[s][i])
        /\ V \in Seq(Message) /\ Len(V) = Len(senders'[s])
    BY <1>0 DEF PipelineTypes
  <2>5. \A i \in 1..Len(senders'[s]) : V[i] = <<senders'[s][i], msg'[senders'[s][i]]>>
    BY <1>0 DEF PipelineTypes, Item
  <2> HIDE DEF W, V, R
  <2>6. W # <<>> /\ Head(W) = Offered(s)
    <3>1. W # <<>> /\ W[1] = Item(senders[s][1])
      BY <2>3, <2>4, EmptySeq, LenProperties
    <3> QED
      BY <2>3, <2>4, <3>1 DEF Offered
  <2>7. V = Tail(W)
    <3>1. /\ Tail(W) \in Seq(Message) /\ Len(Tail(W)) = Len(W) - 1
          /\ \A i \in 1..(Len(W) - 1) : Tail(W)[i] = W[i + 1]
      BY <2>4, <2>6, HeadTailProperties
    <3>2. Len(V) = Len(Tail(W))
      BY <2>1, <2>3, <2>4, <3>1
    <3>3. ASSUME NEW i \in 1..Len(V)
          PROVE  V[i] = Tail(W)[i]
      <4>1. i \in 1..Len(senders'[s]) /\ i \in 1..(Len(senders[s]) - 1) /\ i + 1 \in 1..Len(senders[s])
            /\ i \in 1..(Len(W) - 1)
        BY <2>1, <2>3, <2>4
      <4>2. senders'[s][i] = senders[s][i + 1]
        BY <2>1, <2>3, <4>1
      <4>3. V[i] = <<senders[s][i + 1], msg[senders[s][i + 1]]>>
        BY <2>1, <2>5, <4>1, <4>2
      <4>4. W[i + 1] = <<senders[s][i + 1], msg[senders[s][i + 1]]>>
        BY <2>4, <4>1 DEF Item
      <4> QED
        BY <3>1, <4>1, <4>3, <4>4
    <3> QED
      BY <2>4, <3>1, <3>2, <3>3, SeqEqual
  <2>8. R = Append(buffer[s], Head(W)) /\ Head(W) \in Message
    BY <2>4, <2>6, HeadTailProperties DEF R, Refilled
  <2>9. R \in Seq(Message) /\ R # <<>>
    BY <1>1, <2>8, AppendProperties
  <2>10. Base(s) = received[s] \o buffer[s]
    BY <1>1, <2>2, ConcatEmptySeq DEF Base
  <2>11. Base(s)' = received[s] \o R
    <3>1. Append(received[s], Head(R)) \in Seq(Message)
      BY <1>1, <2>9, HeadTailProperties, AppendProperties
    <3>2. Base(s)' = Append(received[s], Head(R)) \o Tail(R)
      BY <2>1, <2>2, <3>1, ConcatEmptySeq DEF Base
    <3> QED
      BY <1>1, <2>9, <3>2, MoveHead
  <2>12. received[s] \o R = Append(Base(s), Head(W))
    <3>1. PICK a, b, x : a = received[s] /\ b = buffer[s] /\ x = Head(W)
      OBVIOUS
    <3>2. a \in Seq(Message) /\ b \in Seq(Message) /\ x \in Message
      BY <1>1, <2>8, <3>1
    <3>3. a \o Append(b, x) = Append(a \o b, x)
      BY <3>2, AppendToSecond
    <3> QED
      BY <2>8, <2>10, <3>1, <3>3, Zenon
  <2>13. Append(Base(s), Head(W)) \o Tail(W) = Base(s) \o W
    BY <1>0, <2>4, <2>6, MoveHead DEF PipelineTypes
  <2>14. Pipeline(s)' = Base(s)' \o V
    BY DEF Pipeline, Base, V
  <2> QED
    BY <2>7, <2>11, <2>12, <2>13, <2>14, PipelineIsBase DEF W
<1>3. CASE ReceiveFromBuffer(s)
  <2>1. /\ it[s] = "active" /\ buffer[s] # <<>> /\ msg' = msg
        /\ senders'[s] = senders[s] /\ inbox'[s] = inbox[s]
        /\ buffer'[s] = Tail(buffer[s]) /\ received'[s] = Append(received[s], Head(buffer[s]))
    BY <1>0, <1>3 DEF ReceiveFromBuffer, Deliver, StreamTypes, callVars
  <2>2. inbox[s] = <<>>
    BY <1>1, <2>1
  <2>3. Append(received[s], Head(buffer[s])) \in Seq(Message)
    BY <1>1, <2>1, HeadTailProperties, AppendProperties
  <2>4. Base(s)' = Append(received[s], Head(buffer[s])) \o Tail(buffer[s])
    BY <2>1, <2>2, <2>3, ConcatEmptySeq DEF Base
  <2>5. Base(s) = received[s] \o buffer[s]
    BY <1>1, <2>2, ConcatEmptySeq DEF Base
  <2>6. Base(s)' = Base(s)
    BY <1>1, <2>1, <2>4, <2>5, MoveHead
  <2>7. Waiting(s)' = Waiting(s)
    BY <2>1 DEF Waiting, Item
  <2>8. Pipeline(s)' = Base(s)' \o Waiting(s)'
    BY DEF Pipeline, Base
  <2> QED
    BY <2>6, <2>7, <2>8, PipelineIsBase
<1>4. CASE TakeHandedOver(s)
  <2>1. /\ it[s] = "given" /\ msg' = msg
        /\ senders'[s] = senders[s] /\ inbox'[s] = <<>> /\ buffer'[s] = buffer[s]
        /\ received'[s] = Append(received[s], Head(inbox[s]))
    BY <1>0, <1>4 DEF TakeHandedOver, Deliver, StreamTypes, callVars
  <2>2. inbox[s] # <<>> /\ Len(inbox[s]) = 1
    BY <1>0, <2>1 DEF StreamTypes, Backpressure, InboxHoldsOne
  <2>3. Tail(inbox[s]) = <<>> /\ Append(received[s], Head(inbox[s])) \in Seq(Message)
    <3>1. /\ Tail(inbox[s]) \in Seq(Message) /\ Len(Tail(inbox[s])) = 0
          /\ Head(inbox[s]) \in Message
      BY <1>1, <2>2, HeadTailProperties
    <3> QED
      BY <1>1, <3>1, EmptySeq, AppendProperties
  <2>4. Append(received[s], Head(inbox[s])) \o <<>> = received[s] \o inbox[s]
    BY <1>1, <2>2, <2>3, MoveHead
  <2>5. Base(s)' = Base(s)
    BY <2>1, <2>4 DEF Base
  <2>6. Waiting(s)' = Waiting(s)
    BY <2>1 DEF Waiting, Item
  <2>7. Pipeline(s)' = Base(s)' \o Waiting(s)'
    BY DEF Pipeline, Base
  <2> QED
    BY <2>5, <2>6, <2>7, PipelineIsBase
<1> QED
  BY <1>2, <1>3, <1>4

\* send() adds its item at the end.
LEMMA SentIsAppended ==
    ASSUME StreamInv, StreamInv', NEW p \in Calls, NEW s, s = Stream(p),
           SendHandsOver(p) \/ SendBuffers(p) \/ SendBlocks(p)
    PROVE  Pipeline(s)' = Append(Pipeline(s), Item(p))
<1>0. /\ PipelineTypes /\ PipelineTypes'
      /\ IterTypes /\ StreamTypes /\ SenderTypes /\ CallTypes
  <2>1. PipelineTypes'
    BY PipelineTyping, PTL
  <2> QED
    BY <2>1, PipelineTyping DEF StreamInv
<1>1. /\ AtStream(p) /\ loop' \in Tasks \cup {None} /\ pc' \in [Calls -> CallStates]
      /\ \A r \in Subs : it'[r] = "none" => it[r] = "none"
  <2>1. AtStream(p) /\ IterTypes' /\ CallTypes'
    BY DEF SendHandsOver, SendBuffers, SendBlocks, StreamInv
  <2>2. it' = it \/ it' = [it EXCEPT ![s] = "given"]
    BY DEF SendHandsOver, SendBuffers, SendBlocks
  <2> QED
    BY <1>0, <2>1, <2>2 DEF IterTypes, CallTypes
<1>2. s \in Subs /\ Item(p) \in Message /\ pc[p] # "blocked"
  BY <1>1, AtStreamKeeps
<1>3. /\ UNCHANGED <<msg, received>> /\ Item(p)' = Item(p)
  BY <1>1 DEF AtStream, histVars, Item
<1>4. /\ received[s] \in Seq(Message) /\ inbox[s] \in Seq(Message) /\ buffer[s] \in Seq(Message)
  BY <1>0, <1>2 DEF StreamTypes
<1>5. CASE SendHandsOver(p)
  <2>1. /\ it[s] = "wait" /\ inbox' = [inbox EXCEPT ![s] = <<Item(p)>>]
        /\ UNCHANGED <<buffer, senders>>
    BY <1>5 DEF SendHandsOver, Awaited
  <2>2. /\ inbox'[s] = <<Item(p)>> /\ inbox[s] = <<>> /\ buffer[s] = <<>> /\ senders[s] = <<>>
        /\ buffer'[s] = <<>> /\ senders'[s] = <<>>
    BY <1>0, <1>2, <2>1 DEF StreamTypes, Backpressure, SleepsEmpty
  <2> PICK a, x : a = received[s] /\ x = Item(p)
    OBVIOUS
  <2>3. a \in Seq(Message) /\ x \in Message /\ <<x>> \in Seq(Message) /\ a \o <<x>> \in Seq(Message)
    BY <1>2, <1>4, ConcatProperties
  <2>4. Base(s) = a
    <3>1. Base(s) = (a \o <<>>) \o <<>>
      BY <2>2 DEF Base
    <3> QED
      BY <2>3, <3>1, ConcatEmptySeq
  <2>5. Base(s)' = a \o <<x>>
    <3>1. Base(s)' = (a \o <<x>>) \o <<>>
      BY <1>3, <2>2 DEF Base
    <3> QED
      BY <2>3, <3>1, ConcatEmptySeq
  <2>6. Pipeline(s) = Base(s)
    BY <1>0, <1>2, <2>2, NobodyWaits
  <2>7. Pipeline(s)' = Base(s)' \o Waiting(s)'
    BY DEF Pipeline, Base
  <2>8. Waiting(s)' = <<>>
    <3>1. Waiting(s)' \in Seq(Message) /\ Len(Waiting(s)') = Len(senders'[s])
      BY <1>0, <1>2 DEF PipelineTypes
    <3> QED
      BY <2>2, <3>1, EmptySeq, LenProperties
  <2>9. Pipeline(s)' = a \o <<x>>
    BY <2>3, <2>5, <2>7, <2>8, ConcatEmptySeq
  <2> QED
    BY <2>3, <2>4, <2>6, <2>9, AppendIsConcat
<1>6. CASE SendBuffers(p)
  <2>1. /\ buffer' = [buffer EXCEPT ![s] = Append(@, Item(p))] /\ UNCHANGED <<senders, inbox>>
    BY <1>6 DEF SendBuffers
  <2>2. senders[s] = <<>> /\ senders'[s] = <<>>
    BY <1>6, <2>1, SendBuffersKeeps
  <2>0. PICK a, b, x : a = received[s] \o inbox[s] /\ b = buffer[s] /\ x = Item(p)
    OBVIOUS
  <2>3. a \in Seq(Message) /\ b \in Seq(Message) /\ x \in Message
    BY <1>2, <1>4, <2>0, ConcatProperties
  <2>4. buffer'[s] = Append(b, x)
    BY <1>0, <1>2, <2>0, <2>1 DEF StreamTypes
  <2>5. Base(s) = a \o b
    BY <2>0 DEF Base
  <2>6. Base(s)' = a \o Append(b, x)
    BY <1>3, <2>0, <2>1, <2>4 DEF Base
  <2>7. Pipeline(s) = Base(s)
    BY <1>0, <1>2, <2>2, NobodyWaits
  <2>8. Pipeline(s)' = Base(s)' \o Waiting(s)' /\ Base(s)' \in Seq(Message)
    BY <1>0, <1>2 DEF Pipeline, Base, PipelineTypes
  <2>9. Waiting(s)' = <<>>
    <3>1. Waiting(s)' \in Seq(Message) /\ Len(Waiting(s)') = Len(senders'[s])
      BY <1>0, <1>2 DEF PipelineTypes
    <3> QED
      BY <2>2, <3>1, EmptySeq, LenProperties
  <2>10. Pipeline(s)' = a \o Append(b, x)
    BY <2>6, <2>8, <2>9, ConcatEmptySeq
  <2>11. a \o Append(b, x) = Append(a \o b, x)
    BY <2>3, AppendToSecond
  <2> QED
    BY <2>0, <2>5, <2>7, <2>10, <2>11, Zenon
<1>7. CASE SendBlocks(p)
  <2>1. senders' = [senders EXCEPT ![s] = Append(@, p)] /\ UNCHANGED <<inbox, buffer>>
    BY <1>7 DEF SendBlocks
  <2>2. senders'[s] = Append(senders[s], p) /\ senders[s] \in Seq(Calls)
    BY <1>0, <1>2, <2>1 DEF SenderTypes
  <2>0. PICK b, w, v, x : b = Base(s) /\ w = Waiting(s) /\ v = Waiting(s)' /\ x = Item(p)
    OBVIOUS
  <2>3. /\ b \in Seq(Message) /\ w \in Seq(Message) /\ v \in Seq(Message) /\ x \in Message
        /\ Len(w) = Len(senders[s]) /\ Len(v) = Len(senders'[s])
        /\ \A i \in 1..Len(senders[s]) : w[i] = Item(senders[s][i])
    BY <1>0, <1>2, <2>0 DEF PipelineTypes
  <2>4. \A i \in 1..Len(senders'[s]) : v[i] = <<senders'[s][i], msg[senders'[s][i]]>>
    BY <1>0, <1>2, <1>3, <2>0 DEF PipelineTypes, Item
  <2>5. /\ Len(senders'[s]) = Len(senders[s]) + 1 /\ senders'[s][Len(senders[s]) + 1] = p
        /\ \A i \in 1..Len(senders[s]) : senders'[s][i] = senders[s][i]
        /\ Len(senders[s]) \in Nat
    BY <2>2, AppendProperties, LenProperties
  <2>6. v = Append(w, x)
    <3>1. /\ Append(w, x) \in Seq(Message) /\ Len(Append(w, x)) = Len(w) + 1
          /\ \A i \in 1..Len(w) : Append(w, x)[i] = w[i]
          /\ Append(w, x)[Len(w) + 1] = x
      BY <2>3, AppendProperties
    <3>2. ASSUME NEW i \in 1..Len(v)
          PROVE  v[i] = Append(w, x)[i]
      <4>1. CASE i = Len(senders[s]) + 1
        <5>1. v[i] = <<p, msg[p]>>
          <6>1. i \in 1..Len(senders'[s])
            BY <2>3, Zenon
          <6>2. senders'[s][i] = p
            BY <2>5, <4>1, Zenon
          <6> QED
            BY <2>4, <6>1, <6>2, Zenon
        <5>2. Append(w, x)[i] = Item(p)
          BY <2>0, <2>3, <3>1, <4>1
        <5> QED
          BY <5>1, <5>2 DEF Item
      <4>2. CASE i # Len(senders[s]) + 1
        <5>1. i \in 1..Len(senders[s]) /\ i \in 1..Len(senders'[s])
          BY <2>3, <2>5, <4>2
        <5>2. v[i] = <<senders[s][i], msg[senders[s][i]]>>
          BY <2>4, <2>5, <5>1
        <5> QED
          BY <2>3, <3>1, <5>1, <5>2 DEF Item
      <4> QED
        BY <4>1, <4>2
    <3>3. Len(v) = Len(Append(w, x))
      BY <2>3, <2>5, <3>1
    <3> QED
      BY <2>3, <3>1, <3>2, <3>3, SeqEqual
  <2>7. Base(s)' = b
    BY <1>3, <2>0, <2>1 DEF Base
  <2>8. Pipeline(s)' = Base(s)' \o Waiting(s)'
    BY DEF Pipeline, Base
  <2>9. b \o Append(w, x) = Append(b \o w, x)
    BY <2>3, AppendToSecond
  <2> QED
    BY <2>0, <2>6, <2>7, <2>8, <2>9, PipelineIsBase, Zenon
<1> QED
  BY <1>5, <1>6, <1>7

-----------------------------------------------------------------------------
\* The pipeline loses at most items of publishers that are cancelled, or all that its senders
\* bring because the subscription is gone; what is left keeps its order.
Kept(s, m) == m \in ToSet(Pipeline(s)') \/ Gone(s)' \/ pc'[m[1]] = "raised"
\* new is what is left of old, in its order.
Sublist(new, old) ==
    /\ Len(new) <= Len(old) /\ ToSet(new) \subseteq ToSet(old)
    /\ \A i, j \in 1..Len(new) : i < j =>
          \E k, l \in 1..Len(old) : k < l /\ new[i] = old[k] /\ new[j] = old[l]
Thinned(s) ==
    /\ Sublist(Pipeline(s)', Pipeline(s)) /\ Len(senders'[s]) <= Len(senders[s])
    /\ \A m \in ToSet(Pipeline(s)) : Kept(s, m)

\* A pipeline that stays as it is.
LEMMA SameIsThinned ==
    ASSUME StreamInv, NEW s \in Subs, Pipeline(s)' = Pipeline(s),
           Len(senders'[s]) <= Len(senders[s])
    PROVE  Thinned(s)
<1>1. Len(Pipeline(s)) \in Nat
  BY PipelineTyping, LenProperties DEF PipelineTypes
<1>2. Sublist(Pipeline(s), Pipeline(s))
  BY <1>1 DEF Sublist
<1> QED
  BY <1>2 DEF Thinned, Kept

\* v is w without the element at place k.
Without(v, w, k) ==
    /\ k \in 1..Len(w) /\ Len(v) = Len(w) - 1
    /\ \A i \in 1..Len(v) : v[i] = IF i < k THEN w[i] ELSE w[i + 1]

\* A sequence whose second part has lost an element.
LEMMA ThinnedAtEnd ==
    ASSUME NEW S, NEW a \in Seq(S), NEW w \in Seq(S), NEW v \in Seq(S), NEW k, Without(v, w, k),
           NEW new, new = a \o v, NEW old, old = a \o w
    PROVE  Sublist(new, old) /\ ToSet(old) \subseteq ToSet(new) \cup {w[k]}
<1>0. /\ k \in 1..Len(w) /\ Len(v) = Len(w) - 1
      /\ \A i \in 1..Len(v) : v[i] = IF i < k THEN w[i] ELSE w[i + 1]
  BY DEF Without
<1>1. Len(a) \in Nat /\ Len(w) \in Nat /\ Len(v) \in Nat
  BY LenProperties
<1>2. /\ new \in Seq(S) /\ Len(new) = Len(a) + Len(v)
      /\ \A i \in 1..(Len(a) + Len(v)) : new[i] = IF i <= Len(a) THEN a[i] ELSE v[i - Len(a)]
  BY ConcatProperties
<1>3. /\ old \in Seq(S) /\ Len(old) = Len(a) + Len(w)
      /\ \A i \in 1..(Len(a) + Len(w)) : old[i] = IF i <= Len(a) THEN a[i] ELSE w[i - Len(a)]
  BY ConcatProperties
<1>4. DOMAIN new = 1..Len(new) /\ DOMAIN old = 1..Len(old)
  BY <1>2, <1>3, LenProperties
<1> DEFINE up(i) == IF i < Len(a) + k THEN i ELSE i + 1
<1>5. \A i \in 1..Len(new) : up(i) \in 1..Len(old)
  BY <1>0, <1>1, <1>2, <1>3
<1>6. ASSUME NEW i \in 1..Len(new)
      PROVE  new[i] = old[up(i)]
  <2>0. i \in Nat /\ k \in Nat
    BY <1>0, <1>1, <1>2
  <2>1. CASE i <= Len(a)
    BY <1>0, <1>1, <1>2, <1>3, <1>5, <2>1
  <2>2. CASE i > Len(a)
    <3>1. i - Len(a) \in 1..Len(v) /\ new[i] = v[i - Len(a)]
      BY <1>0, <1>1, <1>2, <2>2
    <3>2. up(i) > Len(a) /\ old[up(i)] = w[up(i) - Len(a)]
      BY <1>0, <1>1, <1>3, <1>5, <2>2
    <3>3. CASE i - Len(a) < k
      <4>1. v[i - Len(a)] = w[i - Len(a)]
        BY <1>0, <3>1, <3>3
      <4>2. up(i) = i
        BY <1>0, <1>1, <3>3
      <4> QED
        BY <3>1, <3>2, <4>1, <4>2
    <3>4. CASE ~ (i - Len(a) < k)
      <4>1. v[i - Len(a)] = w[i - Len(a) + 1]
        BY <1>0, <3>1, <3>4
      <4>2. up(i) - Len(a) = i - Len(a) + 1
        BY <1>0, <1>1, <3>4
      <4> QED
        BY <3>1, <3>2, <4>1, <4>2
    <3> QED
      BY <3>3, <3>4
  <2> QED
    BY <1>0, <1>1, <2>0, <2>1, <2>2
<1>7. ASSUME NEW i \in 1..Len(new), NEW j \in 1..Len(new), i < j
      PROVE  \E g, h \in 1..Len(old) : g < h /\ new[i] = old[g] /\ new[j] = old[h]
  <2>1. up(i) < up(j)
    BY <1>0, <1>1, <1>2, <1>7
  <2> QED
    BY <1>5, <1>6, <2>1
<1>8. ToSet(new) \subseteq ToSet(old)
  <2> SUFFICES ASSUME NEW i \in 1..Len(new) PROVE new[i] \in ToSet(old)
    BY <1>4 DEF ToSet
  <2> QED
    BY <1>4, <1>5, <1>6 DEF ToSet
<1>9. ToSet(old) \subseteq ToSet(new) \cup {w[k]}
  <2> SUFFICES ASSUME NEW j \in 1..Len(old), old[j] # w[k] PROVE old[j] \in ToSet(new)
    BY <1>4 DEF ToSet
  <2>1. j # Len(a) + k
    <3>1. old[Len(a) + k] = w[k]
      BY <1>0, <1>1, <1>3
    <3> QED
      BY <3>1
  <2>2. CASE j < Len(a) + k
    <3>1. j \in 1..Len(new) /\ up(j) = j
      BY <1>0, <1>1, <1>2, <1>3, <2>2
    <3> QED
      BY <1>4, <1>6, <3>1 DEF ToSet
  <2>3. CASE j > Len(a) + k
    <3>1. j - 1 \in 1..Len(new) /\ up(j - 1) = j
      BY <1>0, <1>1, <1>2, <1>3, <2>3
    <3>2. new[j - 1] = old[j]
      BY <1>6, <3>1
    <3> QED
      BY <1>4, <3>1, <3>2 DEF ToSet
  <2>4. j \in Int /\ Len(a) + k \in Int
    BY <1>0, <1>1
  <2> QED
    BY <2>1, <2>2, <2>3, <2>4
<1>10. Len(new) <= Len(old)
  BY <1>0, <1>1, <1>2, <1>3
<1> QED
  BY <1>7, <1>8, <1>9, <1>10 DEF Sublist

\* Steps that leave a stream and what its senders bring alone.
LEMMA UntouchedIsThinned ==
    ASSUME StreamInv, StreamInv', NEW s \in Subs,
           received'[s] = received[s], inbox'[s] = inbox[s], buffer'[s] = buffer[s],
           senders'[s] = senders[s],
           \A q \in ToSet(senders[s]) : msg'[q] = msg[q]
    PROVE  Pipeline(s)' = Pipeline(s) /\ Thinned(s)
<1>1. PipelineTypes /\ PipelineTypes'
  <2>1. PipelineTypes'
    BY PipelineTyping, PTL
  <2> QED
    BY <2>1, PipelineTyping
<1>2. Pipeline(s)' = Pipeline(s)
  BY <1>1, PipelineStays
<1>3. Len(senders'[s]) <= Len(senders[s])
  BY LenProperties DEF StreamInv, SenderTypes
<1> QED
  BY <1>2, <1>3, SameIsThinned

\* The receive stream is closed: what waiting senders bring is dropped.
LEMMA ClosedReceiverIsThinned ==
    ASSUME StreamInv, StreamInv', NEW s \in Subs, CloseReceiver(s)
    PROVE  Thinned(s)
<1>0. PipelineTypes /\ PipelineTypes' /\ IterTypes /\ SenderTypes
  <2>1. PipelineTypes'
    BY PipelineTyping, PTL
  <2> QED
    BY <2>1, PipelineTyping DEF StreamInv
<1>1. Gone(s)' /\ senders'[s] = <<>> /\ UNCHANGED <<received, inbox, buffer>>
  BY <1>0 DEF CloseReceiver, Gone, IterTypes, SenderTypes, histVars
<1>2. Pipeline(s)' = Base(s)
  <2>1. Pipeline(s)' = Base(s)' \o Waiting(s)' /\ Base(s)' \in Seq(Message)
    BY <1>0 DEF Pipeline, Base, PipelineTypes
  <2>2. Waiting(s)' = <<>>
    <3>1. Waiting(s)' \in Seq(Message) /\ Len(Waiting(s)') = Len(senders'[s])
      BY <1>0 DEF PipelineTypes
    <3> QED
      BY <1>1, <3>1, EmptySeq, LenProperties
  <2>3. Base(s)' = Base(s)
    BY <1>1 DEF Base
  <2> QED
    BY <2>1, <2>2, <2>3, ConcatEmptySeq
<1>3. /\ Base(s) \in Seq(Message) /\ Waiting(s) \in Seq(Message)
      /\ senders[s] \in Seq(Calls) /\ senders'[s] \in Seq(Calls)
  BY <1>0, <1>1, EmptySeq DEF PipelineTypes, SenderTypes
<1>4. /\ Len(Base(s)) \in Nat /\ Len(Pipeline(s)) = Len(Base(s)) + Len(Waiting(s))
      /\ Len(Waiting(s)) \in Nat /\ Len(senders[s]) \in Nat /\ Len(senders'[s]) = 0
      /\ \A i \in 1..Len(Base(s)) : Pipeline(s)[i] = Base(s)[i]
      /\ Pipeline(s) \in Seq(Message)
  <2>0. PICK b, w : b = Base(s) /\ w = Waiting(s)
    OBVIOUS
  <2>1. b \in Seq(Message) /\ w \in Seq(Message)
    BY <1>3, <2>0
  <2>2. /\ b \o w \in Seq(Message) /\ Len(b \o w) = Len(b) + Len(w) /\ Len(b) \in Nat /\ Len(w) \in Nat
        /\ \A i \in 1..(Len(b) + Len(w)) : (b \o w)[i] = IF i <= Len(b) THEN b[i] ELSE w[i - Len(b)]
    BY <2>1, ConcatProperties, LenProperties
  <2>3. \A i \in 1..Len(b) : (b \o w)[i] = b[i]
    BY <2>2
  <2>4. Len(senders[s]) \in Nat /\ Len(senders'[s]) = 0
    BY <1>1, <1>3, EmptySeq, LenProperties
  <2> QED
    BY <2>0, <2>2, <2>3, <2>4, PipelineIsBase, Zenon
<1>5. PICK b, o : b = Base(s) /\ o = Pipeline(s)
  OBVIOUS
<1>6. /\ Len(b) \in Nat /\ Len(o) \in Nat /\ Len(b) <= Len(o) /\ \A i \in 1..Len(b) : o[i] = b[i]
      /\ DOMAIN b = 1..Len(b) /\ DOMAIN o = 1..Len(o)
  <2>1. b \in Seq(Message) /\ o \in Seq(Message)
    BY <1>3, <1>4, <1>5
  <2>2. Len(o) = Len(b) + Len(Waiting(s)) /\ Len(Waiting(s)) \in Nat /\ \A i \in 1..Len(b) : o[i] = b[i]
    BY <1>4, <1>5, Zenon
  <2> QED
    BY <2>1, <2>2, LenProperties
<1>7. ToSet(b) \subseteq ToSet(o)
  BY <1>6 DEF ToSet
<1>8. \A i, j \in 1..Len(b) : i < j => \E k, l \in 1..Len(o) : k < l /\ b[i] = o[k] /\ b[j] = o[l]
  BY <1>6
<1>11. Sublist(b, o)
  BY <1>6, <1>7, <1>8 DEF Sublist
<1>9. Pipeline(s)' = b /\ Pipeline(s) = o
  BY <1>2, <1>5
<1>10. Len(senders'[s]) <= Len(senders[s])
  BY <1>4
<1> QED
  BY <1>1, <1>9, <1>10, <1>11 DEF Thinned, Kept

\* A cancelled publisher withdraws its item.
LEMMA WithdrawnIsThinned ==
    ASSUME StreamInv, StreamInv', NEW s \in Subs, NEW p \in Calls, CancelPublish(p)
    PROVE  Thinned(s)
<1>0. PipelineTypes /\ PipelineTypes' /\ CallTypes /\ SenderTypes
  <2>1. PipelineTypes'
    BY PipelineTyping, PTL
  <2> QED
    BY <2>1, PipelineTyping DEF StreamInv
<1>1. /\ UNCHANGED <<received, inbox, buffer, msg>> /\ pc'[p] = "raised"
      /\ senders' = [senders EXCEPT ![at[p]] = RemoveFirst(@, p)]
      /\ senders[s] \in Seq(Calls) /\ IsInjective(senders[s])
  BY <1>0 DEF CancelPublish, Finish, histVars, CallTypes, SenderTypes, WaitsOnce
<1>2. DOMAIN senders[s] = 1..Len(senders[s])
  BY <1>1, LenProperties
<1>3. CASE at[p] # s
  <2>1. senders'[s] = senders[s]
    BY <1>0, <1>1, <1>3 DEF SenderTypes
  <2> QED
    BY <1>1, <2>1, UntouchedIsThinned
<1>4. CASE at[p] = s /\ p \notin ToSet(senders[s])
  <2>1. senders'[s] = senders[s]
    BY <1>0, <1>1, <1>4, RemoveFirstAbsent DEF SenderTypes
  <2> QED
    BY <1>1, <2>1, UntouchedIsThinned
<1>5. CASE at[p] = s /\ p \in ToSet(senders[s])
  <2>1. PICK k \in 1..Len(senders[s]) : senders[s][k] = p
    BY <1>2, <1>5 DEF ToSet
  <2>2. PICK q, r : q = senders[s] /\ r = RemoveFirst(q, p)
    OBVIOUS
  <2>3. /\ r \in Seq(Calls) /\ Len(r) = Len(q) - 1 /\ Len(q) \in Nat
        /\ \A i \in 1..(Len(q) - 1) : r[i] = IF i < k THEN q[i] ELSE q[i + 1]
    <3>1. q \in Seq(Calls) /\ IsInjective(q) /\ k \in 1..Len(q) /\ q[k] = p
      BY <1>1, <2>1, <2>2
    <3>2. /\ RemoveFirst(q, p) \in Seq(Calls) /\ Len(RemoveFirst(q, p)) = Len(q) - 1
          /\ \A i \in 1..(Len(q) - 1) : RemoveFirst(q, p)[i] = IF i < k THEN q[i] ELSE q[i + 1]
      BY <3>1, RemoveFirstAt
    <3>3. Len(q) \in Nat
      BY <3>1, LenProperties
    <3> QED
      BY <2>2, <3>2, <3>3, Zenon
  <2>4. senders'[s] = r
    BY <1>0, <1>1, <1>5, <2>2 DEF SenderTypes
  <2>5. PICK a, w, v : a = Base(s) /\ w = Waiting(s) /\ v = Waiting(s)'
    OBVIOUS
  <2>6. /\ a \in Seq(Message) /\ w \in Seq(Message) /\ v \in Seq(Message)
        /\ Len(w) = Len(q) /\ Len(v) = Len(r)
        /\ \A i \in 1..Len(q) : w[i] = <<q[i], msg[q[i]]>>
    BY <1>0, <2>2, <2>4, <2>5 DEF PipelineTypes, Item
  <2>7. \A i \in 1..Len(r) : v[i] = <<r[i], msg[r[i]]>>
    BY <1>0, <1>1, <2>4, <2>5 DEF PipelineTypes, Item
  <2>8. Without(v, w, k)
    <3>1. k \in 1..Len(w) /\ Len(v) = Len(w) - 1
      BY <2>1, <2>2, <2>3, <2>6
    <3>2. ASSUME NEW i \in 1..Len(v)
          PROVE  v[i] = IF i < k THEN w[i] ELSE w[i + 1]
      <4>1. i \in 1..Len(r) /\ i \in 1..(Len(q) - 1) /\ i \in 1..Len(q) /\ i + 1 \in 1..Len(q)
        BY <2>3, <2>6
      <4>2. v[i] = <<r[i], msg[r[i]]>> /\ w[i] = <<q[i], msg[q[i]]>>
            /\ w[i + 1] = <<q[i + 1], msg[q[i + 1]]>>
        BY <2>6, <2>7, <4>1
      <4>3. r[i] = IF i < k THEN q[i] ELSE q[i + 1]
        BY <2>3, <4>1
      <4> QED
        BY <4>2, <4>3
    <3> QED
      BY <3>1, <3>2 DEF Without
  <2>10. PICK new, old : new = a \o v /\ old = a \o w
    OBVIOUS
  <2>11. Pipeline(s)' = new /\ Pipeline(s) = old
    <3>1. Base(s)' = Base(s)
      BY <1>1 DEF Base
    <3>2. Pipeline(s)' = Base(s)' \o Waiting(s)'
      BY DEF Pipeline, Base
    <3> QED
      BY <2>5, <2>10, <3>1, <3>2, PipelineIsBase, Zenon
  <2>12. Sublist(new, old) /\ ToSet(old) \subseteq ToSet(new) \cup {w[k]}
    <3>1. a \in Seq(Message) /\ w \in Seq(Message) /\ v \in Seq(Message)
      BY <2>6
    <3> QED
      BY <2>8, <2>10, <3>1, ThinnedAtEnd
  <2>13. w[k] = <<p, msg[p]>>
    BY <2>1, <2>2, <2>6
  <2>14. \A m \in ToSet(old) : m \in ToSet(new) \/ m[1] = p
    BY <2>12, <2>13
  <2>15. Len(senders'[s]) <= Len(senders[s])
    BY <2>2, <2>3, <2>4
  <2>16. \A m \in ToSet(Pipeline(s)) : Kept(s, m)
    BY <1>1, <2>11, <2>14 DEF Kept
  <2> QED
    BY <2>11, <2>12, <2>15, <2>16 DEF Thinned
<1> QED
  BY <1>3, <1>4, <1>5

\* p's send() puts its item into s's stream.
Sends(p) == SendHandsOver(p) \/ SendBuffers(p) \/ SendBlocks(p)
Puts(p, s) == s = Stream(p) /\ Sends(p)

\* What receive() leaves alone in the other streams.
LEMMA ReceiveIsThinned ==
    ASSUME StreamInv, StreamInv', NEW s \in Subs, NEW r \in Subs,
           ReceiveFromSender(r) \/ ReceiveFromBuffer(r) \/ TakeHandedOver(r)
    PROVE  Thinned(s)
<1>0. StreamTypes /\ SenderTypes
  BY DEF StreamInv
<1>1. /\ UNCHANGED msg
      /\ \/ senders' = senders
         \/ senders' = [senders EXCEPT ![r] = Tail(@)] /\ senders[r] # <<>>
  BY DEF ReceiveFromSender, ReceiveFromBuffer, TakeHandedOver, callVars
<1>2. CASE r = s
  <2>1. Pipeline(s)' = Pipeline(s)
    BY <1>2, ReceivedStays
  <2>2. Len(senders'[s]) <= Len(senders[s])
    <3>1. senders[s] \in Seq(Calls)
      BY <1>0 DEF SenderTypes
    <3>2. senders'[s] = senders[s] \/ (senders'[s] = Tail(senders[s]) /\ senders[s] # <<>>)
      BY <1>0, <1>1, <1>2 DEF SenderTypes
    <3>3. Len(senders[s]) \in Nat
      BY <3>1, LenProperties
    <3>4. senders[s] # <<>> => Len(Tail(senders[s])) = Len(senders[s]) - 1
      BY <3>1, HeadTailProperties
    <3>5. Len(senders'[s]) = Len(senders[s]) \/ Len(senders'[s]) = Len(senders[s]) - 1
      BY <3>2, <3>4, Zenon
    <3> QED
      BY <3>3, <3>5
  <2> QED
    BY <2>1, <2>2, SameIsThinned
<1>3. CASE r # s
  <2>1. received'[s] = received[s] /\ inbox'[s] = inbox[s] /\ buffer'[s] = buffer[s]
    BY <1>0, <1>3 DEF ReceiveFromSender, ReceiveFromBuffer, TakeHandedOver, Deliver, StreamTypes
  <2>2. senders'[s] = senders[s]
    BY <1>0, <1>1, <1>3 DEF SenderTypes
  <2> QED
    BY <1>1, <2>1, <2>2, UntouchedIsThinned
<1> QED
  BY <1>2, <1>3

\* A subscription's steps.
LEMMA SubscriptionIsThinned ==
    ASSUME StreamInv, StreamInv', NEW s \in Subs, NEW r \in Subs,
           Subscribe(r) \/ StartIterating(r) \/ Iterate(r) \/ Leave(r) \/ CancelScope(r)
    PROVE  Thinned(s)
<1>1. CASE ReceiveFromSender(r) \/ ReceiveFromBuffer(r) \/ TakeHandedOver(r)
  BY <1>1, ReceiveIsThinned
<1>2. CASE CloseReceiver(r)
  <2>1. CASE r = s
    BY <1>2, <2>1, ClosedReceiverIsThinned
  <2>2. CASE r # s
    <3>1. UNCHANGED <<received, inbox, buffer, msg>> /\ senders'[s] = senders[s]
      BY <1>2, <2>2 DEF CloseReceiver, histVars, StreamInv, SenderTypes
    <3> QED
      BY <3>1, UntouchedIsThinned
  <2> QED
    BY <2>1, <2>2
<1>3. CASE EndOfStream(r) \/ Finalise(r) \/ CancelScope(r)
  <2>1. UNCHANGED <<received, inbox, buffer, senders, msg>>
    BY <1>3, CleansUp DEF CleanUp, callVars
  <2> QED
    BY <2>1, UntouchedIsThinned
<1>4. CASE Subscribe(r) \/ StartIterating(r) \/ ReceiveWaits(r) \/ Leave(r)
  <2>1. UNCHANGED <<received, inbox, buffer, senders, msg>>
    BY <1>4 DEF Subscribe, StartIterating, ReceiveWaits, Leave, streamVars, callVars, histVars
  <2> QED
    BY <2>1, UntouchedIsThinned
<1> QED
  BY <1>1, <1>2, <1>3, <1>4 DEF Iterate, Receive

\* A publisher's steps: its send() goes to one stream, nothing else adds to any.
LEMMA PublishMoves ==
    ASSUME StreamInv, StreamInv', NEW s \in Subs, NEW p \in Calls,
           PublishStep(p) \/ CancelPublish(p), ~Puts(p, s)
    PROVE  Thinned(s)
<1>1. CASE CancelPublish(p)
  BY <1>1, WithdrawnIsThinned
<1>2. CASE Sends(p)
  <2>1. UNCHANGED <<received, msg>>
    BY <1>2 DEF Sends, SendHandsOver, SendBuffers, SendBlocks, AtStream, histVars
  <2>2. s # Stream(p)
    BY <1>2 DEF Puts
  <2>3. inbox'[s] = inbox[s] /\ buffer'[s] = buffer[s] /\ senders'[s] = senders[s]
    BY <1>2, <2>2 DEF Sends, SendHandsOver, SendBuffers, SendBlocks, StreamInv, StreamTypes,
                      SenderTypes
  <2> QED
    BY <2>1, <2>3, UntouchedIsThinned
<1>3. CASE NextMessage(p)
  <2>1. UNCHANGED <<received, inbox, buffer, senders>> /\ pc[p] # "blocked"
        /\ msg' = [msg EXCEPT ![p] = @ + 1]
    BY <1>3 DEF NextMessage, Runs, streamVars, histVars
  <2>2. \A q \in ToSet(senders[s]) : q \in Calls /\ pc[q] = "blocked"
    BY OfferedIsMessage DEF StreamInv, SenderTypes, WaitsOnce
  <2>3. \A q \in ToSet(senders[s]) : msg'[q] = msg[q]
    BY <2>1, <2>2 DEF StreamInv, CallTypes
  <2> QED
    BY <2>1, <2>3, UntouchedIsThinned
<1>4. CASE Ending(p) \/ Publish(p) \/ SendRefused(p)
  <2>1. UNCHANGED <<received, inbox, buffer, senders, msg>>
    BY <1>4 DEF Ending, PublishRefused, PublishDropped, Publish, SendRefused, PublishReturns,
                SendBroken, AtStream, streamVars, histVars
  <2> QED
    BY <2>1, UntouchedIsThinned
<1> QED
  BY <1>1, <1>2, <1>3, <1>4 DEF PublishStep, Sends, Ending

\* Every step adds one item at the end of a pipeline, or thins it.
LEMMA PipelineMoves ==
    ASSUME StreamInv, [Next]_vars, NEW s \in Subs
    PROVE  Thinned(s) \/ \E p \in Calls : Puts(p, s)
<1>0. StreamInv'
  BY StreamInvNext
<1>1. CASE \E r \in Subs : Subscribe(r) \/ StartIterating(r) \/ Iterate(r) \/ Leave(r) \/ CancelScope(r)
  BY <1>0, <1>1, SubscriptionIsThinned
<1>2. CASE \E p \in Calls : PublishStep(p) \/ CancelPublish(p)
  BY <1>0, <1>2, PublishMoves
<1>3. CASE \E c \in Closers : CloseBegins(c) \/ CloseStep(c)
  <2>1. UNCHANGED <<received, inbox, buffer, senders, msg>>
    BY <1>3 DEF CloseBegins, CloseStep, CloseStream, CloseNextTopic, CloseReturns, CloseRaises,
                streamVars, callVars, histVars
  <2> QED
    BY <1>0, <2>1, UntouchedIsThinned
<1>4. CASE UNCHANGED vars
  <2>1. UNCHANGED <<received, inbox, buffer, senders, msg>>
    BY <1>4 DEF vars, streamVars, callVars, histVars
  <2> QED
    BY <1>0, <2>1, UntouchedIsThinned
<1> QED
  BY <1>1, <1>2, <1>3, <1>4 DEF Next

\* A subscription that left gets nothing more: publishers stop at its closed stream.
THEOREM DepartedStaysEmpty == Spec => DepartedGetsNothing
<1>1. ASSUME StreamInv, [Next]_vars, NEW s \in Subs, it[s] \in {"unsent", "zombie", "done"}
      PROVE  Len(Pipeline(s)') <= Len(Pipeline(s)) /\ Len(senders'[s]) <= Len(senders[s])
  <2>1. s \in sendClosed
    BY <1>1 DEF StreamInv, IterTypes, DepartedIsClosed
  <2>2. \A p \in Calls : ~Puts(p, s)
    BY <2>1 DEF Puts, Sends, SendHandsOver, SendBuffers, SendBlocks, Open
  <2> QED
    BY <1>1, <2>2, PipelineMoves DEF Thinned, Sublist
<1>2. StreamInv /\ [Next]_vars =>
        [\A s \in Subs : it[s] \in {"unsent", "zombie", "done"} =>
           Len(Pipeline(s)') <= Len(Pipeline(s)) /\ Len(senders[s]') <= Len(senders[s])]_vars
  BY <1>1
<1>3. Spec => []StreamInv
  BY StreamInvInit, StreamInvNext, PTL DEF Spec
<1> QED
  BY <1>2, <1>3, PTL DEF Spec, DepartedGetsNothing

-----------------------------------------------------------------------------
(* What a step does to the lists, the calls and the closers                *)

\* The places of s in the list of its topic: one at most.
Places(s) == {j \in DOMAIN subscribers[TopicOf[s]] : subscribers[TopicOf[s]][j] = s}

\* An iterator that stood at place i has passed s over when s moves to the place before it.
SteppedUp(s, i, j) ==
    j = i - 1 /\ \A x \in Tasks : Cursor(x, TopicOf[s]) = i => s \in passedOver'[x]
\* A subscription keeps its place, moves up by one, or has left with its stream closed.
PlaceMoves(s) ==
    /\ \A i \in Places(s) : \/ s \in sendClosed' /\ Gone(s)'
                            \/ \E j \in Places(s)' : j = i \/ SteppedUp(s, i, j)
    /\ \A j \in Places(s)' : \E i \in Places(s) : j = i \/ SteppedUp(s, i, j)

\* What only grows.
Grows(s) ==
    /\ it[s] # "none" => it'[s] # "none"
    /\ Gone(s) => Gone(s)'
    /\ s \in sendClosed => s \in sendClosed'
    /\ \A x \in Tasks : s \in passedOver[x] => s \in passedOver'[x]

\* The lists stay as they are in every step but subscribe() and the finally block.
LEMMA ListsStay ==
    ASSUME StreamInv, UNCHANGED <<subscribers, passedOver>>, NEW s \in Subs
    PROVE  PlaceMoves(s)
<1>1. Places(s)' = Places(s)
  BY DEF Places
<1> QED
  BY <1>1 DEF PlaceMoves

\* subscribe() adds at the end.
LEMMA SubscribeMoves ==
    ASSUME StreamInv, NEW r \in Subs, Subscribe(r), NEW s \in Subs, it[s] # "none"
    PROVE  PlaceMoves(s)
<1> DEFINE t == TopicOf[s]
<1>1. ListTypes /\ r # s /\ subscribers' = [subscribers EXCEPT ![TopicOf[r]] = Append(@, r)]
  BY DEF Subscribe, StreamInv
<1>2. t \in Topics
  BY Names
<1> HIDE DEF t
<1>3. PICK old, new : old = subscribers[t] /\ new = subscribers'[t]
  OBVIOUS
<1>4. old \in Seq(Subs)
  BY <1>1, <1>2, <1>3 DEF ListTypes
<1>5. new = old \/ new = Append(old, r)
  BY <1>1, <1>2, <1>3 DEF ListTypes
<1>6. \A j \in DOMAIN old : j \in DOMAIN new /\ new[j] = old[j]
  <2>1. CASE new = old
    BY <2>1
  <2>2. CASE new = Append(old, r)
    BY <1>4, <2>2, AppendProperties, LenProperties
  <2> QED
    BY <1>5, <2>1, <2>2
<1>7. \A j \in DOMAIN new : new[j] = s => j \in DOMAIN old
  <2>1. CASE new = old
    BY <2>1
  <2>2. CASE new = Append(old, r)
    <3>1. /\ DOMAIN new = 1..(Len(old) + 1) /\ DOMAIN old = 1..Len(old) /\ Len(old) \in Nat
          /\ new[Len(old) + 1] = r
      BY <1>4, <2>2, AppendProperties, LenProperties
    <3> QED
      BY <1>1, <3>1
  <2> QED
    BY <1>5, <2>1, <2>2
<1>8. Places(s) = {j \in DOMAIN old : old[j] = s}
  BY <1>3 DEF Places, t
<1>9. Places(s)' = {j \in DOMAIN new : new[j] = s}
  BY <1>3 DEF Places, t
<1>10. Places(s)' = Places(s)
  BY <1>6, <1>7, <1>8, <1>9
<1> QED
  BY <1>10 DEF PlaceMoves

\* The finally block takes one stream out of the list.
LEMMA CleanUpMoves ==
    ASSUME StreamInv, NEW r \in Subs, NEW x \in {"unsent", "zombie"}, CleanUp(r, x), NEW s \in Subs
    PROVE  PlaceMoves(s)
<1> DEFINE t == TopicOf[s]
<1>0. ListTypes /\ IterTypes
  BY DEF StreamInv
<1>1. /\ subscribers' = [subscribers EXCEPT ![TopicOf[r]] =
                            IF TopicOf[r] \in topics THEN RemoveFirst(@, r) ELSE @]
      /\ \A y \in Tasks : TopicOf[r] \in topics =>
            passedOver'[y] = passedOver[y] \cup PassedOver(subscribers[TopicOf[r]], r, Cursor(y, TopicOf[r]))
      /\ sendClosed' = sendClosed \cup {r} /\ it' = [it EXCEPT ![r] = x]
  BY DEF CleanUp, CloseSendStream
<1>2. t \in Topics
  BY Names
<1>3. PICK old, new : old = subscribers[t] /\ new = subscribers'[t]
  OBVIOUS
<1>4. old \in Seq(Subs) /\ IsInjective(old) /\ Len(old) \in Nat /\ DOMAIN old = 1..Len(old)
  BY <1>0, <1>2, <1>3, LenProperties DEF ListTypes, ListedOnce
<1>5. new = old \/ (new = RemoveFirst(old, r) /\ TopicOf[r] = t /\ t \in topics)
  BY <1>0, <1>1, <1>2, <1>3 DEF ListTypes
<1>6. Places(s) = {j \in DOMAIN old : old[j] = s}
  BY <1>3 DEF Places
<1>7. Places(s)' = {j \in DOMAIN new : new[j] = s}
  BY <1>3 DEF Places
<1>8. CASE new = old
  BY <1>6, <1>7, <1>8 DEF PlaceMoves
<1>9. CASE ~ \E k \in 1..Len(old) : old[k] = r
  <2>1. r \notin ToSet(old)
    BY <1>4, <1>9 DEF ToSet
  <2>2. new = old
    BY <1>4, <1>5, <2>1, RemoveFirstAbsent
  <2> QED
    BY <1>8, <2>2
<1>10. CASE new # old /\ \E k \in 1..Len(old) : old[k] = r
  <2>1. PICK k \in 1..Len(old) : old[k] = r
    BY <1>10
  <2>2. new = RemoveFirst(old, r) /\ TopicOf[r] = t /\ t \in topics
    BY <1>5, <1>10
  <2>3. /\ new \in Seq(Subs) /\ Len(new) = Len(old) - 1
        /\ \A i \in 1..(Len(old) - 1) : new[i] = IF i < k THEN old[i] ELSE old[i + 1]
    BY <1>4, <2>1, <2>2, RemoveFirstAt
  <2>4. DOMAIN new = 1..(Len(old) - 1)
    BY <2>3, LenProperties
  <2>5. \A y \in Tasks : PassedOver(old, r, Cursor(y, t)) \subseteq passedOver'[y]
    BY <1>1, <1>3, <2>2
  <2>6. ASSUME NEW i \in DOMAIN old, i > k, old[i] = s
        PROVE  SteppedUp(s, i, i - 1)
    <3>1. ASSUME NEW y \in Tasks, Cursor(y, t) = i
          PROVE  s \in passedOver'[y]
      <4>1. k \in 1..(i - 1) /\ i \in 1..Len(old)
        BY <1>4, <2>1, <2>6
      <4>2. s \in PassedOver(old, r, i)
        BY <2>1, <2>6, <4>1 DEF PassedOver
      <4> QED
        BY <2>5, <3>1, <4>2
    <3> QED
      BY <3>1 DEF SteppedUp
  <2>7. ASSUME NEW i \in Places(s)
        PROVE  \/ s \in sendClosed' /\ Gone(s)'
               \/ \E j \in Places(s)' : j = i \/ SteppedUp(s, i, j)
    <3>0. i \in 1..Len(old) /\ old[i] = s /\ i \in DOMAIN old
      BY <1>4, <1>6, <2>7
    <3>1. CASE i = k
      BY <1>0, <1>1, <2>1, <3>0, <3>1 DEF Gone, IterTypes
    <3>2. CASE i < k
      <4>1. i \in DOMAIN new /\ new[i] = s
        BY <1>4, <2>1, <2>3, <2>4, <3>0, <3>2
      <4> QED
        BY <1>7, <4>1
    <3>3. CASE i > k
      <4>1. i - 1 \in DOMAIN new /\ new[i - 1] = s
        <5>1. i - 1 \in 1..(Len(old) - 1) /\ ~(i - 1 < k) /\ i - 1 + 1 = i
          BY <1>4, <2>1, <3>0, <3>3
        <5> QED
          BY <2>3, <2>4, <3>0, <5>1
      <4> QED
        BY <1>7, <2>6, <3>0, <3>3, <4>1
    <3> QED
      BY <2>1, <3>0, <3>1, <3>2, <3>3
  <2>8. ASSUME NEW j \in Places(s)'
        PROVE  \E i \in Places(s) : j = i \/ SteppedUp(s, i, j)
    <3>0. j \in 1..(Len(old) - 1) /\ new[j] = s
      BY <1>7, <2>4, <2>8
    <3>1. CASE j < k
      <4>1. j \in DOMAIN old /\ old[j] = s
        BY <1>4, <2>3, <3>0, <3>1
      <4> QED
        BY <1>6, <4>1
    <3>2. CASE ~(j < k)
      <4>0. PICK i : i = j + 1
        OBVIOUS
      <4>1. i \in DOMAIN old /\ old[i] = s /\ i > k /\ j = i - 1
        BY <1>4, <2>1, <2>3, <3>0, <3>2, <4>0
      <4>2. SteppedUp(s, i, i - 1)
        BY <2>6, <4>1
      <4>3. SteppedUp(s, i, j)
        BY <4>1, <4>2, Zenon
      <4> QED
        BY <1>6, <4>1, <4>3
    <3> QED
      BY <3>1, <3>2
  <2> QED
    BY <2>7, <2>8 DEF PlaceMoves
<1> QED
  BY <1>8, <1>9, <1>10

\* The places of a subscription, in every step.
LEMMA PlacesMove ==
    ASSUME StreamInv, [Next]_vars, NEW s \in Subs, it[s] # "none"
    PROVE  PlaceMoves(s)
<1>1. ASSUME NEW r \in Subs, Subscribe(r) \/ StartIterating(r) \/ Iterate(r) \/ Leave(r) \/ CancelScope(r)
      PROVE  PlaceMoves(s)
  <2>1. CASE Subscribe(r)
    BY <2>1, SubscribeMoves
  <2>2. CASE EndOfStream(r) \/ Finalise(r) \/ CancelScope(r)
    BY <2>2, CleansUp, CleanUpMoves
  <2>3. CASE \/ StartIterating(r) \/ Leave(r) \/ Receive(r) \/ TakeHandedOver(r) \/ CloseReceiver(r)
    <3>1. UNCHANGED <<subscribers, passedOver>>
      BY <2>3 DEF StartIterating, Leave, Receive, ReceiveFromSender, ReceiveFromBuffer,
                  ReceiveWaits, TakeHandedOver, CloseReceiver, histVars
    <3> QED
      BY <3>1, ListsStay
  <2> QED
    BY <1>1, <2>1, <2>2, <2>3 DEF Iterate
<1>2. ASSUME NEW p \in Calls, PublishStep(p) \/ CancelPublish(p)
      PROVE  PlaceMoves(s)
  <2>1. UNCHANGED <<subscribers, passedOver>>
    BY <1>2 DEF PublishStep, CancelPublish, PublishRefused, PublishDropped, Publish, SendRefused,
                SendHandsOver, SendBuffers, SendBlocks, NextMessage, PublishReturns, SendBroken,
                AtStream, histVars
  <2> QED
    BY <2>1, ListsStay
<1>3. ASSUME NEW c \in Closers, CloseBegins(c) \/ CloseStep(c)
      PROVE  PlaceMoves(s)
  <2>1. UNCHANGED <<subscribers, passedOver>>
    BY <1>3 DEF CloseBegins, CloseStep, CloseStream, CloseNextTopic, CloseReturns, CloseRaises,
                histVars
  <2> QED
    BY <2>1, ListsStay
<1>4. CASE UNCHANGED vars
  BY <1>4, ListsStay DEF vars, histVars
<1> QED
  BY <1>1, <1>2, <1>3, <1>4 DEF Next

\* What only grows, in every step.
LEMMA EverythingGrows ==
    ASSUME StreamInv, [Next]_vars, NEW s \in Subs
    PROVE  Grows(s)
<1>0. IterTypes /\ HistTypes
  BY DEF StreamInv
<1> USE DEF Grows, Gone
<1>1. ASSUME NEW r \in Subs, Subscribe(r) \/ StartIterating(r) \/ Iterate(r) \/ Leave(r) \/ CancelScope(r)
      PROVE  Grows(s)
  <2>1. CASE EndOfStream(r) \/ Finalise(r) \/ CancelScope(r)
    <3>1. /\ it[r] \in {"active", "wait", "fin"} /\ sendClosed' = sendClosed \cup {r}
          /\ \E x \in {"unsent", "zombie"} : it' = [it EXCEPT ![r] = x]
          /\ \A y \in Tasks : passedOver[y] \subseteq passedOver'[y]
      BY <1>0, <2>1, CleansUp DEF CleanUp, CloseSendStream, HistTypes
    <3> QED
      BY <1>0, <3>1 DEF IterTypes
  <2>2. CASE \/ Subscribe(r) \/ StartIterating(r) \/ Leave(r) \/ Receive(r) \/ TakeHandedOver(r)
             \/ CloseReceiver(r)
    <3>1. UNCHANGED <<sendClosed, passedOver>>
      BY <2>2 DEF Subscribe, StartIterating, Leave, Receive, ReceiveFromSender, ReceiveFromBuffer,
                  ReceiveWaits, TakeHandedOver, CloseReceiver, histVars, streamVars
    <3>2. \/ it' = it
          \/ \E x \in {"new", "active", "wait"} :
                it' = [it EXCEPT ![r] = x] /\ it[r] \in {"none", "new", "active", "given"}
          \/ \E x \in {"fin", "done"} : it' = [it EXCEPT ![r] = x]
      BY <2>2 DEF Subscribe, StartIterating, Leave, Receive, ReceiveFromSender, ReceiveFromBuffer,
                  ReceiveWaits, TakeHandedOver, CloseReceiver
    <3> QED
      BY <1>0, <3>1, <3>2 DEF IterTypes
  <2> QED
    BY <1>1, <2>1, <2>2 DEF Iterate
<1>2. ASSUME NEW p \in Calls, PublishStep(p) \/ CancelPublish(p)
      PROVE  Grows(s)
  <2>1. UNCHANGED <<sendClosed, passedOver>>
    BY <1>2 DEF PublishStep, CancelPublish, PublishRefused, PublishDropped, Publish, SendRefused,
                SendHandsOver, SendBuffers, SendBlocks, NextMessage, PublishReturns, SendBroken,
                AtStream, histVars, streamVars
  <2>2. it' = it \/ \E r : it' = [it EXCEPT ![r] = "given"] /\ it[r] = "wait"
    BY <1>2 DEF PublishStep, CancelPublish, PublishRefused, PublishDropped, Publish, SendRefused,
                SendHandsOver, SendBuffers, SendBlocks, NextMessage, PublishReturns, SendBroken,
                AtStream, Awaited
  <2> QED
    BY <1>0, <2>1, <2>2 DEF IterTypes
<1>3. ASSUME NEW c \in Closers, CloseBegins(c) \/ CloseStep(c)
      PROVE  Grows(s)
  <2>1. UNCHANGED <<it, passedOver>> /\ sendClosed \subseteq sendClosed'
    BY <1>3 DEF CloseBegins, CloseStep, CloseStream, CloseNextTopic, CloseReturns, CloseRaises,
                histVars, streamVars
  <2> QED
    BY <2>1
<1>4. CASE UNCHANGED vars
  BY <1>4 DEF vars, histVars, streamVars
<1> QED
  BY <1>1, <1>2, <1>3, <1>4 DEF Next

\* A call is left alone, but for the end of a wait.
CallStays(p) ==
    /\ msg'[p] = msg[p] /\ pos'[p] = pos[p]
    /\ audience'[p] = audience[p] /\ before'[p] = before[p]
    /\ \/ pc'[p] = pc[p]
       \/ pc[p] = "blocked" /\ pc'[p] \in {"sent", "broken", "raised"}

\* A call of close() is left alone.
CloserStays(c) ==
    /\ cpc'[c] = cpc[c] /\ cleft'[c] = cleft[c] /\ ctopic'[c] = ctopic[c] /\ cpos'[c] = cpos[c]
    /\ audience'[c] = audience[c]

\* Only its own steps move a call.
LEMMA CallsMove ==
    ASSUME StreamInv, [Next]_vars, NEW p \in Calls
    PROVE  CallStays(p) \/ PublishStep(p)
<1>0. CallTypes /\ HistTypes /\ SenderTypes
  BY DEF StreamInv
<1>1. ASSUME NEW r \in Subs, Subscribe(r) \/ StartIterating(r) \/ Iterate(r) \/ Leave(r) \/ CancelScope(r)
      PROVE  CallStays(p)
  <2>1. CASE ReceiveFromSender(r)
    <3>1. /\ pc' = [pc EXCEPT ![Head(senders[r])] = "sent"] /\ senders[r] # <<>>
          /\ UNCHANGED <<msg, pos, audience, before>>
      BY <2>1 DEF ReceiveFromSender
    <3>2. Head(senders[r]) \in ToSet(senders[r])
      BY <1>0, <3>1, TailRemoves DEF SenderTypes, WaitsOnce
    <3>3. pc[Head(senders[r])] = "blocked"
      BY <1>0, <3>2 DEF SenderTypes, WaitsOnce
    <3> QED
      BY <1>0, <3>1, <3>3 DEF CallTypes, CallStays
  <2>2. CASE CloseReceiver(r)
    <3>1. /\ pc' = [q \in Calls |-> IF q \in ToSet(senders[r]) THEN "broken" ELSE pc[q]]
          /\ UNCHANGED <<msg, pos, audience, before>>
      BY <2>2 DEF CloseReceiver, histVars
    <3>2. \A q \in ToSet(senders[r]) : pc[q] = "blocked"
      BY <1>0 DEF SenderTypes, WaitsOnce
    <3> QED
      BY <1>0, <3>1, <3>2 DEF CallTypes, CallStays
  <2>3. CASE EndOfStream(r) \/ Finalise(r) \/ CancelScope(r)
    <3>1. UNCHANGED <<pc, msg, pos, audience, before>>
      BY <2>3, CleansUp DEF CleanUp, callVars
    <3> QED
      BY <3>1 DEF CallStays
  <2>4. CASE \/ Subscribe(r) \/ StartIterating(r) \/ Leave(r) \/ ReceiveFromBuffer(r)
             \/ ReceiveWaits(r) \/ TakeHandedOver(r)
    <3>1. UNCHANGED <<pc, msg, pos, audience, before>>
      BY <2>4 DEF Subscribe, StartIterating, Leave, ReceiveFromBuffer, ReceiveWaits,
                  TakeHandedOver, callVars, histVars
    <3> QED
      BY <3>1 DEF CallStays
  <2> QED
    BY <1>1, <2>1, <2>2, <2>3, <2>4 DEF Iterate, Receive
<1>2. ASSUME NEW q \in Calls, CancelPublish(q)
      PROVE  CallStays(p)
  BY <1>0, <1>2 DEF CancelPublish, Finish, CallStays, CallTypes, histVars
<1>3. ASSUME NEW q \in Calls, PublishStep(q), q # p
      PROVE  CallStays(p)
  <2>1. CASE Publish(q)
    BY <1>0, <1>3, <2>1 DEF Publish, CallStays, CallTypes, HistTypes, Tasks
  <2>2. CASE Sends(q) \/ SendRefused(q)
    <3>1. UNCHANGED <<msg, audience, before>> /\ pos' = [pos EXCEPT ![q] = @ + 1]
          /\ \E x : pc' = [pc EXCEPT ![q] = x]
      BY <2>2 DEF Sends, SendRefused, SendHandsOver, SendBuffers, SendBlocks, AtStream, Finish,
                  histVars
    <3> QED
      BY <1>0, <1>3, <3>1 DEF CallStays, CallTypes
  <2>3. CASE NextMessage(q)
    BY <1>0, <1>3, <2>3 DEF NextMessage, CallStays, CallTypes, histVars
  <2>4. CASE Ending(q)
    <3>1. UNCHANGED <<msg, pos, audience, before>> /\ \E x : pc' = [pc EXCEPT ![q] = x]
      BY <2>4 DEF Ending, PublishRefused, PublishDropped, PublishReturns, SendBroken, Finish,
                  histVars
    <3> QED
      BY <1>0, <1>3, <3>1 DEF CallStays, CallTypes
  <2> QED
    BY <1>3, <2>1, <2>2, <2>3, <2>4 DEF PublishStep, Sends, Ending
<1>4. ASSUME NEW c \in Closers, CloseBegins(c) \/ CloseStep(c)
      PROVE  CallStays(p)
  <2>1. UNCHANGED <<pc, msg, pos, before>>
    BY <1>4 DEF CloseBegins, CloseStep, CloseStream, CloseNextTopic, CloseReturns, CloseRaises,
                histVars, callVars
  <2>2. audience' = audience \/ \E x : audience' = [audience EXCEPT ![c] = x]
    BY <1>4 DEF CloseBegins, CloseStep, CloseStream, CloseNextTopic, CloseReturns, CloseRaises,
                histVars
  <2>3. c # p
    BY PubSubAssumption
  <2> QED
    BY <1>0, <2>1, <2>2, <2>3 DEF CallStays, HistTypes, Tasks
<1>5. CASE UNCHANGED vars
  BY <1>5 DEF vars, histVars, callVars, CallStays
<1> QED
  BY <1>1, <1>2, <1>3, <1>4, <1>5 DEF Next

\* Only its own steps move a call of close().
LEMMA ClosersMove ==
    ASSUME StreamInv, [Next]_vars, NEW c \in Closers
    PROVE  CloserStays(c) \/ CloseBegins(c) \/ CloseStep(c)
<1>0. CloserTypes /\ HistTypes
  BY DEF StreamInv
<1>1. ASSUME NEW r \in Subs, Subscribe(r) \/ StartIterating(r) \/ Iterate(r) \/ Leave(r) \/ CancelScope(r)
      PROVE  CloserStays(c)
  <2>1. CASE EndOfStream(r) \/ Finalise(r) \/ CancelScope(r)
    <3>1. UNCHANGED <<closeVars, audience>>
      BY <2>1, CleansUp DEF CleanUp
    <3> QED
      BY <3>1 DEF CloserStays, closeVars
  <2>2. CASE \/ Subscribe(r) \/ StartIterating(r) \/ Leave(r) \/ Receive(r)
             \/ CloseReceiver(r) \/ TakeHandedOver(r)
    <3>1. UNCHANGED <<closeVars, audience>>
      BY <2>2 DEF Subscribe, StartIterating, Leave, Receive, ReceiveFromSender, ReceiveFromBuffer,
                  ReceiveWaits, CloseReceiver, TakeHandedOver, histVars
    <3> QED
      BY <3>1 DEF CloserStays, closeVars
  <2> QED
    BY <1>1, <2>1, <2>2 DEF Iterate
<1>2. ASSUME NEW p \in Calls, PublishStep(p) \/ CancelPublish(p)
      PROVE  CloserStays(c)
  <2>1. UNCHANGED closeVars
    BY <1>2 DEF PublishStep, CancelPublish, PublishRefused, PublishDropped, Publish, SendRefused,
                SendHandsOver, SendBuffers, SendBlocks, NextMessage, PublishReturns, SendBroken,
                AtStream
  <2>2. audience' = audience \/ \E x : audience' = [audience EXCEPT ![p] = x]
    BY <1>2 DEF PublishStep, CancelPublish, PublishRefused, PublishDropped, Publish, SendRefused,
                SendHandsOver, SendBuffers, SendBlocks, NextMessage, PublishReturns, SendBroken,
                AtStream, histVars
  <2>3. c # p
    BY PubSubAssumption
  <2> QED
    BY <1>0, <2>1, <2>2, <2>3 DEF CloserStays, HistTypes, Tasks, closeVars
<1>3. ASSUME NEW d \in Closers, CloseBegins(d) \/ CloseStep(d), d # c
      PROVE  CloserStays(c)
  <2>1. CASE CloseBegins(d)
    BY <1>0, <1>3, <2>1 DEF CloseBegins, CloserStays, CloserTypes, HistTypes, Tasks
  <2>2. CASE CloseStep(d)
    <3>1. /\ UNCHANGED audience
          /\ cpc' = cpc \/ \E x : cpc' = [cpc EXCEPT ![d] = x]
          /\ cpos' = cpos \/ \E x : cpos' = [cpos EXCEPT ![d] = x]
          /\ cleft' = cleft \/ \E x : cleft' = [cleft EXCEPT ![d] = @ \ {x}]
          /\ ctopic' = ctopic \/ \E x : ctopic' = [ctopic EXCEPT ![d] = x]
      BY <2>2 DEF CloseStep, CloseStream, CloseNextTopic, CloseReturns, CloseRaises, histVars
    <3> QED
      BY <1>0, <1>3, <3>1 DEF CloserStays, CloserTypes
  <2> QED
    BY <1>3, <2>1, <2>2
<1>4. CASE UNCHANGED vars
  BY <1>4 DEF vars, histVars, closeVars, CloserStays
<1> QED
  BY <1>1, <1>2, <1>3, <1>4 DEF Next

-----------------------------------------------------------------------------
(* Order                                                                   *)

\* A message in s's pipeline is of a call for the same topic, and not ahead of where the call
\* stands: of an earlier message, or of the current one with s behind the list iterator.
Belongs(s, m) ==
    /\ m \in Message /\ it[s] # "none" /\ pc[m[1]] # "idle" /\ TopicOf[m[1]] = TopicOf[s]
    /\ m[2] <= msg[m[1]]
    /\ m[2] = msg[m[1]] => \A j \in Places(s) : j < pos[m[1]]
SentBelongs == \A s \in Subs : \A m \in ToSet(Pipeline(s)) : Belongs(s, m)

\* The calls that had returned when another one started stay returned.
BeforeReturned == \A q \in Calls : \A p \in before[q] : pc[p] \in {"ok", "raised"}

OrderInv == StreamInv /\ SentBelongs /\ BeforeReturned /\ InOrder

\* Places are places.
LEMMA PlacesAreNumbers == \A s : StreamInv /\ s \in Subs => Places(s) \subseteq Int
<1> SUFFICES ASSUME NEW s, StreamInv, s \in Subs PROVE Places(s) \subseteq Int
  OBVIOUS
<1>1. subscribers[TopicOf[s]] \in Seq(Subs)
  BY Names DEF StreamInv, ListTypes
<1>2. DOMAIN subscribers[TopicOf[s]] = 1..Len(subscribers[TopicOf[s]])
  BY <1>1, LenProperties
<1> QED
  BY <1>2 DEF Places

\* A call goes forward.
LEMMA CallAdvances ==
    ASSUME StreamInv, [Next]_vars, NEW p \in Calls
    PROVE  /\ pc[p] # "idle" => /\ pc'[p] # "idle" /\ before'[p] = before[p]
                                /\ \/ msg'[p] = msg[p] /\ pos'[p] >= pos[p]
                                   \/ msg'[p] = msg[p] + 1
           /\ pc[p] \in {"ok", "raised"} => pc'[p] = pc[p]
<1>0. CallTypes /\ (CallStays(p) \/ PublishStep(p))
  BY CallsMove DEF StreamInv
<1>1. msg[p] \in Nat /\ pos[p] \in Nat
  BY DEF StreamInv, CallTypes, Positive
<1>2. CASE CallStays(p)
  BY <1>1, <1>2 DEF CallStays
<1>3. CASE Publish(p)
  BY <1>3 DEF Publish
<1>4. CASE Sends(p) \/ SendRefused(p)
  <2>1. /\ UNCHANGED <<msg, before>> /\ pos' = [pos EXCEPT ![p] = @ + 1] /\ Runs(p)
        /\ \E x \in {"run", "blocked", "raised"} : pc' = [pc EXCEPT ![p] = x]
    BY <1>4 DEF Sends, SendRefused, SendHandsOver, SendBuffers, SendBlocks, AtStream, Finish,
                histVars
  <2> QED
    BY <1>1, <2>1 DEF Runs, StreamInv, CallTypes
<1>5. CASE NextMessage(p)
  BY <1>1, <1>5 DEF NextMessage, Runs, StreamInv, CallTypes, histVars
<1>6. CASE Ending(p)
  <2>1. /\ UNCHANGED <<msg, pos, before>> /\ pc[p] \notin {"ok", "raised"}
        /\ \E x \in {"ok", "raised"} : pc' = [pc EXCEPT ![p] = x]
    BY <1>6 DEF Ending, PublishRefused, PublishDropped, PublishReturns, SendBroken, Finish, Runs,
                histVars
  <2> QED
    BY <1>1, <2>1 DEF StreamInv, CallTypes
<1> QED
  BY <1>0, <1>2, <1>3, <1>4, <1>5, <1>6 DEF PublishStep, Sends, Ending

\* What belongs into a pipeline goes on to do so.
LEMMA BelongsStays ==
    ASSUME StreamInv, [Next]_vars, NEW s \in Subs, NEW m, Belongs(s, m)
    PROVE  Belongs(s, m)'
<1>1. PICK p, k : p = m[1] /\ k = m[2]
  OBVIOUS
<1>2. /\ m \in Message /\ it[s] # "none" /\ pc[p] # "idle" /\ TopicOf[p] = TopicOf[s] /\ k <= msg[p]
      /\ k = msg[p] => \A j \in Places(s) : j < pos[p]
  BY <1>1 DEF Belongs
<1>3. p \in Calls /\ k \in Nat
  BY <1>1, <1>2 DEF Message
<1>4. /\ msg[p] \in Nat /\ pos[p] \in Nat /\ msg'[p] \in Nat /\ pos'[p] \in Nat
  <2>1. StreamInv'
    BY StreamInvNext
  <2>2. CallTypes /\ CallTypes'
    BY <2>1 DEF StreamInv
  <2> QED
    BY <1>3, <2>2 DEF CallTypes, Positive
<1>5. it'[s] # "none"
  BY <1>2, EverythingGrows DEF Grows
<1>6. \A j \in Places(s)' : \E i \in Places(s) : j = i \/ j = i - 1
  BY <1>2, PlacesMove DEF PlaceMoves, SteppedUp
<1>7. Places(s) \subseteq Int
  BY PlacesAreNumbers
<1>8. /\ pc'[p] # "idle"
      /\ (msg'[p] = msg[p] /\ pos'[p] >= pos[p]) \/ msg'[p] = msg[p] + 1
  BY <1>2, <1>3, CallAdvances
<1>9. k <= msg'[p] /\ (k = msg'[p] => msg'[p] = msg[p] /\ pos'[p] >= pos[p] /\ k = msg[p])
  BY <1>2, <1>3, <1>4, <1>8
<1>10. ASSUME k = msg'[p], NEW j \in Places(s)'
       PROVE  j < pos'[p]
  <2>1. pos'[p] >= pos[p] /\ \A i \in Places(s) : i < pos[p]
    BY <1>2, <1>9, <1>10
  <2>2. PICK i \in Places(s) : j = i \/ j = i - 1
    BY <1>6, <1>10
  <2>3. i \in Int /\ i < pos[p]
    BY <1>7, <2>1
  <2> QED
    BY <1>4, <2>1, <2>2, <2>3
<1> QED
  BY <1>1, <1>2, <1>5, <1>8, <1>9, <1>10 DEF Belongs

\* What send() puts into a pipeline belongs there.
LEMMA PutBelongs ==
    ASSUME StreamInv, [Next]_vars, NEW s \in Subs, NEW p \in Calls, Puts(p, s), NEW m, m = Item(p)
    PROVE  Belongs(s, m)' /\ \A j \in Places(s) : j = pos[p]
<1>0. CallTypes /\ ListTypes /\ IterTypes
  BY DEF StreamInv
<1>1. /\ s = subscribers[TopicOf[p]][pos[p]] /\ pos' = [pos EXCEPT ![p] = @ + 1] /\ Runs(p)
      /\ HasMessage(p) /\ HasNextStream(p) /\ UNCHANGED <<msg, subscribers>>
      /\ \E x \in {"run", "blocked"} : pc' = [pc EXCEPT ![p] = x]
  BY DEF Puts, Sends, SendHandsOver, SendBuffers, SendBlocks, AtStream, Finish, Stream
<1>2. /\ TopicOf[p] \in Topics /\ subscribers[TopicOf[p]] \in Seq(Subs)
      /\ IsInjective(subscribers[TopicOf[p]])
      /\ DOMAIN subscribers[TopicOf[p]] = 1..Len(subscribers[TopicOf[p]])
  BY <1>0, Names, LenProperties DEF ListTypes, ListedOnce
<1>3. pos[p] \in Nat /\ pos[p] \in DOMAIN subscribers[TopicOf[p]] /\ msg[p] \in 1..BatchSize
  BY <1>0, <1>1, <1>2, PubSubAssumption, LenProperties DEF CallTypes, HasMessage, HasNextStream, Positive
<1>4. s \in ToSet(subscribers[TopicOf[p]])
  BY <1>1, <1>3 DEF ToSet
<1>5. TopicOf[s] = TopicOf[p] /\ it[s] # "none"
  BY <1>0, <1>2, <1>4 DEF ListTypes, ListedOnce
<1>6. \A j \in Places(s) : j = pos[p]
  BY <1>1, <1>2, <1>3, <1>5 DEF Places, IsInjective
<1>7. Places(s)' = Places(s)
  BY <1>1 DEF Places
<1>8. m = <<p, msg[p]>> /\ m \in Message
  BY <1>3 DEF Item, Message
<1>9. it'[s] # "none" /\ pc'[p] # "idle" /\ pos'[p] = pos[p] + 1 /\ msg'[p] = msg[p]
  BY <1>0, <1>1, <1>5, EverythingGrows DEF Grows, CallTypes
<1>10. m[1] = p /\ m[2] = msg[p] /\ msg[p] <= msg[p]
  BY <1>3, <1>8
<1> QED
  BY <1>3, <1>5, <1>6, <1>7, <1>8, <1>9, <1>10 DEF Belongs

\* A pipeline afterwards: thinned, or with one item more at the end.
LEMMA PipelineNext ==
    ASSUME StreamInv, [Next]_vars, NEW s \in Subs,
           NEW old, old = Pipeline(s), NEW new, new = Pipeline(s)'
    PROVE  /\ old \in Seq(Message) /\ new \in Seq(Message)
           /\ \/ Sublist(new, old) /\ Thinned(s)
              \/ \E p \in Calls : Puts(p, s) /\ new = Append(old, Item(p)) /\ Item(p) \in Message
<1>0. StreamInv' /\ PipelineTypes /\ PipelineTypes'
  <2>1. StreamInv'
    BY StreamInvNext
  <2>2. PipelineTypes'
    BY <2>1, PipelineTyping, PTL
  <2> QED
    BY <2>1, <2>2, PipelineTyping
<1>1. old \in Seq(Message) /\ new \in Seq(Message)
  BY <1>0 DEF PipelineTypes
<1>2. CASE Thinned(s)
  BY <1>1, <1>2 DEF Thinned
<1>3. CASE \E p \in Calls : Puts(p, s)
  <2>1. PICK p \in Calls : Puts(p, s)
    BY <1>3
  <2>2. new = Append(old, Item(p))
    BY <1>0, <2>1, SentIsAppended DEF Puts, Sends
  <2>3. Item(p) \in Message
    <3>1. Runs(p) /\ HasMessage(p)
      BY <2>1 DEF Puts, Sends, SendHandsOver, SendBuffers, SendBlocks, AtStream
    <3>2. msg[p] \in 1..BatchSize
      BY <3>1, PubSubAssumption DEF HasMessage, StreamInv, CallTypes, Positive
    <3> QED
      BY <3>2 DEF Item, Message
  <2> QED
    BY <1>1, <2>1, <2>2, <2>3
<1> QED
  BY <1>2, <1>3, PipelineMoves

\* One element more.
LEMMA AppendedSet ==
    ASSUME NEW S, NEW seq \in Seq(S), NEW x \in S
    PROVE  ToSet(Append(seq, x)) = ToSet(seq) \cup {x}
<1>1. PICK new : new = Append(seq, x)
  OBVIOUS
<1>2. /\ Len(new) = Len(seq) + 1 /\ Len(seq) \in Nat
      /\ \A i \in 1..Len(seq) : new[i] = seq[i]
      /\ new[Len(seq) + 1] = x
  BY <1>1, AppendProperties, LenProperties
<1>3. DOMAIN new = 1..(Len(seq) + 1) /\ DOMAIN seq = 1..Len(seq)
  <2>1. new \in Seq(S)
    BY <1>1, AppendProperties
  <2> QED
    BY <1>2, <2>1, LenProperties
<1>4. ToSet(seq) \cup {x} \subseteq ToSet(new)
  BY <1>2, <1>3 DEF ToSet
<1>5. ToSet(new) \subseteq ToSet(seq) \cup {x}
  BY <1>2, <1>3 DEF ToSet
<1> QED
  BY <1>1, <1>4, <1>5

\* Everything in a pipeline belongs there.
LEMMA SentBelongsNext ==
    ASSUME StreamInv, [Next]_vars, SentBelongs
    PROVE  SentBelongs'
<1> SUFFICES ASSUME NEW s \in Subs, NEW m \in ToSet(Pipeline(s)')
             PROVE  Belongs(s, m)'
  BY DEF SentBelongs
<1>1. PICK old, new : old = Pipeline(s) /\ new = Pipeline(s)'
  OBVIOUS
<1>2. m \in ToSet(new)
  BY <1>1
<1>3. CASE m \in ToSet(old)
  <2>1. Belongs(s, m)
    BY <1>1, <1>3 DEF SentBelongs
  <2> QED
    BY <2>1, BelongsStays
<1>4. CASE m \notin ToSet(old)
  <2>1. PICK p \in Calls : Puts(p, s) /\ new = Append(old, Item(p)) /\ Item(p) \in Message
    BY <1>1, <1>2, <1>4, PipelineNext DEF Sublist
  <2>2. old \in Seq(Message)
    BY <1>1, PipelineNext
  <2>3. m = Item(p)
    <3>1. PICK x : x = Item(p)
      OBVIOUS
    <3>2. x \in Message /\ new = Append(old, x)
      BY <2>1, <3>1
    <3>3. old \in Seq(Message) /\ x \in Message /\ new = Append(old, x)
      BY <2>2, <3>2
    <3>4. ToSet(new) = ToSet(old) \cup {x}
      <4>1. ToSet(Append(old, x)) = ToSet(old) \cup {x}
        BY <3>3, AppendedSet
      <4> QED
        BY <3>3, <4>1, Zenon
    <3> QED
      BY <1>2, <1>4, <3>1, <3>4
  <2> QED
    BY <2>1, <2>3, PutBelongs
<1> QED
  BY <1>3, <1>4

\* Calls that returned stay returned.
LEMMA BeforeReturnedNext ==
    ASSUME StreamInv, [Next]_vars, BeforeReturned
    PROVE  BeforeReturned'
<1> SUFFICES ASSUME NEW q \in Calls, NEW p \in before'[q]
             PROVE  pc'[p] \in {"ok", "raised"}
  BY DEF BeforeReturned
<1>1. HistTypes /\ HistTypes'
  <2>1. StreamInv'
    BY StreamInvNext
  <2> QED
    BY <2>1 DEF StreamInv
<1>2. p \in Calls
  BY <1>1 DEF HistTypes
<1>3. CASE before'[q] = before[q]
  BY <1>2, <1>3, CallAdvances DEF BeforeReturned
<1>4. CASE before'[q] # before[q]
  <2>1. CallStays(q) \/ PublishStep(q)
    BY CallsMove
  <2>2. Publish(q)
    <3>1. ~CallStays(q)
      BY <1>4 DEF CallStays
    <3>2. \/ PublishRefused(q) \/ PublishDropped(q) \/ SendRefused(q) \/ SendHandsOver(q)
          \/ SendBuffers(q) \/ SendBlocks(q) \/ NextMessage(q) \/ PublishReturns(q) \/ SendBroken(q)
          => before' = before
      BY DEF PublishRefused, PublishDropped, SendRefused, SendHandsOver, SendBuffers, SendBlocks,
             AtStream, NextMessage, PublishReturns, SendBroken, histVars
    <3> QED
      BY <1>4, <2>1, <3>1, <3>2 DEF PublishStep
  <2>3. pc[p] \in {"ok", "raised"}
    BY <1>1, <2>2 DEF Publish, HistTypes
  <2> QED
    BY <1>2, <2>3, CallAdvances
<1> QED
  BY <1>3, <1>4

\* Two messages of one pipeline in the right order.
Ordered(m, n) == (m[1] = n[1] => m[2] < n[2]) /\ n[1] \notin before[m[1]]

\* InOrder, in these words.
LEMMA InOrderIsOrdered ==
    InOrder <=> \A s \in Subs : \A i, j \in 1..Len(Pipeline(s)) :
                   i < j => Ordered(Pipeline(s)[i], Pipeline(s)[j])
BY DEF InOrder, Ordered

\* The order of two messages does not change.
LEMMA OrderedStays ==
    ASSUME StreamInv, [Next]_vars, NEW s \in Subs, NEW m, NEW n, Belongs(s, m), Ordered(m, n)
    PROVE  Ordered(m, n)'
<1>1. m[1] \in Calls /\ pc[m[1]] # "idle"
  BY DEF Belongs, Message
<1>2. before'[m[1]] = before[m[1]]
  BY <1>1, CallAdvances
<1> QED
  BY <1>2 DEF Ordered

\* Every step keeps the order: what is appended is the next message of a call under way.
LEMMA OrderInvNext == OrderInv /\ [Next]_vars => OrderInv'
<1> SUFFICES ASSUME OrderInv, [Next]_vars PROVE OrderInv'
  OBVIOUS
<1>1. StreamInv /\ StreamInv' /\ SentBelongs /\ BeforeReturned /\ InOrder
  BY StreamInvNext DEF OrderInv
<1>2. SentBelongs' /\ BeforeReturned'
  BY <1>1, SentBelongsNext, BeforeReturnedNext
<1>3. ASSUME NEW s \in Subs, NEW new, new = Pipeline(s)',
             NEW i \in 1..Len(new), NEW j \in 1..Len(new), i < j,
             NEW m, m = new[i], NEW n, n = new[j]
      PROVE  Ordered(m, n)'
  <2>1. PICK old : old = Pipeline(s)
    OBVIOUS
  <2>2. /\ old \in Seq(Message) /\ new \in Seq(Message)
        /\ DOMAIN old = 1..Len(old) /\ Len(old) \in Nat
    BY <1>1, <1>3, <2>1, PipelineNext, LenProperties
  <2>3. ASSUME NEW k \in 1..Len(old), NEW l \in 1..Len(old), k < l, m = old[k], n = old[l]
        PROVE  Ordered(m, n)'
    <3>1. m \in ToSet(old)
      BY <2>2, <2>3 DEF ToSet
    <3>2. Ordered(m, n)
      BY <1>1, <2>1, <2>3, InOrderIsOrdered
    <3>3. Belongs(s, m)
      BY <1>1, <2>1, <3>1 DEF SentBelongs
    <3> QED
      BY <1>1, <3>2, <3>3, OrderedStays
  <2>4. CASE Sublist(new, old)
    <3>1. PICK k, l \in 1..Len(old) : k < l /\ new[i] = old[k] /\ new[j] = old[l]
      BY <1>3, <2>4 DEF Sublist
    <3> QED
      BY <1>3, <2>3, <3>1
  <2>5. CASE \E p \in Calls : Puts(p, s) /\ new = Append(old, Item(p)) /\ Item(p) \in Message
    <3>1. PICK p \in Calls : Puts(p, s) /\ new = Append(old, Item(p)) /\ Item(p) \in Message
      BY <2>5
    <3>2. PICK x : x = Item(p)
      OBVIOUS
    <3>3. /\ Len(new) = Len(old) + 1 /\ Len(old) \in Nat
          /\ \A k \in 1..Len(old) : new[k] = old[k] /\ old[k] \in ToSet(old)
          /\ new[Len(old) + 1] = x
      BY <2>2, <3>1, <3>2, AppendProperties DEF ToSet
    <3>4. CASE j \in 1..Len(old)
      <4>1. i \in 1..Len(old) /\ m = old[i] /\ n = old[j]
        BY <1>3, <3>3, <3>4
      <4> QED
        BY <1>3, <2>3, <3>4, <4>1
    <3>5. CASE j \notin 1..Len(old)
      <4>1. j = Len(old) + 1 /\ i \in 1..Len(old)
        BY <1>3, <3>3, <3>5
      <4>2. n = x /\ m \in ToSet(old)
        BY <1>3, <3>3, <4>1
      <4>4. Belongs(s, m)
        BY <1>1, <2>1, <4>2 DEF SentBelongs
      <4>5. s = Stream(p) /\ Runs(p) /\ HasNextStream(p) /\ x = <<p, msg[p]>>
        BY <3>1, <3>2 DEF Puts, Sends, SendHandsOver, SendBuffers, SendBlocks, AtStream, Item
      <4>6. ASSUME m[1] = p
            PROVE  m[2] < msg[p]
        <5>1. m[2] <= msg[p] /\ TopicOf[s] = TopicOf[p] /\ m[2] \in Nat /\ msg[p] \in Nat
          BY <1>1, <4>4, <4>6 DEF Belongs, Message, StreamInv, CallTypes, Positive
        <5>2. pos[p] \in Places(s)
          <6>1. subscribers[TopicOf[p]] \in Seq(Subs)
            BY <1>1, Names DEF StreamInv, ListTypes
          <6>2. pos[p] \in DOMAIN subscribers[TopicOf[p]]
            BY <1>1, <4>5, <6>1, LenProperties DEF HasNextStream, StreamInv, CallTypes, Positive
          <6> QED
            BY <4>5, <5>1, <6>2 DEF Places, Stream
        <5>3. m[2] # msg[p]
          BY <1>1, <4>4, <4>6, <5>2 DEF Belongs, StreamInv, CallTypes, Positive
        <5> QED
          BY <5>1, <5>3
      <4>7. p \notin before[m[1]]
        <5>1. m[1] \in Calls
          BY <4>4 DEF Belongs, Message
        <5> QED
          BY <1>1, <4>5, <5>1 DEF Runs, BeforeReturned
      <4>8. Ordered(m, x)
        BY <4>5, <4>6, <4>7 DEF Ordered
      <4>9. Ordered(m, x)'
        BY <1>1, <4>4, <4>8, OrderedStays
      <4> QED
        BY <4>2, <4>9
    <3> QED
      BY <3>4, <3>5
  <2> QED
    BY <1>1, <1>3, <2>1, <2>4, <2>5, PipelineNext
<1>4. InOrder'
  <2> SUFFICES ASSUME NEW s \in Subs, NEW i \in 1..Len(Pipeline(s)'), NEW j \in 1..Len(Pipeline(s)'),
                      i < j
               PROVE  LET m == Pipeline(s)'[i]  n == Pipeline(s)'[j]
                      IN (m[1] = n[1] => m[2] < n[2]) /\ n[1] \notin before'[m[1]]
    BY DEF InOrder
  <2>1. PICK new : new = Pipeline(s)'
    OBVIOUS
  <2>2. PICK m, n : m = new[i] /\ n = new[j]
    OBVIOUS
  <2>3. Ordered(m, n)'
    BY <1>3, <2>1, <2>2
  <2> QED
    BY <2>1, <2>2, <2>3 DEF Ordered
<1> QED
  BY <1>1, <1>2, <1>4 DEF OrderInv

\* Nothing is sent at first.
LEMMA EmptyPipelines == Init => \A s \in Subs : Pipeline(s) = <<>>
<1> SUFFICES ASSUME Init, NEW s \in Subs PROVE Pipeline(s) = <<>>
  OBVIOUS
<1>1. StreamInv
  BY StreamInvInit
<1>2. received[s] = <<>> /\ inbox[s] = <<>> /\ buffer[s] = <<>> /\ senders[s] = <<>>
  BY DEF Init
<1>3. Pipeline(s) = Base(s)
  BY <1>1, <1>2, PipelineTyping, NobodyWaits
<1>4. (<<>> \o <<>>) \o <<>> = <<>>
  BY EmptySeq, ConcatEmptySeq
<1> QED
  BY <1>2, <1>3, <1>4 DEF Base

\* A subscriber sees the messages of one publish() in batch order, and those of a call that had
\* returned before those of a call that started later.
THEOREM OrderIsKept == Spec => []InOrder
<1>1. Init => OrderInv
  <2> SUFFICES ASSUME Init PROVE OrderInv
    OBVIOUS
  <2>1. \A s \in Subs : ToSet(Pipeline(s)) = {} /\ Len(Pipeline(s)) = 0
    BY EmptyPipelines DEF ToSet
  <2>2. SentBelongs /\ InOrder
    BY <2>1 DEF SentBelongs, InOrder
  <2>3. BeforeReturned
    BY DEF BeforeReturned, Init
  <2> QED
    BY <2>2, <2>3, StreamInvInit DEF OrderInv
<1>2. OrderInv => InOrder
  BY DEF OrderInv
<1> QED
  BY <1>1, <1>2, OrderInvNext, PTL DEF Spec

-----------------------------------------------------------------------------
(* Fan-out                                                                 *)

Publishing == {"run", "blocked", "sent"}

\* A call that has not begun stands at its first message and has nobody to reach.
IdleIsFresh ==
    \A p \in Calls : pc[p] = "idle" => audience[p] = {} /\ msg[p] = 1 /\ pos[p] = 1

\* p has sent s every message it has been through, the current one if its iterator is past s.
OnItsWay(p, s) ==
    /\ TopicOf[s] = TopicOf[p] /\ Places(s) # {}
    /\ \A k \in 1..BatchSize :
          k < msg[p] \/ (k = msg[p] /\ \A j \in Places(s) : j < pos[p])
              => <<p, k>> \in ToSet(Pipeline(s))
FansOut ==
    \A p \in Calls : pc[p] \in Publishing =>
        \A s \in audience[p] \ passedOver[p] : Gone(s) \/ OnItsWay(p, s)

\* A call that returned has sent s all of its batch.
HasAll(p, s) == \A k \in 1..BatchSize : <<p, k>> \in ToSet(Pipeline(s))
FannedOut ==
    \A p \in Calls : pc[p] = "ok" =>
        \A s \in audience[p] \ passedOver[p] : Gone(s) \/ HasAll(p, s)

FanInv == StreamInv /\ IdleIsFresh /\ FansOut /\ FannedOut

\* What is in a pipeline stays there unless its publisher is cancelled or the subscriber leaves.
LEMMA StaysInPipeline ==
    ASSUME StreamInv, [Next]_vars, NEW s \in Subs, NEW m \in ToSet(Pipeline(s)),
           pc'[m[1]] # "raised", ~Gone(s)'
    PROVE  m \in ToSet(Pipeline(s)')
<1>1. PICK old, new : old = Pipeline(s) /\ new = Pipeline(s)'
  OBVIOUS
<1>2. CASE Thinned(s)
  BY <1>2 DEF Thinned, Kept
<1>3. CASE \E p \in Calls : Puts(p, s) /\ new = Append(old, Item(p)) /\ Item(p) \in Message
  <2>1. PICK p \in Calls : new = Append(old, Item(p)) /\ Item(p) \in Message
    BY <1>3
  <2>2. PICK x : x = Item(p)
    OBVIOUS
  <2>3. old \in Seq(Message) /\ x \in Message /\ new = Append(old, x)
    BY <1>1, <2>1, <2>2, PipelineNext
  <2>4. ToSet(Append(old, x)) = ToSet(old) \cup {x}
    BY <2>3, AppendedSet
  <2>5. m \in ToSet(Append(old, x))
    BY <1>1, <2>4
  <2> QED
    BY <1>1, <2>3, <2>5, Zenon
<1> QED
  BY <1>1, <1>2, <1>3, PipelineNext

\* A listed subscription has subscribed.
LEMMA PlacedIsListed ==
    ASSUME StreamInv, NEW s \in Subs, Places(s) # {}
    PROVE  it[s] # "none"
<1>1. s \in ToSet(subscribers[TopicOf[s]])
  BY DEF Places, ToSet
<1> QED
  BY <1>1, Names DEF StreamInv, ListTypes, ListedOnce

\* A call that stands still.
LEMMA OnItsWayStays ==
    ASSUME StreamInv, [Next]_vars, NEW p \in Calls, NEW s \in Subs, CallStays(p),
           pc[p] \in Publishing, pc'[p] \in Publishing,
           OnItsWay(p, s), s \notin passedOver'[p], ~Gone(s)'
    PROVE  OnItsWay(p, s)'
<1>1. msg'[p] = msg[p] /\ pos'[p] = pos[p] /\ TopicOf[s] = TopicOf[p] /\ Places(s) # {}
  BY DEF CallStays, OnItsWay
<1>2. Places(s) \subseteq Int /\ pos[p] \in Nat /\ p \in Tasks
  BY PlacesAreNumbers, Names DEF StreamInv, CallTypes, Positive
<1>3. Cursor(p, TopicOf[s]) = pos[p]
  BY <1>1 DEF Cursor, Publishing
<1>4. PlaceMoves(s)
  BY <1>1, PlacedIsListed, PlacesMove
<1>5. ASSUME NEW i \in Places(s)
      PROVE  \E j \in Places(s)' : j < pos[p] => i < pos[p]
  <2>1. PICK j \in Places(s)' : j = i \/ SteppedUp(s, i, j)
    BY <1>4 DEF PlaceMoves
  <2>2. CASE j = i
    BY <2>1, <2>2
  <2>3. CASE SteppedUp(s, i, j)
    <3>1. j = i - 1 /\ i # pos[p]
      BY <1>2, <1>3, <2>3 DEF SteppedUp
    <3> QED
      BY <1>2, <2>1, <3>1
  <2> QED
    BY <2>1, <2>2, <2>3
<1>6. Places(s)' # {}
  BY <1>1, <1>5
<1>7. ASSUME NEW k \in 1..BatchSize, k < msg[p] \/ (k = msg[p] /\ \A j \in Places(s)' : j < pos[p])
      PROVE  <<p, k>> \in ToSet(Pipeline(s)')
  <2>1. k < msg[p] \/ (k = msg[p] /\ \A i \in Places(s) : i < pos[p])
    BY <1>5, <1>7
  <2>2. PICK m : m = <<p, k>>
    OBVIOUS
  <2>3. m \in ToSet(Pipeline(s)) /\ pc'[m[1]] # "raised"
    BY <2>1, <2>2 DEF OnItsWay, Publishing
  <2> QED
    BY <2>2, <2>3, StaysInPipeline
<1> QED
  BY <1>1, <1>6, <1>7 DEF OnItsWay

\* A call that begins.
LEMMA PublishOnItsWay ==
    ASSUME StreamInv, IdleIsFresh, NEW p \in Calls, NEW s \in Subs, Publish(p), s \in audience'[p]
    PROVE  OnItsWay(p, s)'
<1>0. ListTypes /\ HistTypes
  BY DEF StreamInv
<1>1. /\ UNCHANGED <<subscribers, msg, pos>> /\ msg[p] = 1 /\ pos[p] = 1
      /\ s \in ToSet(subscribers[TopicOf[p]])
  BY <1>0, Names DEF Publish, IdleIsFresh, HistTypes
<1>2. TopicOf[s] = TopicOf[p]
  BY <1>0, <1>1, Names DEF ListTypes, ListedOnce
<1>3. Places(s)' = Places(s) /\ Places(s) # {}
  BY <1>1, <1>2 DEF Places, ToSet
<1>4. \A j \in Places(s) : j >= 1
  <2>1. subscribers[TopicOf[s]] \in Seq(Subs)
    BY <1>0, Names DEF ListTypes
  <2> QED
    BY <2>1, LenProperties DEF Places
<1>5. \A k \in 1..BatchSize : ~(k < 1)
  BY PubSubAssumption
<1>6. ~ \A j \in Places(s) : j < 1
  <2>1. PICK j \in Places(s) : TRUE
    BY <1>3
  <2>2. j \in Int /\ j >= 1
    BY <1>4, PlacesAreNumbers
  <2> QED
    BY <2>2
<1> QED
  BY <1>1, <1>2, <1>3, <1>5, <1>6 DEF OnItsWay

\* A call that sends.
LEMMA SendsOnItsWay ==
    ASSUME StreamInv, [Next]_vars, NEW p \in Calls, NEW s \in Subs, Sends(p), OnItsWay(p, s), ~Gone(s)'
    PROVE  OnItsWay(p, s)'
<1>0. CallTypes /\ ListTypes
  BY DEF StreamInv
<1>1. /\ UNCHANGED <<subscribers, msg>> /\ pos' = [pos EXCEPT ![p] = @ + 1] /\ HasNextStream(p)
      /\ pc' = [pc EXCEPT ![p] = "run"] \/ pc' = [pc EXCEPT ![p] = "blocked"]
  BY DEF Sends, SendHandsOver, SendBuffers, SendBlocks, AtStream, Finish
<1>2. pos'[p] = pos[p] + 1 /\ pc'[p] # "raised" /\ pos[p] \in Nat /\ Places(s) \subseteq Int
  BY <1>0, <1>1, PlacesAreNumbers DEF CallTypes, Positive
<1>3. Places(s)' = Places(s) /\ Places(s) # {} /\ TopicOf[s] = TopicOf[p] /\ msg'[p] = msg[p]
  BY <1>1 DEF Places, OnItsWay
<1>4. ASSUME NEW k \in 1..BatchSize, k < msg[p] \/ (k = msg[p] /\ \A j \in Places(s) : j < pos[p])
      PROVE  <<p, k>> \in ToSet(Pipeline(s)')
  <2>1. PICK m : m = <<p, k>>
    OBVIOUS
  <2>2. m \in ToSet(Pipeline(s)) /\ pc'[m[1]] # "raised"
    BY <1>2, <1>4, <2>1 DEF OnItsWay
  <2> QED
    BY <2>1, <2>2, StaysInPipeline
<1>5. ASSUME NEW k \in 1..BatchSize, k = msg[p], NEW j \in Places(s), ~(j < pos[p]), j < pos[p] + 1
      PROVE  <<p, k>> \in ToSet(Pipeline(s)')
  <2>1. j = pos[p]
    BY <1>2, <1>5
  <2>2. Puts(p, s)
    BY <1>3, <2>1 DEF Places, Puts, Stream
  <2>3. PICK old, new, x : old = Pipeline(s) /\ new = Pipeline(s)' /\ x = Item(p)
    OBVIOUS
  <2>4. StreamInv' /\ PipelineTypes
    BY StreamInvNext, PipelineTyping
  <2>5. x = <<p, k>> /\ x \in Message /\ old \in Seq(Message)
    BY <1>5, <2>3, <2>4 DEF Item, Message, PipelineTypes
  <2>6. new = Append(old, x)
    BY <2>2, <2>3, <2>4, SentIsAppended DEF Puts, Sends
  <2>7. ToSet(Append(old, x)) = ToSet(old) \cup {x}
    BY <2>5, AppendedSet
  <2>8. x \in ToSet(new)
    <3>1. x \in ToSet(Append(old, x))
      BY <2>7
    <3> QED
      BY <2>6, <3>1, Zenon
  <2> QED
    BY <2>3, <2>5, <2>8
<1>6. ASSUME NEW k \in 1..BatchSize,
             k < msg[p] \/ (k = msg[p] /\ \A j \in Places(s) : j < pos[p] + 1)
      PROVE  <<p, k>> \in ToSet(Pipeline(s)')
  <2>1. CASE k < msg[p] \/ (k = msg[p] /\ \A j \in Places(s) : j < pos[p])
    BY <1>4, <2>1
  <2>2. CASE k = msg[p] /\ \E j \in Places(s) : ~(j < pos[p])
    <3>1. PICK j \in Places(s) : ~(j < pos[p])
      BY <2>2
    <3>2. j < pos[p] + 1
      BY <1>6, <1>2, <2>2
    <3> QED
      BY <1>5, <2>2, <3>1, <3>2
  <2> QED
    BY <1>6, <2>1, <2>2
<1> QED
  BY <1>2, <1>3, <1>6 DEF OnItsWay

\* A call that turns to its next message has been through the whole list.
LEMMA NextMessageOnItsWay ==
    ASSUME StreamInv, [Next]_vars, NEW p \in Calls, NEW s \in Subs, NextMessage(p), OnItsWay(p, s),
           ~Gone(s)'
    PROVE  OnItsWay(p, s)'
<1>0. CallTypes /\ ListTypes
  BY DEF StreamInv
<1>1. /\ UNCHANGED subscribers /\ ~HasNextStream(p) /\ msg' = [msg EXCEPT ![p] = @ + 1]
      /\ pos' = [pos EXCEPT ![p] = 1] /\ pc' = [pc EXCEPT ![p] = "run"]
  BY DEF NextMessage
<1>2. /\ msg'[p] = msg[p] + 1 /\ pos'[p] = 1 /\ pc'[p] = "run" /\ msg[p] \in Nat /\ pos[p] \in Nat
  BY <1>0, <1>1 DEF CallTypes, Positive
<1>3. Places(s)' = Places(s) /\ Places(s) # {} /\ TopicOf[s] = TopicOf[p]
  BY <1>1 DEF Places, OnItsWay
<1>4. subscribers[TopicOf[p]] \in Seq(Subs)
  BY <1>0, Names DEF ListTypes
<1>5. DOMAIN subscribers[TopicOf[p]] = 1..Len(subscribers[TopicOf[p]]) /\ Len(subscribers[TopicOf[p]]) \in Nat
  BY <1>4, LenProperties
<1>6. \A j \in Places(s) : j < pos[p] /\ j >= 1
  BY <1>1, <1>2, <1>3, <1>5 DEF Places, HasNextStream
<1>7. ~ \A j \in Places(s) : j < 1
  <2>1. PICK j \in Places(s) : TRUE
    BY <1>3
  <2>2. j \in Int /\ j >= 1
    BY <1>6, PlacesAreNumbers
  <2> QED
    BY <2>2
<1>8. ASSUME NEW k \in 1..BatchSize, k < msg[p] + 1
      PROVE  <<p, k>> \in ToSet(Pipeline(s)')
  <2>1. PICK m : m = <<p, k>>
    OBVIOUS
  <2>2. k < msg[p] \/ k = msg[p]
    BY <1>2, <1>8
  <2>3. m \in ToSet(Pipeline(s)) /\ pc'[m[1]] # "raised"
    BY <1>2, <1>6, <2>1, <2>2 DEF OnItsWay
  <2> QED
    BY <2>1, <2>3, StaysInPipeline
<1> QED
  BY <1>2, <1>3, <1>7, <1>8 DEF OnItsWay

\* Before its first step a call is as Init left it.
LEMMA IdleIsFreshNext ==
    ASSUME StreamInv, [Next]_vars, IdleIsFresh
    PROVE  IdleIsFresh'
<1> SUFFICES ASSUME NEW p \in Calls, pc'[p] = "idle"
             PROVE  audience'[p] = {} /\ msg'[p] = 1 /\ pos'[p] = 1
  BY DEF IdleIsFresh
<1>1. pc[p] = "idle"
  BY CallAdvances
<1>2. CASE CallStays(p)
  BY <1>1, <1>2 DEF CallStays, IdleIsFresh
<1>3. CASE PublishStep(p)
  <2>1. \E x \in {"run", "blocked", "ok", "raised"} : pc' = [pc EXCEPT ![p] = x]
    BY <1>3 DEF PublishStep, PublishRefused, PublishDropped, Publish, SendRefused, SendHandsOver,
                SendBuffers, SendBlocks, NextMessage, PublishReturns, SendBroken, Finish
  <2>2. pc'[p] # "idle"
    BY <2>1 DEF StreamInv, CallTypes
  <2> QED
    BY <2>2
<1> QED
  BY <1>2, <1>3, CallsMove

\* The audience of a call and its steps.
LEMMA AudienceStays ==
    ASSUME StreamInv, NEW p \in Calls,
           \/ Ending(p) \/ SendRefused(p) \/ Sends(p) \/ NextMessage(p)
    PROVE  /\ UNCHANGED <<audience, passedOver>>
           /\ Ending(p) \/ SendRefused(p) => pc'[p] \in {"ok", "raised"}
           /\ Sends(p) \/ NextMessage(p) => pc[p] \in Publishing /\ pc'[p] \in Publishing
<1>1. UNCHANGED <<audience, passedOver>>
  BY DEF Ending, PublishRefused, PublishDropped, SendRefused, Sends, SendHandsOver, SendBuffers,
         SendBlocks, NextMessage, PublishReturns, SendBroken, AtStream, histVars
<1>2. Ending(p) \/ SendRefused(p) => \E x \in {"ok", "raised"} : pc' = [pc EXCEPT ![p] = x]
  BY DEF Ending, PublishRefused, PublishDropped, PublishReturns, SendBroken, SendRefused, Finish
<1>3. Sends(p) \/ NextMessage(p) =>
         Runs(p) /\ \E x \in {"run", "blocked"} : pc' = [pc EXCEPT ![p] = x]
  BY DEF Sends, SendHandsOver, SendBuffers, SendBlocks, NextMessage, AtStream, Finish
<1> QED
  BY <1>1, <1>2, <1>3 DEF Runs, Publishing, StreamInv, CallTypes

\* Every step keeps what a call under way has sent.
LEMMA FansOutNext ==
    ASSUME FanInv, [Next]_vars
    PROVE  FansOut'
<1> SUFFICES ASSUME NEW p \in Calls, pc'[p] \in Publishing,
                    NEW s \in audience'[p], s \notin passedOver'[p], ~Gone(s)'
             PROVE  OnItsWay(p, s)'
  BY DEF FansOut
<1>0. StreamInv /\ StreamInv' /\ IdleIsFresh /\ FansOut
  BY StreamInvNext DEF FanInv
<1>1. s \in Subs
  BY <1>0, Names DEF StreamInv, HistTypes
<1>2. s \notin passedOver[p] /\ ~Gone(s)
  BY <1>0, <1>1, Names, EverythingGrows DEF Grows
<1>3. ASSUME pc[p] \in Publishing, audience'[p] = audience[p]
      PROVE  OnItsWay(p, s)
  BY <1>0, <1>2, <1>3 DEF FansOut
<1>4. CASE CallStays(p)
  <2>1. pc[p] \in Publishing /\ audience'[p] = audience[p]
    BY <1>4 DEF CallStays, Publishing
  <2> QED
    BY <1>0, <1>1, <1>3, <1>4, <2>1, OnItsWayStays
<1>5. CASE Publish(p)
  BY <1>0, <1>1, <1>5, PublishOnItsWay
<1>6. CASE Sends(p)
  BY <1>0, <1>1, <1>3, <1>6, AudienceStays, SendsOnItsWay
<1>7. CASE NextMessage(p)
  BY <1>0, <1>1, <1>3, <1>7, AudienceStays, NextMessageOnItsWay
<1>8. CASE Ending(p) \/ SendRefused(p)
  BY <1>0, <1>8, AudienceStays DEF Publishing
<1> QED
  BY <1>0, <1>4, <1>5, <1>6, <1>7, <1>8, CallsMove DEF PublishStep, Sends, Ending

\* Every step keeps what a call that returned has sent.
LEMMA FannedOutNext ==
    ASSUME FanInv, [Next]_vars
    PROVE  FannedOut'
<1> SUFFICES ASSUME NEW p \in Calls, pc'[p] = "ok",
                    NEW s \in audience'[p], s \notin passedOver'[p], ~Gone(s)',
                    NEW k \in 1..BatchSize
             PROVE  <<p, k>> \in ToSet(Pipeline(s)')
  BY DEF FannedOut, HasAll
<1>0. StreamInv /\ StreamInv' /\ IdleIsFresh /\ FansOut /\ FannedOut
  BY StreamInvNext DEF FanInv
<1>1. s \in Subs
  BY <1>0, Names DEF StreamInv, HistTypes
<1>2. s \notin passedOver[p] /\ ~Gone(s)
  BY <1>0, <1>1, Names, EverythingGrows DEF Grows
<1>3. <<p, k>> \in ToSet(Pipeline(s))
  <2>1. CASE CallStays(p)
    <3>1. pc[p] = "ok" /\ audience'[p] = audience[p]
      BY <2>1 DEF CallStays
    <3> QED
      BY <1>0, <1>2, <3>1 DEF FannedOut, HasAll
  <2>2. CASE PublishReturns(p)
    <3>1. pc[p] \in Publishing /\ UNCHANGED audience /\ ~HasMessage(p)
      BY <2>2 DEF PublishReturns, Runs, Publishing, histVars
    <3>2. OnItsWay(p, s)
      BY <1>0, <1>2, <3>1 DEF FansOut
    <3>3. k < msg[p]
      BY <1>0, <3>1, PubSubAssumption DEF HasMessage, StreamInv, CallTypes, Positive
    <3> QED
      BY <3>2, <3>3 DEF OnItsWay
  <2>3. CASE PublishDropped(p)
    <3>1. pc[p] = "idle" /\ UNCHANGED audience
      BY <2>3 DEF PublishDropped, histVars
    <3> QED
      BY <1>0, <3>1 DEF IdleIsFresh
  <2>4. CASE \/ PublishRefused(p) \/ Publish(p) \/ SendRefused(p) \/ SendHandsOver(p)
             \/ SendBuffers(p) \/ SendBlocks(p) \/ NextMessage(p) \/ SendBroken(p)
    <3>1. \E x \in {"run", "blocked", "raised"} : pc' = [pc EXCEPT ![p] = x]
      BY <2>4 DEF PublishRefused, Publish, SendRefused, SendHandsOver, SendBuffers, SendBlocks,
                  NextMessage, SendBroken, Finish
    <3> QED
      BY <1>0, <3>1 DEF StreamInv, CallTypes
  <2> QED
    BY <1>0, <2>1, <2>2, <2>3, <2>4, CallsMove DEF PublishStep
<1>4. PICK m : m = <<p, k>>
  OBVIOUS
<1>5. m \in ToSet(Pipeline(s)) /\ pc'[m[1]] # "raised"
  BY <1>3, <1>4
<1> QED
  BY <1>0, <1>1, <1>4, <1>5, StaysInPipeline

\* A publish() that returned has reached every subscription that was listed when it began, except
\* those that left and those its iterator passed over.
THEOREM FanOutIsComplete == Spec => []FanOutUnlessPassedOver
<1>1. Init => FanInv
  <2> SUFFICES ASSUME Init PROVE FanInv
    OBVIOUS
  <2>1. IdleIsFresh /\ FansOut /\ FannedOut
    BY Names DEF Init, IdleIsFresh, FansOut, FannedOut, Publishing
  <2> QED
    BY <2>1, StreamInvInit DEF FanInv
<1>2. FanInv /\ [Next]_vars => FanInv'
  <2> SUFFICES ASSUME FanInv, [Next]_vars PROVE FanInv'
    OBVIOUS
  <2>1. StreamInv' /\ IdleIsFresh'
    BY StreamInvNext, IdleIsFreshNext DEF FanInv
  <2> QED
    BY <2>1, FansOutNext, FannedOutNext DEF FanInv
<1>3. FanInv => FanOutUnlessPassedOver
  <2> SUFFICES ASSUME FanInv, NEW p \in Calls, pc[p] = "ok",
                      NEW s \in audience[p] \ passedOver[p], ~Gone(s)
               PROVE  Reached(p, s)
    BY DEF FanOutUnlessPassedOver
  <2>1. HasAll(p, s)
    BY DEF FanInv, FannedOut
  <2> QED
    BY <2>1 DEF HasAll, Reached, ToSet
<1> QED
  BY <1>1, <1>2, <1>3, PTL DEF Spec

-----------------------------------------------------------------------------
(* close()                                                                 *)

\* What a running close() has yet to reach is listed, and ahead of its iterators.
StillAhead(c, s) ==
    /\ Places(s) # {}
    /\ \/ TopicOf[s] \in cleft[c]
       \/ ctopic[c] = TopicOf[s] /\ \A j \in Places(s) : j >= cpos[c]
Closes ==
    \A c \in Closers : cpc[c] = "run" =>
        \A s \in audience[c] \ (passedOver[c] \cup sendClosed) : StillAhead(c, s)

CloseInv == StreamInv /\ Closes /\ CloseReachesStreams

\* A close() that stands still.
LEMMA StillAheadStays ==
    ASSUME StreamInv, [Next]_vars, NEW c \in Closers, NEW s \in Subs, CloserStays(c), cpc[c] = "run",
           StillAhead(c, s), s \notin passedOver'[c], s \notin sendClosed'
    PROVE  StillAhead(c, s)'
<1>1. cleft'[c] = cleft[c] /\ ctopic'[c] = ctopic[c] /\ cpos'[c] = cpos[c] /\ Places(s) # {}
  BY DEF CloserStays, StillAhead
<1>2. PlaceMoves(s)
  BY <1>1, PlacedIsListed, PlacesMove
<1>3. Places(s)' # {}
  BY <1>1, <1>2 DEF PlaceMoves
<1>4. Places(s) \subseteq Int /\ cpos[c] \in Nat /\ c \in Tasks /\ c \notin Calls
  BY PlacesAreNumbers, PubSubAssumption, Names DEF StreamInv, CloserTypes, Positive
<1>5. ASSUME ctopic[c] = TopicOf[s], \A i \in Places(s) : i >= cpos[c], NEW j \in Places(s)'
      PROVE  j >= cpos[c]
  <2>1. PICK i \in Places(s) : j = i \/ SteppedUp(s, i, j)
    BY <1>2, <1>5 DEF PlaceMoves
  <2>2. CASE j = i
    BY <1>5, <2>1, <2>2
  <2>3. CASE SteppedUp(s, i, j)
    <3>1. Cursor(c, TopicOf[s]) = cpos[c]
      BY <1>4, <1>5 DEF Cursor
    <3>2. j = i - 1 /\ i # cpos[c] /\ i >= cpos[c]
      BY <1>4, <1>5, <2>1, <2>3, <3>1 DEF SteppedUp
    <3> QED
      BY <1>4, <2>1, <3>2
  <2> QED
    BY <2>1, <2>2, <2>3
<1> QED
  BY <1>1, <1>3, <1>5 DEF StillAhead

\* The streams ahead of a close() that has run out of streams in the list under way.
LEMMA NoStreamLeft ==
    ASSUME StreamInv, NEW c \in Closers, NEW s \in Subs, StillAhead(c, s), ~HasStream(c)
    PROVE  TopicOf[s] \in cleft[c]
<1> SUFFICES ASSUME ctopic[c] = TopicOf[s], \A j \in Places(s) : j >= cpos[c]
             PROVE  FALSE
  BY DEF StillAhead
<1>1. PICK j \in Places(s) : j >= cpos[c]
  BY DEF StillAhead
<1>2. TopicOf[s] \in Topics /\ TopicOf[s] # None
  BY Names, PubSubAssumption
<1>3. subscribers[TopicOf[s]] \in Seq(Subs)
  BY <1>2 DEF StreamInv, ListTypes
<1>4. /\ j \in 1..Len(subscribers[TopicOf[s]]) /\ Len(subscribers[TopicOf[s]]) \in Nat
      /\ cpos[c] \in Nat
  BY <1>3, LenProperties DEF Places, StreamInv, CloserTypes, Positive
<1>5. cpos[c] <= Len(subscribers[TopicOf[s]])
  BY <1>1, <1>4
<1> QED
  BY <1>2, <1>5 DEF HasStream

\* Every step keeps what a running close() has ahead.
LEMMA ClosesNext ==
    ASSUME CloseInv, [Next]_vars
    PROVE  Closes'
<1> SUFFICES ASSUME NEW c \in Closers, cpc'[c] = "run",
                    NEW s \in audience'[c], s \notin passedOver'[c], s \notin sendClosed'
             PROVE  StillAhead(c, s)'
  BY DEF Closes
<1>0. StreamInv /\ StreamInv' /\ Closes /\ CloserTypes /\ ListTypes /\ HistTypes
  BY StreamInvNext DEF CloseInv, StreamInv
<1>1. s \in Subs /\ c \in Tasks /\ TopicOf[s] \in Topics
  BY <1>0, Names DEF StreamInv, HistTypes
<1>2. s \notin passedOver[c] /\ s \notin sendClosed
  BY <1>0, <1>1, EverythingGrows DEF Grows
<1>3. ASSUME cpc[c] = "run", audience'[c] = audience[c]
      PROVE  StillAhead(c, s)
  BY <1>0, <1>2, <1>3 DEF Closes
<1>4. CASE CloserStays(c)
  <2>1. cpc[c] = "run" /\ audience'[c] = audience[c]
    BY <1>4 DEF CloserStays
  <2> QED
    BY <1>0, <1>1, <1>3, <1>4, <2>1, StillAheadStays
<1>5. CASE CloseBegins(c)
  <2>1. /\ UNCHANGED subscribers /\ cleft'[c] = topics
        /\ audience'[c] = UNION {ToSet(subscribers[t]) : t \in topics}
    BY <1>0, <1>1, <1>5 DEF CloseBegins, CloserTypes, HistTypes
  <2>2. PICK t \in topics : s \in ToSet(subscribers[t])
    BY <2>1
  <2>3. TopicOf[s] = t
    BY <1>0, <2>2 DEF ListTypes, ListedOnce
  <2>4. Places(s)' # {}
    BY <2>1, <2>2, <2>3 DEF Places, ToSet
  <2> QED
    BY <2>1, <2>2, <2>3, <2>4 DEF StillAhead
<1>6. CASE CloseStream(c)
  <2>1. /\ cpc[c] = "run" /\ HasStream(c) /\ cpos' = [cpos EXCEPT ![c] = @ + 1]
        /\ sendClosed' = sendClosed \cup {subscribers[ctopic[c]][cpos[c]]}
        /\ UNCHANGED <<subscribers, cleft, ctopic, audience>>
    BY <1>6 DEF CloseStream, Closing, histVars
  <2>2. StillAhead(c, s)
    BY <1>3, <2>1
  <2>3. cpos'[c] = cpos[c] + 1 /\ cpos[c] \in Nat /\ Places(s) \subseteq Int
    BY <1>0, <1>1, <2>1, PlacesAreNumbers DEF CloserTypes, Positive
  <2>4. Places(s)' = Places(s)
    BY <2>1 DEF Places
  <2>5. ASSUME ctopic[c] = TopicOf[s], NEW j \in Places(s), j >= cpos[c]
        PROVE  j >= cpos[c] + 1
    <3>1. j # cpos[c]
      BY <2>1, <2>5 DEF Places
    <3> QED
      BY <2>3, <2>5, <3>1
  <2> QED
    BY <2>1, <2>2, <2>3, <2>4, <2>5 DEF StillAhead
<1>7. CASE CloseNextTopic(c)
  <2>1. /\ cpc[c] = "run" /\ ~HasStream(c) /\ cpos' = [cpos EXCEPT ![c] = 1]
        /\ UNCHANGED <<subscribers, audience>>
    BY <1>7 DEF CloseNextTopic, Closing, histVars
  <2>2. PICK t \in cleft[c] : /\ ctopic' = [ctopic EXCEPT ![c] = t]
                              /\ cleft' = [cleft EXCEPT ![c] = @ \ {t}]
    BY <1>7 DEF CloseNextTopic
  <2>3. StillAhead(c, s)
    BY <1>3, <2>1
  <2>4. TopicOf[s] \in cleft[c]
    BY <1>0, <1>1, <2>1, <2>3, NoStreamLeft
  <2>5. Places(s)' = Places(s) /\ Places(s) # {}
    BY <2>1, <2>3 DEF Places, StillAhead
  <2>6. \A j \in Places(s) : j >= 1
    <3>1. subscribers[TopicOf[s]] \in Seq(Subs)
      BY <1>0, <1>1 DEF ListTypes
    <3> QED
      BY <3>1, LenProperties DEF Places
  <2>7. ctopic'[c] = t /\ cleft'[c] = cleft[c] \ {t} /\ cpos'[c] = 1
    BY <1>0, <2>1, <2>2 DEF CloserTypes
  <2> QED
    BY <2>4, <2>5, <2>6, <2>7 DEF StillAhead
<1>8. CASE CloseReturns(c) \/ CloseRaises(c)
  <2>1. \E x \in {"done", "raised"} : cpc' = [cpc EXCEPT ![c] = x]
    BY <1>8 DEF CloseReturns, CloseRaises
  <2> QED
    BY <1>0, <2>1 DEF CloserTypes
<1> QED
  BY <1>0, <1>4, <1>5, <1>6, <1>7, <1>8, ClosersMove DEF CloseStep

\* Every step keeps what a close() that returned has closed.
LEMMA CloseReachesNext ==
    ASSUME CloseInv, [Next]_vars
    PROVE  CloseReachesStreams'
<1> SUFFICES ASSUME NEW c \in Closers, cpc'[c] = "done",
                    NEW s \in audience'[c], s \notin passedOver'[c], s \notin sendClosed'
             PROVE  FALSE
  BY DEF CloseReachesStreams
<1>0. StreamInv /\ StreamInv' /\ Closes /\ CloserTypes /\ CloseReachesStreams
  BY StreamInvNext DEF CloseInv, StreamInv
<1>1. s \in Subs /\ c \in Tasks
  BY <1>0, Names DEF StreamInv, HistTypes
<1>2. s \notin passedOver[c] /\ s \notin sendClosed
  BY <1>0, <1>1, EverythingGrows DEF Grows
<1>3. CASE CloserStays(c)
  BY <1>0, <1>2, <1>3 DEF CloserStays, CloseReachesStreams
<1>4. CASE CloseReturns(c)
  <2>1. cpc[c] = "run" /\ ~HasStream(c) /\ cleft[c] = {} /\ UNCHANGED audience
    BY <1>4 DEF CloseReturns, Closing, histVars
  <2>2. StillAhead(c, s)
    BY <1>0, <1>2, <2>1 DEF Closes
  <2> QED
    BY <1>0, <1>1, <2>1, <2>2, NoStreamLeft
<1>5. CASE CloseBegins(c) \/ CloseStream(c) \/ CloseNextTopic(c) \/ CloseRaises(c)
  <2>1. (cpc' = cpc /\ cpc[c] = "run") \/ \E x \in {"run", "raised"} : cpc' = [cpc EXCEPT ![c] = x]
    BY <1>5 DEF CloseBegins, CloseStream, CloseNextTopic, CloseRaises, Closing
  <2> QED
    BY <1>0, <2>1 DEF CloserTypes
<1> QED
  BY <1>0, <1>3, <1>4, <1>5, ClosersMove DEF CloseStep

\* A close() that returned has closed every stream that was listed when it began, except those
\* its iterator passed over.
THEOREM CloseIsComplete == Spec => []CloseReachesStreams
<1>1. Init => CloseInv
  <2> SUFFICES ASSUME Init PROVE CloseInv
    OBVIOUS
  <2>1. Closes /\ CloseReachesStreams
    BY DEF Init, Closes, CloseReachesStreams
  <2> QED
    BY <2>1, StreamInvInit DEF CloseInv
<1>2. CloseInv /\ [Next]_vars => CloseInv'
  <2> SUFFICES ASSUME CloseInv, [Next]_vars PROVE CloseInv'
    OBVIOUS
  <2>1. StreamInv'
    BY StreamInvNext DEF CloseInv
  <2> QED
    BY <2>1, ClosesNext, CloseReachesNext DEF CloseInv
<1>3. CloseInv => CloseReachesStreams
  BY DEF CloseInv
<1> QED
  BY <1>1, <1>2, <1>3, PTL DEF Spec
=============================================================================
