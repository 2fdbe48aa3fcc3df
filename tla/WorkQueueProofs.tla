-------------------------- MODULE WorkQueueProofs --------------------------
(***************************************************************************)
(* Whatever implements WorkQueue is exclusive, for all messages and        *)
(* consumers.                                                              *)
(***************************************************************************)
EXTENDS WorkQueue, TLAPS

\* The state keeps its type: what is sent and settled are messages, and who has them consumers.
THEOREM QueueTyping == Spec => []TypeOK
<1>1. Init => TypeOK
  BY DEF Init, TypeOK
<1>2. TypeOK /\ [Next]_vars => TypeOK'
  <2> SUFFICES ASSUME TypeOK, [Next]_vars
               PROVE  TypeOK'
    OBVIOUS
  <2> USE DEF TypeOK
  <2>1. CASE UNCHANGED vars
    BY <2>1 DEF vars
  <2>2. CASE Lapse
    BY <2>2 DEF Lapse
  <2>3. ASSUME Holds, sent' \subseteq Messages, done' \subseteq Messages,
               hands' \in [Messages -> SUBSET Consumers]
        PROVE  TypeOK'
    BY <2>3 DEF Holds
  <2>4. ASSUME NEW m \in Messages, Send(m), Holds
        PROVE  TypeOK'
    BY <2>3, <2>4 DEF Send
  <2>5. ASSUME NEW c \in Consumers, NEW S \in SUBSET sent, Take(c, S), Holds
        PROVE  TypeOK'
    BY <2>3, <2>5 DEF Take
  <2>6. ASSUME NEW c \in Consumers, NEW S \in SUBSET sent, Release(c, S), Holds
        PROVE  TypeOK'
    BY <2>3, <2>6 DEF Release
  <2>7. ASSUME NEW c \in Consumers, NEW m \in sent, Finish(c, m), Holds
        PROVE  TypeOK'
    BY <2>3, <2>7 DEF Finish
  <2>8. CASE UNCHANGED <<sent, done, hands>> /\ Holds
    BY <2>3, <2>8
  <2> QED
    BY <2>1, <2>2, <2>4, <2>5, <2>6, <2>7, <2>8 DEF Next
<1> QED
  BY <1>1, <1>2, PTL DEF Spec

-----------------------------------------------------------------------------
\* At most one consumer has the message.
One(m) == \A c, d \in hands[m] : c = d

\* A step that leaves every message whose hold has not lapsed in one hand keeps the queue
\* exclusive: one whose hold is over is in one hand by Holds.
LEMMA StaysExclusive ==
    ASSUME Holds, done' \subseteq sent',
           \A m \in Messages : hands'[m] # {} => m \in sent',
           \A m \in Messages \ lapsed : One(m)'
    PROVE  Exclusive'
<1>1. ASSUME NEW m \in Messages, m \notin lapsed'
      PROVE  \A c, d \in hands'[m] : c = d
  <2>1. CASE m \in lapsed
    BY <1>1, <2>1 DEF Holds
  <2>2. CASE m \notin lapsed
    BY <1>1, <2>2 DEF One
  <2> QED
    BY <2>1, <2>2
<1> QED
  BY <1>1 DEF Exclusive

\* The promise that every backend which implements the queue inherits: a message is in one hand
\* at most, unless the backend's hold on it has lapsed.
THEOREM Exclusion == Spec => []Exclusive
<1>1. Init => Exclusive
  BY DEF Init, Exclusive
<1>2. TypeOK /\ Exclusive /\ [Next]_vars => Exclusive'
  <2> SUFFICES ASSUME TypeOK, Exclusive, [Next]_vars
               PROVE  Exclusive'
    OBVIOUS
  <2>1. CASE UNCHANGED vars
    BY <2>1 DEF vars, Exclusive
  <2>2. CASE Lapse
    BY <2>2 DEF Lapse, Exclusive
  <2>3. ASSUME NEW m \in Messages, Send(m), Holds
        PROVE  Exclusive'
    BY <2>3, StaysExclusive DEF Send, Exclusive, One
  <2>4. ASSUME NEW c \in Consumers, NEW S \in SUBSET sent, Take(c, S), Holds
        PROVE  Exclusive'
    <3>1. ASSUME NEW m \in Messages, m \notin lapsed
          PROVE  One(m)'
      <4>1. CASE m \in S
        BY <2>4, <3>1, <4>1 DEF Take, One
      <4>2. CASE m \notin S
        BY <2>4, <3>1, <4>2 DEF Take, One, Exclusive
      <4> QED
        BY <4>1, <4>2
    <3>2. \A m \in Messages : hands'[m] # {} => m \in sent'
      BY <2>4 DEF Take, Exclusive
    <3> QED
      BY <2>4, <3>1, <3>2, StaysExclusive DEF Take, Exclusive
  <2>5. ASSUME NEW c \in Consumers, NEW S \in SUBSET sent, Release(c, S), Holds
        PROVE  Exclusive'
    <3>1. \A m \in Messages : hands'[m] \subseteq hands[m]
      BY <2>5 DEF Release
    <3> QED
      BY <2>5, <3>1, StaysExclusive DEF Release, Exclusive, One
  <2>6. ASSUME NEW c \in Consumers, NEW m \in sent, Finish(c, m), Holds
        PROVE  Exclusive'
    <3>1. \A x \in Messages : hands'[x] \subseteq hands[x]
      BY <2>6 DEF Finish, TypeOK
    <3> QED
      BY <2>6, <3>1, StaysExclusive DEF Finish, Exclusive, One
  <2>7. CASE UNCHANGED <<sent, done, hands>> /\ Holds
    BY <2>7, StaysExclusive DEF Exclusive, One
  <2> QED
    BY <2>1, <2>2, <2>3, <2>4, <2>5, <2>6, <2>7 DEF Next
<1> QED
  BY <1>1, <1>2, QueueTyping, PTL DEF Spec
=============================================================================
