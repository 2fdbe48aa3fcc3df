------------------------------ MODULE SqlProofs ------------------------------
(***************************************************************************)
(* What SqlQueue keeps for any subscribers, rows, batches and bounds: its  *)
(* types, and that a row is in two hands only after a race or, in          *)
(* PostgreSQL, a deadline.  Sharing is not inductive: whether a claim      *)
(* shares a row depends on what keeps a row in hand from being eligible,   *)
(* its claimed_at in SQLite and its next_delivery_at in PostgreSQL         *)
(* (HandKeepsRow).                                                         *)
(***************************************************************************)
EXTENDS SqlQueue, SequenceTheorems, FiniteSetTheorems, TLAPS

-----------------------------------------------------------------------------
(* Sequences whose elements differ                                         *)

\* RemoveFirst takes the element at the only place it has and moves up what is behind.
LEMMA RemoveFirstAt ==
    ASSUME NEW S, NEW seq \in Seq(S), NEW k \in 1..Len(seq), IsInjective(seq)
    PROVE  LET r == RemoveFirst(seq, seq[k]) IN
               /\ r \in Seq(S) /\ Len(r) = Len(seq) - 1
               /\ \A i \in 1..(Len(seq) - 1) : r[i] = IF i < k THEN seq[i] ELSE seq[i + 1]
<1> DEFINE I == {i \in 1..Len(seq) : seq[i] = seq[k]}
<1>1. Len(seq) \in Nat /\ DOMAIN seq = 1..Len(seq) /\ \A i \in 1..Len(seq) : seq[i] \in S
  BY LenProperties, ElementOfSeq
<1>2. I = {k}
  BY <1>1 DEF IsInjective
<1>3. Min({k}) = k
  BY <1>1 DEF Min
<1>4. SelectInSeq(seq, LAMBDA v : v = seq[k]) = k
  BY <1>2, <1>3 DEF SelectInSeq
<1>5. RemoveFirst(seq, seq[k]) = SubSeq(seq, 1, k - 1) \o SubSeq(seq, k + 1, Len(seq))
  BY <1>4 DEF RemoveFirst, RemoveAt
<1> DEFINE a == SubSeq(seq, 1, k - 1)
           b == SubSeq(seq, k + 1, Len(seq))
<1>6. a \in Seq(S) /\ Len(a) = k - 1 /\ \A i \in 1..(k - 1) : a[i] = seq[i]
  <2>1. \A i \in 1..(k - 1) : seq[i] \in S
    BY <1>1
  <2>2. 1 \in Int /\ k - 1 \in Int
    BY <1>1
  <2> HIDE DEF a
  <2>3. /\ a \in Seq(S)
        /\ Len(a) = IF 1 <= k - 1 THEN k - 1 - 1 + 1 ELSE 0
        /\ \A i \in 1..(k - 1 - 1 + 1) : a[i] = seq[1 + i - 1]
    BY <2>1, <2>2, SubSeqProperties DEF a
  <2> QED
    BY <1>1, <2>3
<1>7. b \in Seq(S) /\ Len(b) = Len(seq) - k /\ \A i \in 1..(Len(seq) - k) : b[i] = seq[k + i]
  <2>1. \A i \in (k + 1)..Len(seq) : seq[i] \in S
    BY <1>1
  <2>2. k + 1 \in Int /\ Len(seq) \in Int
    BY <1>1
  <2> HIDE DEF b
  <2>3. /\ b \in Seq(S)
        /\ Len(b) = IF k + 1 <= Len(seq) THEN Len(seq) - (k + 1) + 1 ELSE 0
        /\ \A i \in 1..(Len(seq) - (k + 1) + 1) : b[i] = seq[k + 1 + i - 1]
    BY <2>1, <2>2, SubSeqProperties DEF b
  <2>4. \A i \in 1..(Len(seq) - k) : i \in 1..(Len(seq) - (k + 1) + 1) /\ k + 1 + i - 1 = k + i
    BY <1>1
  <2>5. \A i \in 1..(Len(seq) - k) : b[i] = seq[k + i]
    BY <2>3, <2>4
  <2>6. Len(b) = Len(seq) - k
    <3>1. Len(b) = IF k + 1 <= Len(seq) THEN Len(seq) - (k + 1) + 1 ELSE 0
      BY <2>3, Zenon
    <3>2. Len(seq) \in Nat /\ k \in Nat /\ k <= Len(seq)
      BY <1>1
    <3> HIDE DEF I
    <3> QED
      BY <3>1, <3>2
  <2> QED
    BY <2>3, <2>5, <2>6 DEF b
<1> HIDE DEF a, b
<1>8. /\ a \o b \in Seq(S) /\ Len(a \o b) = Len(a) + Len(b)
      /\ \A i \in 1..(Len(a) + Len(b)) : (a \o b)[i] = IF i <= Len(a) THEN a[i] ELSE b[i - Len(a)]
  BY <1>6, <1>7, ConcatProperties
<1> DEFINE r == RemoveFirst(seq, seq[k])
<1>9. r = a \o b
  BY <1>5 DEF a, b
<1> HIDE DEF r
<1>10. r \in Seq(S) /\ Len(r) = Len(seq) - 1
  <2>1. r \in Seq(S) /\ Len(r) = Len(a) + Len(b)
    BY <1>8, <1>9, Zenon
  <2>2. Len(a) = k - 1 /\ Len(b) = Len(seq) - k
    BY <1>6, <1>7, Zenon
  <2> QED
    BY <1>1, <2>1, <2>2
<1>11. ASSUME NEW i \in 1..(Len(seq) - 1)
       PROVE  r[i] = IF i < k THEN seq[i] ELSE seq[i + 1]
  <2>1. r[i] = IF i <= Len(a) THEN a[i] ELSE b[i - Len(a)]
    BY <1>1, <1>6, <1>7, <1>8, <1>9
  <2>2. CASE i < k
    BY <1>1, <1>6, <2>1, <2>2
  <2>3. CASE i >= k
    <3>1. i - (k - 1) \in 1..(Len(seq) - k) /\ k + (i - (k - 1)) = i + 1
      BY <1>1, <2>3
    <3>2. b[i - (k - 1)] = seq[i + 1]
      BY <1>7, <3>1
    <3> QED
      BY <1>1, <1>6, <2>1, <2>3, <3>2
  <2> QED
    BY <1>1, <2>2, <2>3
<1> QED
  BY <1>10, <1>11 DEF r

\* What Without leaves: everything else, once.
LEMMA WithoutRemoves ==
    ASSUME NEW S, NEW seq \in Seq(S), NEW m, IsInjective(seq)
    PROVE  /\ Without(seq, m) \in Seq(S) /\ IsInjective(Without(seq, m))
           /\ ToSet(Without(seq, m)) = ToSet(seq) \ {m}
<1>1. Len(seq) \in Nat /\ DOMAIN seq = 1..Len(seq)
  BY LenProperties
<1>2. CASE \E k \in 1..Len(seq) : seq[k] = m
  <2>1. PICK k \in 1..Len(seq) : seq[k] = m
    BY <1>2
  <2> DEFINE r == Without(seq, m)
  <2>2. /\ r \in Seq(S) /\ Len(r) = Len(seq) - 1
        /\ \A i \in 1..(Len(seq) - 1) : r[i] = IF i < k THEN seq[i] ELSE seq[i + 1]
    BY <2>1, RemoveFirstAt DEF Without
  <2> HIDE DEF r
  <2>3. DOMAIN r = 1..(Len(seq) - 1)
    BY <2>2, LenProperties
  <2>4. IsInjective(r)
    <3>1. ASSUME NEW i \in 1..(Len(seq) - 1), NEW j \in 1..(Len(seq) - 1), r[i] = r[j]
          PROVE  i = j
      <4> DEFINE at(x) == IF x < k THEN x ELSE x + 1
      <4>1. at(i) \in DOMAIN seq /\ at(j) \in DOMAIN seq
        BY <1>1
      <4>2. seq[at(i)] = seq[at(j)]
        BY <2>2, <3>1
      <4>3. at(i) = at(j)
        BY <4>1, <4>2, Zenon DEF IsInjective
      <4> QED
        BY <1>1, <4>3
    <3> QED
      BY <2>3, <3>1 DEF IsInjective
  <2>5. ToSet(r) \subseteq ToSet(seq) \ {m}
    <3>1. ASSUME NEW i \in 1..(Len(seq) - 1)
          PROVE  r[i] \in ToSet(seq) \ {m}
      <4>1. PICK j \in 1..Len(seq) : j # k /\ r[i] = seq[j]
        <5>1. i \in 1..Len(seq) /\ i + 1 \in 1..Len(seq)
          BY <1>1
        <5>2. CASE i < k
          BY <2>2, <5>1, <5>2
        <5>3. CASE ~ (i < k)
          <6>1. i + 1 # k
            BY <5>3
          <6> QED
            BY <2>2, <5>1, <5>3, <6>1
        <5> QED
          BY <5>2, <5>3
      <4>2. seq[j] # seq[k]
        BY <1>1, <4>1, Zenon DEF IsInjective
      <4> QED
        BY <1>1, <2>1, <4>1, <4>2, Zenon DEF ToSet
    <3> QED
      BY <2>3, <3>1, Zenon DEF ToSet
  <2>6. ASSUME NEW x \in ToSet(seq) \ {m}
        PROVE  x \in ToSet(r)
    <3>1. PICK j \in 1..Len(seq) : seq[j] = x
      BY <1>1 DEF ToSet
    <3>2. CASE j < k
      <4>1. j \in 1..(Len(seq) - 1) /\ r[j] = x
        BY <1>1, <2>2, <3>1, <3>2
      <4> QED
        BY <4>1, <2>3 DEF ToSet
    <3>3. CASE j > k
      <4>1. j - 1 \in 1..(Len(seq) - 1) /\ r[j - 1] = x
        BY <1>1, <2>2, <3>1, <3>3
      <4> QED
        BY <4>1, <2>3 DEF ToSet
    <3> QED
      BY <1>1, <2>1, <3>1, <3>2, <3>3
  <2> QED
    BY <2>2, <2>4, <2>5, <2>6 DEF r
<1>3. CASE ~ \E k \in 1..Len(seq) : seq[k] = m
  <2>1. Without(seq, m) = seq
    BY <1>3 DEF Without, RemoveFirst
  <2>2. m \notin ToSet(seq)
    BY <1>1, <1>3 DEF ToSet
  <2> QED
    BY <2>1, <2>2
<1> QED
  BY <1>2, <1>3

\* A new element at the end.
LEMMA AppendAdds ==
    ASSUME NEW S, NEW seq \in Seq(S), NEW m \in S \ ToSet(seq), IsInjective(seq)
    PROVE  /\ Append(seq, m) \in Seq(S) /\ IsInjective(Append(seq, m))
           /\ ToSet(Append(seq, m)) = ToSet(seq) \cup {m}
<1> DEFINE r == Append(seq, m)
<1>1. Len(seq) \in Nat /\ DOMAIN seq = 1..Len(seq)
  BY LenProperties
<1>2. /\ r \in Seq(S) /\ Len(r) = Len(seq) + 1
      /\ \A i \in 1..Len(seq) : r[i] = seq[i]
      /\ r[Len(seq) + 1] = m
  BY AppendProperties
<1> HIDE DEF r
<1>3. DOMAIN r = 1..(Len(seq) + 1)
  BY <1>2, LenProperties
<1>4. IsInjective(r)
  BY <1>1, <1>2, <1>3 DEF IsInjective, ToSet
<1>5. ToSet(r) \subseteq ToSet(seq) \cup {m}
  BY <1>1, <1>2, <1>3 DEF ToSet
<1>6. ToSet(seq) \subseteq ToSet(r)
  BY <1>1, <1>2, <1>3 DEF ToSet
<1>7. m \in ToSet(r)
  BY <1>1, <1>2, <1>3 DEF ToSet
<1> QED
  BY <1>2, <1>4, <1>5, <1>6, <1>7 DEF r

\* Of n numbers no more than n are listed without repetition.
LEMMA ShortIfInjective ==
    ASSUME NEW n \in Nat, NEW seq \in Seq(1..n), IsInjective(seq)
    PROVE  Len(seq) <= n
<1>1. Len(seq) \in Nat /\ seq \in [1..Len(seq) -> 1..n] /\ DOMAIN seq = 1..Len(seq)
  BY LenProperties
<1>2. seq \in Injection(1..Len(seq), 1..n)
  BY <1>1 DEF Injection, IsInjective
<1>3. IsFiniteSet(1..n) /\ Cardinality(1..n) = n
  BY FS_Interval
<1>4. Cardinality(1..Len(seq)) = Len(seq)
  <2>1. 1 \in Int /\ Len(seq) \in Int
    BY <1>1
  <2>2. Cardinality(1..Len(seq)) = IF 1 > Len(seq) THEN 0 ELSE Len(seq) - 1 + 1
    BY <2>1, FS_Interval, Zenon
  <2> QED
    BY <1>1, <2>2
<1>5. Cardinality(1..Len(seq)) <= Cardinality(1..n)
  BY <1>2, <1>3, FS_Injection
<1> QED
  BY <1>3, <1>4, <1>5

-----------------------------------------------------------------------------
(* The inductive invariant                                                 *)

\* A row is due once.
DueOnce == IsInjective(due)
\* A subscriber is about to claim only if a row is left of its batch.
BatchWaits == \A c \in Consumers : it[c] = "claim" => batch[c] # <<>>
\* An application has only rows that were inserted.
HeldIsARow == \A c \in Consumers, m \in Msgs : held[c][m] > 0 => m \in Rows
\* What keeps a row in hand from being selected: that it was claimed, or is not due.
HandKeeps(m) ==
    HandedTo(m) # {} /\ m \notin acked \cup raced =>
        IF dialect = "sqlite" THEN m \in claimed ELSE m \in ToSet(due) => m \in elapsed
\* One application has the row, and has it once.
OneHand(m) ==
    \A c, d \in Consumers : held[c][m] > 0 /\ held[d][m] > 0 => c = d /\ held[c][m] = 1
SharedForReason(m) == OneHand(m) \/ m \in raced \/ (dialect = "postgres" /\ m \in elapsed)
HandKeepsRow == \A m \in Msgs : HandKeeps(m) /\ SharedForReason(m)

\* The types, and what they rest on.
TableInv == TypeOK /\ DueOnce /\ BatchWaits /\ HeldIsARow

States == {"poll", "claim", "out", "ended"}
LoopTypes == it \in [Consumers -> States] /\ batch \in [Consumers -> Seq(Rows)] /\ BatchWaits
HeldTypes == held \in [Consumers -> [Msgs -> 0..MaxHeld]] /\ HeldIsARow
DueTypes == due \in Seq(Rows) /\ DueOnce
RowTypes ==
    /\ published \in 0..N /\ acked \subseteq Rows
    /\ closed \subseteq Consumers /\ crashes \in 0..MaxCrashes
    /\ dialect \in {"sqlite", "postgres"}
    /\ claimed \subseteq Rows /\ raced \subseteq Rows /\ elapsed \subseteq Rows

\* TableInv is its groups: that due is no longer than the table follows from DueOnce.
LEMMA TypesSplit == TableInv <=> RowTypes /\ LoopTypes /\ HeldTypes /\ DueTypes
<1>1. ASSUME RowTypes, DueTypes
      PROVE  Len(due) <= published
  BY <1>1, CompetingAssumption, ShortIfInjective DEF RowTypes, DueTypes, DueOnce, Rows
<1> QED
  BY <1>1 DEF TableInv, TypeOK, CommonTypes, RowTypes, LoopTypes, HeldTypes, DueTypes, Rows,
              States

\* The bounds are numbers, and rows are messages.
LEMMA Numbers ==
    ASSUME RowTypes
    PROVE  /\ N \in Nat /\ MaxHeld \in Nat /\ MaxCrashes \in Nat /\ Batch \in Nat \ {0}
           /\ published \in Nat /\ Rows \subseteq Msgs
BY CompetingAssumption DEF RowTypes, Rows, Msgs

\* The table is empty when its subscribers begin.
LEMMA TableInvInit == Init => TableInv
<1> SUFFICES ASSUME Init PROVE TableInv
  OBVIOUS
<1>1. RowTypes
  BY CompetingAssumption DEF Init, CommonInit, RowTypes
<1>2. HeldTypes
  BY CompetingAssumption DEF Init, CommonInit, HeldTypes, HeldIsARow, NothingHeld, Msgs
<1>3. <<>> \in Seq(Rows) /\ DOMAIN <<>> = {}
  BY EmptySeq, LenProperties
<1>4. LoopTypes
  BY <1>3 DEF Init, CommonInit, LoopTypes, BatchWaits, States
<1>5. DueTypes
  BY <1>3 DEF Init, DueTypes, DueOnce, IsInjective
<1> QED
  BY <1>1, <1>2, <1>4, <1>5, TypesSplit

\* More rows: what holds of the batches and of the hands still does.
LEMMA RowsGrow ==
    ASSUME LoopTypes, HeldTypes, UNCHANGED <<it, batch, held>>, Rows \subseteq Rows'
    PROVE  LoopTypes' /\ HeldTypes'
<1>1. Seq(Rows) \subseteq Seq(Rows')
  BY SeqMonotonic
<1>2. HeldTypes'
  BY DEF HeldTypes, HeldIsARow
<1>3. LoopTypes'
  BY <1>1 DEF LoopTypes, BatchWaits
<1> QED
  BY <1>2, <1>3

\* The steps that leave the table alone.
LEMMA SameTable ==
    ASSUME DueTypes, UNCHANGED <<published, due>>
    PROVE  DueTypes' /\ Rows' = Rows
BY DEF DueTypes, DueOnce, Rows

LEMMA SameLoops ==
    ASSUME LoopTypes, UNCHANGED <<published, it, batch>>
    PROVE  LoopTypes'
BY DEF LoopTypes, BatchWaits, Rows

LEMMA SameHands ==
    ASSUME HeldTypes, UNCHANGED <<published, held>>
    PROVE  HeldTypes'
BY DEF HeldTypes, HeldIsARow, Rows

\* A copy less.
LEMMA ReleaseTypes ==
    ASSUME HeldTypes, RowTypes, NEW c \in Consumers, NEW m \in Msgs, Release(c, m),
           UNCHANGED published
    PROVE  /\ HeldTypes' /\ m \in Rows
           /\ \A d \in Consumers, x \in Msgs :
                held'[d][x] = IF d = c /\ x = m THEN held[d][x] - 1 ELSE held[d][x]
<1>1. \A d \in Consumers, x \in Msgs :
        held'[d][x] = IF d = c /\ x = m THEN held[d][x] - 1 ELSE held[d][x]
  BY DEF Release, HeldTypes
<1>2. held' \in [Consumers -> [Msgs -> 0..MaxHeld]]
  BY Numbers DEF Release, HeldTypes
<1>3. HeldIsARow'
  BY <1>1, Numbers DEF HeldTypes, HeldIsARow, Rows
<1> QED
  BY <1>1, <1>2, <1>3 DEF HeldTypes, HeldIsARow, Release

\* What a selection leaves the subscriber with.
LEMMA SelectTypes ==
    ASSUME TableInv, NEW c \in Consumers, Select(c)
    PROVE  LoopTypes'
<1>0. RowTypes /\ LoopTypes /\ DueTypes
  BY TypesSplit
<1>1. PICK n \in 0..Batch : \E at \in [1..n -> Pending] :
        FirstPending(at) /\ batch' = [batch EXCEPT ![c] = [i \in 1..n |-> due[at[i]]]]
  BY DEF Select
<1>2. PICK at \in [1..n -> Pending] :
        FirstPending(at) /\ batch' = [batch EXCEPT ![c] = [i \in 1..n |-> due[at[i]]]]
  BY <1>1
<1> DEFINE b == [i \in 1..n |-> due[at[i]]]
<1>3. n \in Nat /\ Rows' = Rows
  BY <1>0, Numbers DEF Select, Rows
<1>4. \A k \in Pending : due[k] \in Rows
  BY <1>0, ElementOfSeq DEF Pending, DueTypes
<1>5. b \in [1..n -> Rows]
  BY <1>2, <1>4
<1>6. b \in Seq(Rows)
  BY <1>3, <1>5, SeqDef
<1>7. DOMAIN b = 1..n
  OBVIOUS
<1>8. ASSUME Pending # {}
      PROVE  b # <<>>
  <2>1. SUFFICES ASSUME n = 0 PROVE FALSE
    BY <1>3, <1>7, EmptySeq, LenProperties
  <2>2. Len(at) = 0 /\ ToSet(at) = {}
    <3>1. at \in Seq(Pending) /\ DOMAIN at = {}
      BY <1>2, <1>3, <2>1, SeqDef
    <3> QED
      BY <2>1, <3>1, LenProperties DEF ToSet
  <2>3. \A k \in Pending \ ToSet(at) : Len(at) = Batch
    BY <1>2 DEF FirstPending
  <2> QED
    BY <1>0, <1>8, <2>2, <2>3, Numbers
<1> HIDE DEF b
<1>9. batch' = [batch EXCEPT ![c] = b]
  BY <1>2 DEF b
<1>10. it' = [it EXCEPT ![c] = IF Pending # {} THEN "claim" ELSE LoopHead(c)]
  BY DEF Select, Goto
<1>11. LoopHead(c) \in {"poll", "ended"}
  BY DEF LoopHead
<1>12. it' \in [Consumers -> States] /\ batch' \in [Consumers -> Seq(Rows)]
  BY <1>0, <1>6, <1>9, <1>10, <1>11 DEF LoopTypes, States
<1>13. BatchWaits'
  BY <1>0, <1>8, <1>9, <1>10, <1>11 DEF LoopTypes, BatchWaits
<1> QED
  BY <1>3, <1>12, <1>13 DEF LoopTypes

\* The row that a subscriber claims, and what the claim does to it.
LEMMA ClaimTypes ==
    ASSUME TableInv, NEW c \in Consumers, ClaimAndYield(c)
    PROVE  LET m == Head(batch[c]) IN
               /\ RowTypes' /\ LoopTypes' /\ HeldTypes' /\ DueTypes'
               /\ m \in Rows /\ ToSet(due') = ToSet(due) \ {m}
               /\ \A d \in Consumers, x \in Msgs :
                    held'[d][x] = IF d = c /\ x = m THEN held[d][x] + 1 ELSE held[d][x]
<1> DEFINE m == Head(batch[c])
<1>0. RowTypes /\ LoopTypes /\ HeldTypes /\ DueTypes
  BY TypesSplit
<1>1. batch[c] \in Seq(Rows) /\ batch[c] # <<>>
  BY <1>0 DEF ClaimAndYield, LoopTypes, BatchWaits
<1>2. m \in Rows /\ Tail(batch[c]) \in Seq(Rows)
  BY <1>1, HeadTailProperties
<1>3. /\ held[c][m] < MaxHeld /\ claimed' = claimed \cup {m} /\ due' = Without(due, m)
      /\ raced' \subseteq raced \cup {m}
      /\ held' = [held EXCEPT ![c][m] = @ + 1]
      /\ batch' = [batch EXCEPT ![c] = Tail(@)]
      /\ it' = [it EXCEPT ![c] = "out"]
      /\ UNCHANGED <<published, acked, closed, crashes, dialect, elapsed>>
  BY DEF ClaimAndYield, Goto
<1> HIDE DEF m
<1>4. Rows' = Rows
  BY <1>3 DEF Rows
<1>5. RowTypes'
  BY <1>0, <1>2, <1>3, <1>4 DEF RowTypes
<1>6. LoopTypes'
  BY <1>0, <1>2, <1>3, <1>4 DEF LoopTypes, BatchWaits, States
<1>7. \A d \in Consumers, x \in Msgs :
        held'[d][x] = IF d = c /\ x = m THEN held[d][x] + 1 ELSE held[d][x]
  BY <1>0, <1>3 DEF HeldTypes
<1>8. held' \in [Consumers -> [Msgs -> 0..MaxHeld]]
  <2>1. m \in Msgs /\ held[c][m] + 1 \in 0..MaxHeld
    BY <1>0, <1>2, <1>3, Numbers DEF HeldTypes
  <2> QED
    BY <1>0, <1>3, <2>1 DEF HeldTypes
<1>9. HeldIsARow'
  BY <1>0, <1>2, <1>4, <1>7 DEF HeldTypes, HeldIsARow
<1>10. DueTypes' /\ ToSet(due') = ToSet(due) \ {m}
  BY <1>0, <1>3, <1>4, WithoutRemoves DEF DueTypes, DueOnce
<1> QED
  BY <1>2, <1>4, <1>5, <1>6, <1>7, <1>8, <1>9, <1>10 DEF m, HeldTypes

\* The row that is claimed by a subscriber that raises then: it is in no more hands.
LEMMA RaiseTypes ==
    ASSUME TableInv, NEW c \in Consumers, ClaimAndRaise(c)
    PROVE  /\ RowTypes' /\ LoopTypes' /\ HeldTypes' /\ DueTypes'
           /\ ToSet(due') \subseteq ToSet(due) /\ claimed \subseteq claimed'
           /\ it' = [it EXCEPT ![c] = "ended"] /\ batch' = [batch EXCEPT ![c] = <<>>]
           /\ UNCHANGED <<published, acked, held, dialect, raced, elapsed>>
<1> DEFINE m == Head(batch[c])
<1>0. RowTypes /\ LoopTypes /\ HeldTypes /\ DueTypes
  BY TypesSplit
<1>1. batch[c] \in Seq(Rows) /\ batch[c] # <<>>
  BY <1>0 DEF ClaimAndRaise, LoopTypes, BatchWaits
<1>2. m \in Rows
  BY <1>1, HeadTailProperties
<1>3. /\ claimed' = claimed \cup {m} /\ due' = Without(due, m)
      /\ it' = [it EXCEPT ![c] = "ended"] /\ batch' = [batch EXCEPT ![c] = <<>>]
      /\ UNCHANGED <<published, acked, held, closed, crashes, dialect, raced, elapsed>>
  BY DEF ClaimAndRaise, Goto
<1> HIDE DEF m
<1>4. Rows' = Rows
  BY <1>3 DEF Rows
<1>5. RowTypes'
  BY <1>0, <1>2, <1>3, <1>4 DEF RowTypes
<1>6. LoopTypes'
  BY <1>0, <1>3, <1>4, EmptySeq DEF LoopTypes, BatchWaits, States
<1>7. HeldTypes'
  BY <1>0, <1>3, SameHands
<1>8. DueTypes' /\ ToSet(due') \subseteq ToSet(due)
  BY <1>0, <1>3, <1>4, WithoutRemoves DEF DueTypes, DueOnce
<1> QED
  BY <1>3, <1>5, <1>6, <1>7, <1>8

\* What a nack does to the row: it is the last one that is due.
LEMMA NackTypes ==
    ASSUME TableInv, NEW c \in Consumers, NEW m \in Msgs, Nack(c, m)
    PROVE  DueTypes' /\ ToSet(due') = ToSet(due) \cup {m}
<1>0. RowTypes /\ LoopTypes /\ HeldTypes /\ DueTypes
  BY TypesSplit
<1>1. m \in Rows /\ Rows' = Rows
  BY <1>0, ReleaseTypes DEF Nack, Rows
<1> DEFINE w == Without(due, m)
<1>2. w \in Seq(Rows) /\ IsInjective(w) /\ ToSet(w) = ToSet(due) \ {m}
  BY <1>0, WithoutRemoves DEF DueTypes, DueOnce
<1>3. due' = Append(w, m)
  BY DEF Nack
<1> HIDE DEF w
<1>4. due' \in Seq(Rows) /\ IsInjective(due') /\ ToSet(due') = ToSet(w) \cup {m}
  BY <1>1, <1>2, <1>3, AppendAdds
<1> QED
  BY <1>1, <1>2, <1>4 DEF DueTypes, DueOnce

\* A row that becomes due.
LEMMA DeadlineTypes ==
    ASSUME TableInv, NEW m \in Msgs, DeadlineElapses(m)
    PROVE  DueTypes' /\ ToSet(due') = ToSet(due) \cup {m} /\ m \in Rows
<1>0. DueTypes
  BY TypesSplit
<1>1. m \in Rows \ ToSet(due) /\ due' = Append(due, m) /\ Rows' = Rows
  BY DEF DeadlineElapses, Leased, commonVars, Rows
<1> QED
  BY <1>0, <1>1, AppendAdds DEF DueTypes, DueOnce

\* A row that is new is due, and nobody has it.
LEMMA InsertTypes ==
    ASSUME TableInv, Insert
    PROVE  /\ RowTypes' /\ LoopTypes' /\ HeldTypes' /\ DueTypes'
           /\ ToSet(due') = ToSet(due) \cup {published + 1} /\ published + 1 \notin Rows
<1>0. RowTypes /\ LoopTypes /\ HeldTypes /\ DueTypes
  BY TypesSplit
<1>1. /\ published < N /\ published' = published + 1 /\ due' = Append(due, published + 1)
      /\ UNCHANGED <<acked, it, batch, held, closed, crashes, dialect, claimed, raced, elapsed>>
  BY DEF Insert
<1>2. Rows' = Rows \cup {published + 1} /\ published + 1 \notin Rows /\ published' \in 0..N
  BY <1>0, <1>1, Numbers DEF RowTypes, Rows
<1>3. RowTypes'
  BY <1>0, <1>1, <1>2 DEF RowTypes
<1>4. LoopTypes' /\ HeldTypes'
  BY <1>0, <1>1, <1>2, RowsGrow
<1>5. due \in Seq(Rows') /\ ToSet(due) \subseteq Rows
  <2>1. Seq(Rows) \subseteq Seq(Rows')
    BY <1>2, SeqMonotonic
  <2> QED
    BY <1>0, <2>1, LenProperties, ElementOfSeq DEF DueTypes, ToSet
<1>6. due' \in Seq(Rows') /\ IsInjective(due') /\ ToSet(due') = ToSet(due) \cup {published + 1}
  BY <1>0, <1>1, <1>2, <1>5, AppendAdds DEF DueTypes, DueOnce
<1> QED
  BY <1>2, <1>3, <1>4, <1>6 DEF DueTypes, DueOnce

\* Nothing is remembered of rows that it did not remember before.
LEMMA RememberForgets ==
    ASSUME Remember
    PROVE  raced' \subseteq raced /\ elapsed' \subseteq elapsed
BY DEF Remember

\* Every step keeps the types.
LEMMA TableInvNext == TableInv /\ [Next]_vars => TableInv'
<1> SUFFICES ASSUME TableInv, [Next]_vars PROVE TableInv'
  OBVIOUS
<1>0. RowTypes /\ LoopTypes /\ HeldTypes /\ DueTypes
  BY TypesSplit
<1>a. SUFFICES RowTypes' /\ LoopTypes' /\ HeldTypes' /\ DueTypes'
  BY TypesSplit, PTL
<1>1. CASE Insert
  BY <1>1, InsertTypes
<1>2. ASSUME NEW c \in Consumers, Select(c)
      PROVE  RowTypes' /\ LoopTypes' /\ HeldTypes' /\ DueTypes'
  <2>1. UNCHANGED <<published, acked, held, closed, crashes, dialect, due, claimed, raced, elapsed>>
    BY <1>2 DEF Select, sqlVars
  <2>2. DueTypes' /\ HeldTypes' /\ Rows' = Rows
    BY <1>0, <2>1, SameTable, SameHands
  <2>3. RowTypes'
    BY <1>0, <2>1, <2>2 DEF RowTypes
  <2> QED
    BY <1>2, <2>2, <2>3, SelectTypes
<1>3. ASSUME NEW c \in Consumers, ClaimAndYield(c)
      PROVE  RowTypes' /\ LoopTypes' /\ HeldTypes' /\ DueTypes'
  BY <1>3, ClaimTypes
<1>4. ASSUME NEW c \in Consumers, Ask(c)
      PROVE  RowTypes' /\ LoopTypes' /\ HeldTypes' /\ DueTypes'
  <2>1. /\ UNCHANGED <<published, acked, batch, held, closed, crashes>>
        /\ UNCHANGED <<dialect, due, claimed, raced, elapsed>>
        /\ it' = [it EXCEPT ![c] = IF batch[c] # <<>> THEN "claim" ELSE LoopHead(c)]
    BY <1>4 DEF Ask, Goto, sqlVars
  <2>2. DueTypes' /\ HeldTypes' /\ Rows' = Rows
    BY <1>0, <2>1, SameTable, SameHands
  <2>3. RowTypes'
    BY <1>0, <2>1, <2>2 DEF RowTypes
  <2>4. LoopHead(c) \in {"poll", "ended"}
    BY DEF LoopHead
  <2>5. LoopTypes'
    BY <1>0, <2>1, <2>2, <2>4 DEF LoopTypes, BatchWaits, States
  <2> QED
    BY <2>2, <2>3, <2>5
<1>5. ASSUME NEW c \in Consumers, NEW m \in Msgs, Ack(c, m) \/ Nack(c, m) \/ Abandon(c, m)
      PROVE  RowTypes' /\ LoopTypes' /\ HeldTypes' /\ DueTypes'
  <2>1. /\ Release(c, m) /\ Remember
        /\ UNCHANGED <<published, it, batch, closed, crashes, dialect>>
        /\ acked' \subseteq acked \cup {m} /\ claimed' \subseteq claimed
    BY <1>5 DEF Ack, Nack, Abandon
  <2>2. HeldTypes' /\ m \in Rows
    BY <1>0, <2>1, ReleaseTypes
  <2>3. LoopTypes' /\ Rows' = Rows
    BY <1>0, <2>1, SameLoops DEF Rows
  <2>4. RowTypes'
    BY <1>0, <2>1, <2>2, <2>3, RememberForgets DEF RowTypes
  <2>5. DueTypes'
    BY <1>0, <1>5, <2>1, NackTypes, SameTable DEF Ack, Abandon
  <2> QED
    BY <2>2, <2>3, <2>4, <2>5
<1>6. ASSUME NEW m \in Msgs, DeadlineElapses(m)
      PROVE  RowTypes' /\ LoopTypes' /\ HeldTypes' /\ DueTypes'
  <2>1. /\ UNCHANGED <<published, acked, it, batch, held, closed, crashes>>
        /\ UNCHANGED <<dialect, claimed, raced>> /\ elapsed' \subseteq elapsed \cup {m}
    BY <1>6 DEF DeadlineElapses, commonVars
  <2>2. DueTypes' /\ m \in Rows
    BY <1>6, DeadlineTypes
  <2>3. LoopTypes' /\ HeldTypes' /\ Rows' = Rows
    BY <1>0, <2>1, SameLoops, SameHands DEF Rows
  <2>4. RowTypes'
    BY <1>0, <2>1, <2>2, <2>3 DEF RowTypes
  <2> QED
    BY <2>2, <2>3, <2>4
<1>7. ASSUME NEW c \in Consumers, Close(c)
      PROVE  RowTypes' /\ LoopTypes' /\ HeldTypes' /\ DueTypes'
  <2>1. /\ UNCHANGED <<published, acked, it, batch, held, crashes>>
        /\ UNCHANGED <<dialect, due, claimed, raced, elapsed>> /\ closed' = closed \cup {c}
    BY <1>7 DEF Close, SetClosed, sqlVars
  <2>2. DueTypes' /\ LoopTypes' /\ HeldTypes' /\ Rows' = Rows
    BY <1>0, <2>1, SameTable, SameLoops, SameHands
  <2>3. RowTypes'
    BY <1>0, <2>1, <2>2 DEF RowTypes
  <2> QED
    BY <2>2, <2>3
<1>8. ASSUME NEW c \in Consumers, Crash(c)
      PROVE  RowTypes' /\ LoopTypes' /\ HeldTypes' /\ DueTypes'
  <2>1. /\ crashes < MaxCrashes /\ crashes' = crashes + 1
        /\ it' = [it EXCEPT ![c] = "poll"] /\ batch' = [batch EXCEPT ![c] = <<>>]
        /\ held' = [held EXCEPT ![c] = NothingHeld] /\ closed' = closed \ {c}
        /\ UNCHANGED <<published, acked, dialect, due, claimed>> /\ Remember
    BY <1>8 DEF Crash, Respawn, Goto
  <2>2. DueTypes' /\ Rows' = Rows
    BY <1>0, <2>1, SameTable
  <2>3. RowTypes'
    BY <1>0, <2>1, <2>2, RememberForgets, Numbers DEF RowTypes
  <2>4. HeldTypes'
    BY <1>0, <2>1, <2>2, Numbers DEF HeldTypes, HeldIsARow, NothingHeld
  <2>5. LoopTypes'
    BY <1>0, <2>1, <2>2, EmptySeq DEF LoopTypes, BatchWaits, States
  <2> QED
    BY <2>2, <2>3, <2>4, <2>5
<1>9. CASE UNCHANGED vars
  <2>1. /\ UNCHANGED <<published, acked, it, batch, held, closed, crashes>>
        /\ UNCHANGED <<dialect, due, claimed, raced, elapsed>>
    BY <1>9 DEF vars, commonVars, sqlVars
  <2> QED
    BY <1>0, <2>1, SameTable, SameLoops, SameHands DEF RowTypes
<1>10. ASSUME NEW c \in Consumers, ClaimAndRaise(c)
       PROVE  RowTypes' /\ LoopTypes' /\ HeldTypes' /\ DueTypes'
  BY <1>10, RaiseTypes
<1> QED
  BY <1>1, <1>2, <1>3, <1>4, <1>5, <1>6, <1>7, <1>8, <1>9, <1>10 DEF Next, Iterates, Settles

\* The types of the rows, the subscribers and their applications, for any numbers of them.
THEOREM TableTypes == Spec => []TypeOK
<1>1. Init => TableInv
  BY TableInvInit
<1>2. TableInv /\ [Next]_vars => TableInv'
  BY TableInvNext
<1>3. TableInv => TypeOK
  BY DEF TableInv
<1> QED
  BY <1>1, <1>2, <1>3, PTL DEF Spec

-----------------------------------------------------------------------------
(* Rows in two hands                                                       *)

\* That a row is shared says what OneHand denies.
LEMMA SharedOrOneHand ==
    ASSUME HeldTypes, NEW m \in Msgs, OneHand(m)
    PROVE  ~ Shared(m)
<1> SUFFICES ASSUME NEW j \in Copies(m), NEW k \in Copies(m), j # k PROVE FALSE
  BY DEF Shared
<1>1. /\ j \in Consumers \X (1..MaxHeld) /\ held[j[1]][m] >= j[2]
      /\ k \in Consumers \X (1..MaxHeld) /\ held[k[1]][m] >= k[2]
  BY DEF Copies
<1>2. j = <<j[1], j[2]>> /\ k = <<k[1], k[2]>>
  BY <1>1
<1>3. /\ j[1] \in Consumers /\ k[1] \in Consumers /\ j[2] \in 1..MaxHeld /\ k[2] \in 1..MaxHeld
      /\ held[j[1]][m] \in 0..MaxHeld /\ held[k[1]][m] \in 0..MaxHeld
  BY <1>1 DEF HeldTypes
<1>4. MaxHeld \in Nat
  BY CompetingAssumption
<1>5. held[j[1]][m] > 0 /\ held[k[1]][m] > 0
  BY <1>1, <1>3, <1>4
<1>6. j[1] = k[1] /\ held[j[1]][m] = 1
  BY <1>3, <1>5 DEF OneHand
<1>7. j[2] = 1 /\ k[2] = 1
  BY <1>1, <1>3, <1>4, <1>6
<1> QED
  BY <1>2, <1>6, <1>7

\* A step that hands the row to nobody, and neither takes what keeps it from being selected
\* nor forgets of a row in hand what happened to it.
LEMMA HandsStay ==
    ASSUME HeldTypes, HeldTypes', NEW m \in Msgs, HandKeeps(m), SharedForReason(m),
           \A c \in Consumers : held'[c][m] <= held[c][m],
           dialect' = dialect,
           acked \subseteq acked',
           HandedTo(m)' # {} => (m \in raced => m \in raced')
                                /\ (m \in elapsed => m \in elapsed')
                                /\ (m \in claimed => m \in claimed')
                                /\ (m \in ToSet(due') => m \in ToSet(due) \/ m \in elapsed')
    PROVE  HandKeeps(m)' /\ SharedForReason(m)'
<1>0. \A c \in Consumers : held[c][m] \in Nat /\ held'[c][m] \in Nat
  <2>1. MaxHeld \in Nat
    BY CompetingAssumption
  <2> QED
    BY <2>1 DEF HeldTypes
<1>1. CASE HandedTo(m)' = {}
  <2>1. \A c \in Consumers : ~ (held'[c][m] > 0)
    BY <1>1 DEF HandedTo
  <2> QED
    BY <1>1, <2>1 DEF HandKeeps, SharedForReason, OneHand
<1>2. CASE HandedTo(m)' # {}
  <2>1. HandedTo(m) # {}
    BY <1>0, <1>2 DEF HandedTo
  <2>2. OneHand(m) => OneHand(m)'
    BY <1>0 DEF OneHand
  <2>3. SharedForReason(m)'
    BY <1>2, <2>2 DEF SharedForReason
  <2>4. HandKeeps(m)'
    BY <1>2, <2>1 DEF HandKeeps
  <2> QED
    BY <2>3, <2>4
<1> QED
  BY <1>1, <1>2

\* Of a row that is in a hand after a step everything is remembered.
LEMMA RememberKeeps ==
    ASSUME Remember, NEW m \in Msgs, HandedTo(m)' # {}
    PROVE  (m \in raced => m \in raced') /\ (m \in elapsed => m \in elapsed')
<1>1. \E c \in Consumers : held'[c][m] > 0
  BY DEF HandedTo
<1> QED
  BY <1>1 DEF Remember

\* Every step keeps what keeps a row in hand, and why it is in two.
LEMMA HandKeepsRowNext ==
    TableInv /\ TableInv' /\ HandKeepsRow /\ [Next]_vars => HandKeepsRow'
<1> SUFFICES ASSUME TableInv, TableInv', HandKeepsRow, [Next]_vars, NEW m \in Msgs
             PROVE  HandKeeps(m)' /\ SharedForReason(m)'
  BY DEF HandKeepsRow
<1>0. RowTypes /\ HeldTypes /\ HeldTypes' /\ DueTypes /\ MaxHeld \in Nat
  <2>1. HeldTypes'
    BY TypesSplit, PTL
  <2> QED
    BY <2>1, TypesSplit, CompetingAssumption
<1>a. HandKeeps(m) /\ SharedForReason(m)
  BY DEF HandKeepsRow
<1>b. \A c \in Consumers : held[c][m] \in Nat /\ held'[c][m] \in Nat
  BY <1>0 DEF HeldTypes
<1>1. ASSUME UNCHANGED <<acked, held, dialect, raced, elapsed, claimed, due>>
      PROVE  HandKeeps(m)' /\ SharedForReason(m)'
  BY <1>a, <1>1 DEF HandKeeps, SharedForReason, OneHand, HandedTo
<1>2. CASE Insert
  <2>1. UNCHANGED <<acked, held, dialect, claimed, raced, elapsed>>
    BY <1>2 DEF Insert
  <2>2. ToSet(due') = ToSet(due) \cup {published + 1} /\ published + 1 \notin Rows
    BY <1>2, InsertTypes
  <2>3. HandedTo(m)' # {} => m \in Rows
    BY <1>0, <2>1 DEF HandedTo, HeldTypes, HeldIsARow
  <2> QED
    BY <1>0, <1>a, <1>b, <2>1, <2>2, <2>3, HandsStay
<1>3. ASSUME NEW c \in Consumers, ClaimAndYield(c)
      PROVE  HandKeeps(m)' /\ SharedForReason(m)'
  <2> DEFINE h == Head(batch[c])
  <2>1. /\ claimed' = claimed \cup {h}
        /\ raced' = IF HandedTo(h) = {} \/ (h \in ToSet(due) /\ Eligible(h))
                    THEN raced ELSE raced \cup {h}
        /\ UNCHANGED <<acked, dialect, elapsed>>
    BY <1>3 DEF ClaimAndYield
  <2>2. /\ h \in Rows /\ ToSet(due') = ToSet(due) \ {h}
        /\ \A d \in Consumers, x \in Msgs :
             held'[d][x] = IF d = c /\ x = h THEN held[d][x] + 1 ELSE held[d][x]
    BY <1>3, ClaimTypes
  <2> HIDE DEF h
  <2>3. CASE m # h
    <3>1. \A d \in Consumers : held'[d][m] = held[d][m]
      BY <2>2, <2>3
    <3>2. (m \in raced => m \in raced') /\ (m \in claimed => m \in claimed')
      BY <2>1
    <3> QED
      BY <1>0, <1>a, <1>b, <2>1, <2>2, <3>1, <3>2, HandsStay
  <2>4. CASE m = h
    <3>1. HandKeeps(m)'
      BY <2>1, <2>2, <2>4 DEF HandKeeps
    <3>2. CASE HandedTo(m) = {}
      <4>1. \A d \in Consumers : held[d][m] = 0
        BY <1>b, <3>2 DEF HandedTo
      <4>2. \A d \in Consumers : held'[d][m] = IF d = c THEN 1 ELSE 0
        BY <2>2, <2>4, <4>1
      <4> QED
        BY <3>1, <4>2 DEF SharedForReason, OneHand
    <3>3. CASE HandedTo(m) # {}
      <4>1. CASE m \in raced'
        BY <3>1, <4>1 DEF SharedForReason
      <4>2. CASE m \notin raced'
        <5>1. m \in ToSet(due) /\ Eligible(m) /\ m \notin raced
          BY <2>1, <2>4, <3>3, <4>2
        <5>2. dialect # "sqlite" /\ m \in elapsed
          BY <1>a, <3>3, <5>1 DEF HandKeeps, Eligible
        <5>3. dialect' = "postgres" /\ m \in elapsed'
          BY <1>0, <2>1, <5>2 DEF RowTypes
        <5> QED
          BY <3>1, <5>3 DEF SharedForReason
      <4> QED
        BY <4>1, <4>2
    <3> QED
      BY <3>2, <3>3
  <2> QED
    BY <2>3, <2>4
<1>4. ASSUME NEW c \in Consumers, NEW x \in Msgs, Ack(c, x) \/ Nack(c, x) \/ Abandon(c, x)
      PROVE  HandKeeps(m)' /\ SharedForReason(m)'
  <2>1. Release(c, x) /\ Remember /\ dialect' = dialect /\ acked \subseteq acked'
    BY <1>4 DEF Ack, Nack, Abandon
  <2>2. \A d \in Consumers :
          held'[d][m] = IF d = c /\ m = x THEN held[d][m] - 1 ELSE held[d][m]
    BY <1>0, <1>4, <2>1, ReleaseTypes DEF Ack, Nack, Abandon
  <2>3. \A d \in Consumers : held'[d][m] <= held[d][m]
    BY <1>b, <2>2
  <2>4. CASE Ack(c, x) \/ Abandon(c, x) \/ m # x
    <3>1. (m \in claimed => m \in claimed') /\ (m \in ToSet(due') => m \in ToSet(due))
      BY <1>4, <2>4, NackTypes DEF Ack, Nack, Abandon
    <3> QED
      BY <1>0, <1>a, <2>1, <2>3, <3>1, HandsStay, RememberKeeps
  <2>5. CASE Nack(c, x) /\ m = x
    <3>1. CASE HandedTo(m)' = {}
      <4>1. \A d \in Consumers : ~ (held'[d][m] > 0)
        BY <3>1 DEF HandedTo
      <4> QED
        BY <3>1, <4>1 DEF HandKeeps, SharedForReason, OneHand
    <3>2. CASE HandedTo(m)' # {}
      <4>1. ~ OneHand(m)
        <5>1. PICK d \in Consumers : held'[d][m] > 0
          BY <3>2 DEF HandedTo
        <5>2. held[c][m] > 0 /\ held[d][m] > 0
          BY <1>b, <2>2, <2>5, <5>1 DEF Nack, Release
        <5> QED
          BY <1>b, <2>2, <2>5, <5>1, <5>2 DEF OneHand
      <4>2. m \in raced' \/ (dialect' = "postgres" /\ m \in elapsed')
        BY <1>a, <2>1, <3>2, <4>1, RememberKeeps DEF SharedForReason
      <4> QED
        BY <4>2 DEF HandKeeps, SharedForReason
    <3> QED
      BY <3>1, <3>2
  <2> QED
    BY <1>4, <2>4, <2>5
<1>5. ASSUME NEW x \in Msgs, DeadlineElapses(x)
      PROVE  HandKeeps(m)' /\ SharedForReason(m)'
  <2>1. UNCHANGED <<acked, held, dialect, claimed, raced>>
    BY <1>5 DEF DeadlineElapses, commonVars
  <2>2. elapsed' = IF HandedTo(x) = {} THEN elapsed ELSE elapsed \cup {x}
    BY <1>5 DEF DeadlineElapses
  <2>3. ToSet(due') = ToSet(due) \cup {x}
    BY <1>5, DeadlineTypes
  <2>4. HandedTo(m)' = HandedTo(m)
    BY <2>1 DEF HandedTo
  <2> QED
    BY <1>0, <1>a, <1>b, <2>1, <2>2, <2>3, <2>4, HandsStay
<1>6. ASSUME NEW c \in Consumers, Crash(c)
      PROVE  HandKeeps(m)' /\ SharedForReason(m)'
  <2>1. held' = [held EXCEPT ![c] = NothingHeld] /\ Remember
        /\ UNCHANGED <<acked, dialect, due, claimed>>
    BY <1>6 DEF Crash, Respawn
  <2>2. \A d \in Consumers : held'[d][m] <= held[d][m]
    BY <1>0, <1>b, <2>1 DEF HeldTypes, NothingHeld
  <2> QED
    BY <1>0, <1>a, <2>1, <2>2, HandsStay, RememberKeeps
<1>7. ASSUME NEW c \in Consumers, Select(c) \/ Ask(c) \/ Close(c)
      PROVE  HandKeeps(m)' /\ SharedForReason(m)'
  BY <1>1, <1>7 DEF Select, Ask, Close, SetClosed, sqlVars
<1>8. CASE UNCHANGED vars
  BY <1>1, <1>8 DEF vars, commonVars, sqlVars
<1>9. ASSUME NEW c \in Consumers, ClaimAndRaise(c)
      PROVE  HandKeeps(m)' /\ SharedForReason(m)'
  <2>1. /\ UNCHANGED <<acked, held, dialect, raced, elapsed>>
        /\ ToSet(due') \subseteq ToSet(due) /\ claimed \subseteq claimed'
    BY <1>9, RaiseTypes
  <2> QED
    BY <1>0, <1>a, <1>b, <2>1, HandsStay
<1> QED
  BY <1>2, <1>3, <1>4, <1>5, <1>6, <1>7, <1>8, <1>9 DEF Next, Iterates, Settles

\* Nobody has a row to begin with.
LEMMA RowsStart == Init => TableInv /\ HandKeepsRow
<1> SUFFICES ASSUME Init PROVE TableInv /\ HandKeepsRow
  OBVIOUS
<1>1. \A c \in Consumers, m \in Msgs : ~ (held[c][m] > 0)
  BY DEF Init, CommonInit, NothingHeld
<1> QED
  BY <1>1, TableInvInit DEF HandKeepsRow, HandKeeps, SharedForReason, OneHand, HandedTo

\* A row goes to one worker or to another: it is in two hands only if a subscriber claimed it
\* out of a batch that was not up to date, or if its deadline elapsed, in PostgreSQL.
THEOREM RowIsSharedForReason == Spec => []SharedOnlyByRaceOrDeadline
<1> DEFINE Inv == TableInv /\ HandKeepsRow
<1>1. Init => Inv
  BY RowsStart
<1>2. Inv /\ [Next]_vars => Inv'
  BY TableInvNext, HandKeepsRowNext
<1>3. Inv => SharedOnlyByRaceOrDeadline
  <2> SUFFICES ASSUME Inv, NEW m \in Msgs, Shared(m)
               PROVE  m \in raced \/ (dialect = "postgres" /\ m \in elapsed)
    BY DEF SharedOnlyByRaceOrDeadline
  <2>1. ~ OneHand(m)
    BY TypesSplit, SharedOrOneHand
  <2> QED
    BY <2>1 DEF HandKeepsRow, SharedForReason
<1> QED
  BY <1>1, <1>2, <1>3, PTL DEF Spec

-----------------------------------------------------------------------------
(* The work queue                                                          *)

Hands == [m \in Msgs |-> HandedTo(m)]
\* A subscriber that polls has claimed all of its last batch.
PollsEmpty == \A c \in Consumers : it[c] = "poll" => batch[c] = <<>>

\* Every step of a loop that is back at its head leaves an empty batch.
LEMMA PollsEmptyNext == TableInv /\ PollsEmpty /\ [Next]_vars => PollsEmpty'
<1> SUFFICES ASSUME TableInv, PollsEmpty, [Next]_vars, NEW d \in Consumers, it'[d] = "poll"
             PROVE  batch'[d] = <<>>
  BY DEF PollsEmpty
<1>0. DOMAIN it = Consumers /\ DOMAIN batch = Consumers
  BY TypesSplit DEF LoopTypes
<1>1. ASSUME it'[d] = it[d], batch'[d] = batch[d]
      PROVE  batch'[d] = <<>>
  BY <1>1 DEF PollsEmpty
<1>2. ASSUME NEW c \in Consumers, Select(c)
      PROVE  batch'[d] = <<>>
  <2>1. /\ it' = [it EXCEPT ![c] = IF Pending # {} THEN "claim" ELSE LoopHead(c)]
        /\ \E n \in 0..Batch : \E at \in [1..n -> Pending] :
              batch' = [batch EXCEPT ![c] = [i \in 1..n |-> due[at[i]]]]
    BY <1>2 DEF Select, Goto
  <2>2. CASE d = c
    <3>1. Pending = {}
      BY <1>0, <2>1, <2>2
    <3>2. PICK n \in 0..Batch : \E at \in [1..n -> Pending] :
              batch' = [batch EXCEPT ![c] = [i \in 1..n |-> due[at[i]]]]
      BY <2>1
    <3>3. PICK at \in [1..n -> Pending] : batch' = [batch EXCEPT ![c] = [i \in 1..n |-> due[at[i]]]]
      BY <3>2
    <3>4. n = 0
      <4>1. n \in Nat /\ (n # 0 => 1 \in 1..n)
        BY CompetingAssumption
      <4>2. 1 \notin 1..n
        BY <3>1, <3>3
      <4> QED
        BY <4>1, <4>2
    <3>5. batch'[d] = [i \in 1..n |-> due[at[i]]]
      BY <1>0, <2>2, <3>3
    <3> QED
      BY <3>4, <3>5
  <2>3. CASE d # c
    <3>1. it'[d] = it[d] /\ batch'[d] = batch[d]
      BY <1>0, <2>1, <2>3
    <3> QED
      BY <1>1, <3>1
  <2> QED
    BY <2>2, <2>3
<1>3. ASSUME NEW c \in Consumers, ClaimAndYield(c)
      PROVE  batch'[d] = <<>>
  <2>1. it' = [it EXCEPT ![c] = "out"] /\ batch' = [batch EXCEPT ![c] = Tail(@)]
    BY <1>3 DEF ClaimAndYield, Goto
  <2>2. d # c
    BY <1>0, <2>1
  <2> QED
    BY <1>0, <1>1, <2>1, <2>2
<1>4. ASSUME NEW c \in Consumers, Ask(c)
      PROVE  batch'[d] = <<>>
  <2>1. /\ it' = [it EXCEPT ![c] = IF batch[c] # <<>> THEN "claim" ELSE LoopHead(c)]
        /\ batch' = batch
    BY <1>4 DEF Ask, Goto
  <2> QED
    BY <1>0, <1>1, <2>1
<1>5. ASSUME NEW c \in Consumers, Crash(c)
      PROVE  batch'[d] = <<>>
  <2>1. it' = [it EXCEPT ![c] = "poll"] /\ batch' = [batch EXCEPT ![c] = <<>>]
    BY <1>5 DEF Crash, Respawn, Goto
  <2> QED
    BY <1>0, <1>1, <2>1
<1>6. CASE UNCHANGED <<it, batch>>
  BY <1>1, <1>6
<1>7. ASSUME NEW c \in Consumers, Settles(c) \/ Close(c)
      PROVE  UNCHANGED <<it, batch>>
  BY <1>7 DEF Settles, Ack, Nack, Abandon, Close, SetClosed
<1>8. CASE Insert \/ (\E m \in Msgs : DeadlineElapses(m)) \/ UNCHANGED vars
  BY <1>6, <1>8 DEF Insert, DeadlineElapses, vars, commonVars
<1>9. ASSUME NEW c \in Consumers, ClaimAndRaise(c)
      PROVE  batch'[d] = <<>>
  <2>1. it' = [it EXCEPT ![c] = "ended"] /\ batch' = [batch EXCEPT ![c] = <<>>]
    BY <1>9 DEF ClaimAndRaise, Goto
  <2> QED
    BY <1>0, <1>1, <2>1
<1> QED
  BY <1>2, <1>3, <1>4, <1>5, <1>6, <1>7, <1>8, <1>9 DEF Next, Iterates

\* What the queue no longer holds is selected by somebody, or shared for a reason.
LEMMA LapsedIs ==
    \A x : x \in Lapsed <=> \/ \E c \in Consumers : x \in ToSet(batch[c])
                           \/ x \in raced \/ (dialect = "postgres" /\ x \in elapsed)
BY DEF Lapsed, Selected

\* Rows are in nobody's hands before they are inserted, and all sets are of messages.
LEMMA HandsAreTyped ==
    ASSUME TableInv
    PROVE  /\ Rows \subseteq Msgs /\ acked \subseteq Rows /\ Lapsed \subseteq Rows
           /\ Hands \in [Msgs -> SUBSET Consumers]
           /\ \A m \in Msgs : HandedTo(m) # {} => m \in Rows
<1>0. RowTypes /\ LoopTypes /\ HeldTypes
  BY TypesSplit
<1>1. Rows \subseteq Msgs /\ acked \subseteq Rows
  BY <1>0, Numbers DEF RowTypes
<1>2. \A c \in Consumers : ToSet(batch[c]) \subseteq Rows
  <2>1. ASSUME NEW c \in Consumers
        PROVE  ToSet(batch[c]) \subseteq Rows
    <3>1. batch[c] \in Seq(Rows)
      BY <1>0 DEF LoopTypes
    <3>2. PICK n \in Nat : batch[c] \in [1..n -> Rows]
      BY <3>1, SeqDef
    <3> QED
      BY <3>2 DEF ToSet
  <2> QED
    BY <2>1
<1>3. Lapsed \subseteq Rows
  BY <1>0, <1>2, LapsedIs DEF RowTypes
<1>4. Hands \in [Msgs -> SUBSET Consumers]
  BY DEF Hands, HandedTo
<1>5. \A m \in Msgs : HandedTo(m) # {} => m \in Rows
  BY <1>0 DEF HeldTypes, HeldIsARow, HandedTo
<1> QED
  BY <1>1, <1>3, <1>4, <1>5

\* The head of a batch is of the batch, and so is what follows it.
LEMMA HeadAndTail ==
    ASSUME NEW S, NEW seq \in Seq(S), seq # <<>>
    PROVE  Head(seq) \in ToSet(seq) /\ ToSet(Tail(seq)) \subseteq ToSet(seq)
<1>1. /\ Len(seq) \in Nat /\ Len(seq) >= 1 /\ DOMAIN seq = 1..Len(seq)
      /\ Head(seq) = seq[1]
  BY HeadTailProperties, LenProperties, EmptySeq
<1>2. /\ Tail(seq) \in Seq(S) /\ Len(Tail(seq)) = Len(seq) - 1
      /\ \A i \in 1..Len(Tail(seq)) : Tail(seq)[i] = seq[i + 1]
  BY HeadTailProperties
<1>3. DOMAIN Tail(seq) = 1..(Len(seq) - 1)
  BY <1>2, LenProperties
<1>4. \A i \in 1..(Len(seq) - 1) : i + 1 \in 1..Len(seq)
  BY <1>1
<1> QED
  BY <1>1, <1>2, <1>3, <1>4 DEF ToSet

\* Only messages lapse.
LEMMA LapsedAreMessages == TableInv => Lapsed \subseteq Msgs
BY HandsAreTyped

\* A hold lapses no more than before, or because the row is done; that it is over again is
\* because nobody shares the row.
LEMMA HoldsAgain ==
    ASSUME TableInv, TableInv', HandKeepsRow', Lapsed' \subseteq Lapsed \cup acked'
    PROVE  Abstract!Holds
<1>1. Lapsed \subseteq Msgs
  BY HandsAreTyped
<1>2. ASSUME NEW m \in Lapsed \ Lapsed', NEW c \in HandedTo(m)', NEW d \in HandedTo(m)'
      PROVE  c = d
  <2>1. m \in Msgs /\ SharedForReason(m)'
    BY <1>1 DEF HandKeepsRow
  <2>2. ~ (m \in raced') /\ ~ (dialect' = "postgres" /\ m \in elapsed')
    BY <1>2 DEF Lapsed
  <2>3. OneHand(m)'
    BY <2>1, <2>2 DEF SharedForReason
  <2> QED
    BY <2>3 DEF OneHand, HandedTo
<1> QED
  BY <1>1, <1>2 DEF Abstract!Holds

\* Hands that stay, or lose one consumer.
LEMMA HandsChange ==
    ASSUME TableInv, NEW c \in Consumers, NEW S \in SUBSET Rows,
           \A x \in Msgs : HandedTo(x)' = IF x \in S THEN HandedTo(x) \ {c} ELSE HandedTo(x),
           UNCHANGED <<published, acked>>, Abstract!Holds
    PROVE  Abstract!Next
<1>1. Rows' = Rows
  BY DEF Rows
<1>2. Abstract!Release(c, S)
  BY <1>1 DEF Abstract!Release
<1> QED
  BY <1>2 DEF Abstract!Next

\* A hold that lapses while the hands stay as they are.
LEMMA HoldLapses ==
    ASSUME TableInv, TableInv', Lapsed \subseteq Lapsed', UNCHANGED <<published, acked, held>>
    PROVE  Abstract!Next
<1>1. Rows' = Rows /\ \A m \in Msgs : HandedTo(m)' = HandedTo(m)
  BY DEF Rows, HandedTo
<1>2. Lapsed' \subseteq Msgs
  <2>1. (Lapsed \subseteq Msgs)'
    BY LapsedAreMessages, PTL
  <2> QED
    BY <2>1
<1>3. Hands \in [Msgs -> SUBSET Consumers] /\ Hands' = Hands
  BY <1>1, HandsAreTyped DEF Hands
<1>4. Abstract!Lapse
  BY <1>1, <1>2, <1>3 DEF Abstract!Lapse, Hands
<1> QED
  BY <1>4 DEF Abstract!Next

\* A copy that an application settles, or loses, leaves it with one copy less.
LEMMA HandsRelease ==
    ASSUME TableInv, NEW c \in Consumers, NEW m \in Msgs, Release(c, m), UNCHANGED published
    PROVE  /\ m \in Rows /\ c \in HandedTo(m)
           /\ \A x \in Msgs : x # m => HandedTo(x)' = HandedTo(x)
           /\ HandedTo(m)' = HandedTo(m) \/ HandedTo(m)' = HandedTo(m) \ {c}
<1>0. RowTypes /\ HeldTypes
  BY TypesSplit
<1>1. /\ m \in Rows
      /\ \A d \in Consumers, x \in Msgs :
           held'[d][x] = IF d = c /\ x = m THEN held[d][x] - 1 ELSE held[d][x]
  BY <1>0, ReleaseTypes
<1>2. c \in HandedTo(m)
  BY DEF Release, HandedTo
<1>3. \A x \in Msgs : x # m => HandedTo(x)' = HandedTo(x)
  BY <1>1 DEF HandedTo
<1>4. \A d \in Consumers : d # c => (d \in HandedTo(m)' <=> d \in HandedTo(m))
  BY <1>1 DEF HandedTo
<1>5. HandedTo(m) \subseteq Consumers /\ HandedTo(m)' \subseteq Consumers
  BY DEF HandedTo
<1>6. HandedTo(m)' = HandedTo(m) \/ HandedTo(m)' = HandedTo(m) \ {c}
  <2>1. CASE c \in HandedTo(m)'
    <3>1. \A d : d \in HandedTo(m)' <=> d \in HandedTo(m)
      BY <1>2, <1>4, <1>5, <2>1
    <3> QED
      BY <3>1
  <2>2. CASE c \notin HandedTo(m)'
    <3>1. \A d : d \in HandedTo(m)' <=> d \in HandedTo(m) \ {c}
      BY <1>4, <1>5, <2>2
    <3> QED
      BY <3>1
  <2> QED
    BY <2>1, <2>2
<1> QED
  BY <1>1, <1>2, <1>3, <1>6, Zenon

\* Nothing is forgotten of the rows in hand but what is no longer in one.
LEMMA LapsesNoMore ==
    ASSUME Remember, dialect' = dialect, NEW c \in Consumers,
           \A d \in Consumers : ToSet(batch'[d]) \subseteq ToSet(batch[d])
    PROVE  Lapsed' \subseteq Lapsed
<1>1. raced' \subseteq raced /\ elapsed' \subseteq elapsed
  BY RememberForgets
<1> QED
  BY <1>1 DEF Lapsed, Selected

\* Every step of the table, of a subscriber or of its application is one of the queue.
LEMMA QueueStep ==
    ASSUME TableInv, TableInv', PollsEmpty, HandKeepsRow', [Next]_vars
    PROVE  [Abstract!Next]_Abstract!vars
<1>0. RowTypes /\ LoopTypes /\ HeldTypes
  BY TypesSplit
<1>a. /\ Rows \subseteq Msgs /\ acked \subseteq Rows /\ Lapsed \subseteq Rows
      /\ Hands \in [Msgs -> SUBSET Consumers]
      /\ \A m \in Msgs : HandedTo(m) # {} => m \in Rows
  BY HandsAreTyped
<1>b. ASSUME UNCHANGED <<published, acked, batch, held, dialect, raced, elapsed>>
      PROVE  UNCHANGED Abstract!vars
  <2>1. Rows' = Rows /\ Lapsed' = Lapsed
    BY <1>b DEF Rows, Lapsed, Selected
  <2>2. Hands' = Hands
    BY <1>b DEF Hands, HandedTo
  <2> QED
    BY <1>b, <2>1, <2>2 DEF Abstract!vars, Hands
<1>1. CASE Insert
  <2>1. /\ published < N /\ published' = published + 1
        /\ UNCHANGED <<acked, batch, held, dialect, raced, elapsed>>
    BY <1>1 DEF Insert
  <2>2. published' \in Msgs /\ published' \notin Rows /\ Rows' = Rows \cup {published'}
    BY <1>0, <2>1, Numbers DEF Rows, Msgs
  <2>3. Lapsed' = Lapsed
    BY <2>1 DEF Lapsed, Selected
  <2>4. Hands' = Hands
    BY <2>1 DEF Hands, HandedTo
  <2>5. Abstract!Send(published')
    BY <2>1, <2>2, <2>4 DEF Abstract!Send, Hands
  <2>6. Abstract!Holds
    BY <2>3, HoldsAgain
  <2> QED
    BY <2>2, <2>5, <2>6 DEF Abstract!Next
<1>2. ASSUME NEW c \in Consumers, Select(c)
      PROVE  Abstract!Next
  <2>1. /\ it[c] = "poll" /\ UNCHANGED <<published, acked, held, dialect, raced, elapsed>>
        /\ \A d \in Consumers \ {c} : batch'[d] = batch[d]
    BY <1>0, <1>2 DEF Select, sqlVars, LoopTypes
  <2>2. ToSet(batch[c]) = {}
    <3>1. batch[c] = <<>>
      BY <2>1 DEF PollsEmpty
    <3> QED
      BY <3>1, EmptySeq, LenProperties DEF ToSet
  <2>3. Lapsed \subseteq Lapsed'
    BY <2>1, <2>2 DEF Lapsed, Selected
  <2> QED
    BY <2>1, <2>3, HoldLapses
<1>3. ASSUME NEW c \in Consumers, ClaimAndYield(c)
      PROVE  Abstract!Next
  <2>1. PICK m : m = Head(batch[c])
    OBVIOUS
  <2>2. /\ it[c] = "claim" /\ raced' \subseteq raced \cup {m}
        /\ batch' = [batch EXCEPT ![c] = Tail(@)]
        /\ UNCHANGED <<published, acked, dialect, elapsed>>
    BY <1>3, <2>1 DEF ClaimAndYield
  <2>3. /\ m \in Rows
        /\ \A d \in Consumers, x \in Msgs :
             held'[d][x] = IF d = c /\ x = m THEN held[d][x] + 1 ELSE held[d][x]
    BY <1>3, <2>1, ClaimTypes
  <2>4. batch[c] \in Seq(Rows) /\ batch[c] # <<>>
    BY <1>0, <2>2 DEF LoopTypes, BatchWaits
  <2>5. m \in ToSet(batch[c]) /\ ToSet(Tail(batch[c])) \subseteq ToSet(batch[c])
    BY <2>1, <2>4, HeadAndTail
  <2>6. m \in Lapsed
    BY <2>5, LapsedIs
  <2>7. Lapsed' \subseteq Lapsed
    <3>1. \A d \in Consumers : ToSet(batch'[d]) \subseteq ToSet(batch[d])
      BY <1>0, <2>2, <2>5 DEF LoopTypes
    <3> QED
      BY <2>2, <2>6, <3>1 DEF Lapsed, Selected
  <2>8. \A x \in Msgs : HandedTo(x)' = IF x \in {m} THEN HandedTo(x) \cup {c} ELSE HandedTo(x)
    <3>1. \A d \in Consumers, x \in Msgs : held[d][x] \in Nat
      BY <1>0, Numbers DEF HeldTypes
    <3> QED
      BY <2>3, <3>1 DEF HandedTo
  <2>9. Abstract!Take(c, {m})
    <3>1. Rows' = Rows
      BY <2>2 DEF Rows
    <3>2. Hands' = [x \in Msgs |-> IF x \in {m} THEN Hands[x] \cup {c} ELSE Hands[x]]
      BY <2>8 DEF Hands
    <3> QED
      BY <2>2, <2>6, <3>1, <3>2 DEF Abstract!Take, Hands
  <2>10. Abstract!Holds
    BY <2>7, HoldsAgain
  <2>11. {m} \in SUBSET Rows
    BY <2>3
  <2> QED
    BY <2>9, <2>10, <2>11 DEF Abstract!Next
<1>4. ASSUME NEW c \in Consumers, Ask(c) \/ Close(c)
      PROVE  UNCHANGED Abstract!vars
  BY <1>b, <1>4 DEF Ask, Close, SetClosed, sqlVars
<1>5. ASSUME NEW c \in Consumers, NEW m \in Msgs, Ack(c, m)
      PROVE  Abstract!Next
  <2>1. /\ Release(c, m) /\ Remember /\ acked' = acked \cup {m}
        /\ UNCHANGED <<published, batch, dialect>>
    BY <1>5 DEF Ack
  <2>2. /\ m \in Rows /\ c \in HandedTo(m)
        /\ \A x \in Msgs : x # m => HandedTo(x)' = HandedTo(x)
        /\ HandedTo(m)' = HandedTo(m) \/ HandedTo(m)' = HandedTo(m) \ {c}
    BY <2>1, HandsRelease
  <2>3. Abstract!Holds
    BY <2>1, LapsesNoMore, HoldsAgain
  <2>4. Abstract!Finish(c, m)
    <3>1. Rows' = Rows
      BY <2>1 DEF Rows
    <3>2. CASE HandedTo(m)' = HandedTo(m)
      <4>1. Hands' = Hands
        BY <2>2, <3>2 DEF Hands
      <4> QED
        BY <2>1, <2>2, <3>1, <4>1 DEF Abstract!Finish, Hands
    <3>3. CASE HandedTo(m)' = HandedTo(m) \ {c}
      <4>1. Hands' = [Hands EXCEPT ![m] = @ \ {c}]
        BY <2>2, <3>3 DEF Hands
      <4>2. c \in Hands[m] /\ Hands' \in {Hands, [Hands EXCEPT ![m] = @ \ {c}]}
        BY <2>2, <4>1 DEF Hands
      <4> QED
        BY <2>1, <3>1, <4>2, Zenon DEF Abstract!Finish, Hands
    <3> QED
      BY <2>2, <3>2, <3>3
  <2> QED
    BY <2>2, <2>3, <2>4 DEF Abstract!Next
<1>6. ASSUME NEW c \in Consumers, NEW m \in Msgs, Nack(c, m) \/ Abandon(c, m)
      PROVE  Abstract!Next
  <2>1. /\ Release(c, m) /\ Remember /\ UNCHANGED <<published, acked, batch, dialect>>
    BY <1>6 DEF Nack, Abandon
  <2>2. /\ m \in Rows /\ c \in HandedTo(m)
        /\ \A x \in Msgs : x # m => HandedTo(x)' = HandedTo(x)
        /\ HandedTo(m)' = HandedTo(m) \/ HandedTo(m)' = HandedTo(m) \ {c}
    BY <2>1, HandsRelease
  <2>3. Abstract!Holds
    BY <2>1, LapsesNoMore, HoldsAgain
  <2>4. PICK S \in SUBSET Rows : S = IF HandedTo(m)' = HandedTo(m) THEN {} ELSE {m}
    BY <2>2
  <2>5. \A x \in Msgs : HandedTo(x)' = IF x \in S THEN HandedTo(x) \ {c} ELSE HandedTo(x)
    BY <2>2, <2>4
  <2> QED
    BY <2>1, <2>3, <2>5, HandsChange
<1>7. ASSUME NEW m \in Msgs, DeadlineElapses(m)
      PROVE  Abstract!Next
  <2>1. UNCHANGED <<published, acked, batch, held, dialect, raced>> /\ elapsed \subseteq elapsed'
    BY <1>7 DEF DeadlineElapses, commonVars
  <2>2. Lapsed \subseteq Lapsed'
    BY <2>1 DEF Lapsed, Selected
  <2> QED
    BY <2>1, <2>2, HoldLapses
<1>8. ASSUME NEW c \in Consumers, Crash(c)
      PROVE  Abstract!Next
  <2>1. /\ batch' = [batch EXCEPT ![c] = <<>>] /\ held' = [held EXCEPT ![c] = NothingHeld]
        /\ Remember /\ UNCHANGED <<published, acked, dialect>>
    BY <1>8 DEF Crash, Respawn
  <2>2. \A d \in Consumers : ToSet(batch'[d]) \subseteq ToSet(batch[d])
    <3>1. ToSet(<<>>) = {}
      BY EmptySeq, LenProperties DEF ToSet
    <3> QED
      BY <1>0, <2>1, <3>1 DEF LoopTypes
  <2>3. Abstract!Holds
    BY <2>1, <2>2, LapsesNoMore, HoldsAgain
  <2>4. \A x \in Msgs : HandedTo(x)' = HandedTo(x) \ {c}
    BY <1>0, <2>1 DEF HandedTo, HeldTypes, NothingHeld
  <2>5. \A x \in Msgs : HandedTo(x)' = IF x \in Rows THEN HandedTo(x) \ {c} ELSE HandedTo(x)
    <3>1. \A x \in Msgs : x \notin Rows => HandedTo(x) = {}
      BY <1>a, Zenon
    <3> QED
      BY <2>4, <3>1
  <2> QED
    BY <2>1, <2>3, <2>5, HandsChange
<1>9. CASE UNCHANGED vars
  BY <1>b, <1>9 DEF vars, commonVars, sqlVars
<1>10. ASSUME NEW c \in Consumers, ClaimAndRaise(c)
       PROVE  Abstract!Next
  <2>1. /\ batch' = [batch EXCEPT ![c] = <<>>]
        /\ UNCHANGED <<published, acked, held, dialect, raced, elapsed>>
    BY <1>10, RaiseTypes
  <2>2. \A d \in Consumers : ToSet(batch'[d]) \subseteq ToSet(batch[d])
    <3>1. ToSet(<<>>) = {}
      BY EmptySeq, LenProperties DEF ToSet
    <3> QED
      BY <1>0, <2>1, <3>1 DEF LoopTypes
  <2>3. Lapsed' \subseteq Lapsed
    BY <2>1, <2>2 DEF Lapsed, Selected
  <2>4. Abstract!Holds
    BY <2>3, HoldsAgain
  <2>5. Rows' = Rows /\ Hands' = Hands
    BY <2>1 DEF Rows, Hands, HandedTo
  <2> QED
    BY <2>1, <2>4, <2>5 DEF Abstract!Next, Hands
<1> QED
  BY <1>1, <1>2, <1>3, <1>4, <1>5, <1>6, <1>7, <1>8, <1>9, <1>10 DEF Next, Iterates, Settles

\* The table implements the work queue, for any subscribers, rows, batches and bounds, in both
\* dialects: a claimed row is in one hand, and not given again once it is acked, unless somebody
\* had selected it before, or its deadline elapsed in PostgreSQL.
THEOREM TableIsWorkQueue == Spec => IsWorkQueue
<1> DEFINE Inv == TableInv /\ HandKeepsRow /\ PollsEmpty
<1>1. Init => Inv /\ Abstract!Init
  <2> SUFFICES ASSUME Init PROVE Inv /\ Abstract!Init
    OBVIOUS
  <2>1. TableInv /\ HandKeepsRow
    BY RowsStart
  <2>2. PollsEmpty
    BY DEF Init, CommonInit, PollsEmpty
  <2>3. Rows = {} /\ acked = {}
    BY DEF Init, CommonInit, Rows
  <2>4. Lapsed = {}
    BY <2>1, <2>3, HandsAreTyped
  <2>5. Hands = [m \in Msgs |-> {}]
    BY DEF Init, CommonInit, NothingHeld, Hands, HandedTo
  <2> QED
    BY <2>1, <2>2, <2>3, <2>4, <2>5 DEF Abstract!Init, Hands
<1>2. Inv /\ [Next]_vars => Inv' /\ [Abstract!Next]_Abstract!vars
  <2> SUFFICES ASSUME Inv, [Next]_vars PROVE Inv' /\ [Abstract!Next]_Abstract!vars
    OBVIOUS
  <2>1. TableInv'
    BY TableInvNext
  <2>2. HandKeepsRow' /\ PollsEmpty'
    BY <2>1, HandKeepsRowNext, PollsEmptyNext
  <2> QED
    BY <2>1, <2>2, QueueStep
<1> QED
  BY <1>1, <1>2, PTL DEF Spec, IsWorkQueue, Abstract!Spec
=============================================================================
