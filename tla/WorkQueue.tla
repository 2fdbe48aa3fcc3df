----------------------------- MODULE WorkQueue -----------------------------
(***************************************************************************)
(* What a backend with competing consumers promises the application: a     *)
(* message that was sent is taken by one consumer at a time, and is not    *)
(* given away again once it is done, except for a message whose hold has   *)
(* lapsed: the backend no longer takes those who have it for its owners,   *)
(* because they took too long, or because it lost track of what is done.   *)
(***************************************************************************)
CONSTANTS Messages, Consumers

VARIABLES
    sent,          \* messages sent
    done,          \* messages settled for good
    hands,         \* message -> consumers that have it, fetched or in their application
    lapsed         \* messages that may be given away although somebody has them, or they are done

vars == <<sent, done, hands, lapsed>>

Init ==
    /\ sent = {} /\ done = {} /\ lapsed = {}
    /\ hands = [m \in Messages |-> {}]

Send(m) ==
    /\ m \notin sent
    /\ sent' = sent \cup {m}
    /\ UNCHANGED <<done, hands>>

Take(c, S) ==
    /\ \A m \in S : m \in lapsed \/ (hands[m] = {} /\ m \notin done)
    /\ hands' = [m \in Messages |-> IF m \in S THEN hands[m] \cup {c} ELSE hands[m]]
    /\ UNCHANGED <<sent, done>>

\* Nacked, cancelled, or gone with its consumer.
Release(c, S) ==
    /\ hands' = [m \in Messages |-> IF m \in S THEN hands[m] \ {c} ELSE hands[m]]
    /\ UNCHANGED <<sent, done>>

\* Only one who has it settles a message; he may have another copy.
Finish(c, m) ==
    /\ c \in hands[m]
    /\ done' = done \cup {m}
    /\ hands' \in {hands, [hands EXCEPT ![m] = @ \ {c}]}
    /\ UNCHANGED sent

\* A settled message may be rewound; the hold of one that two have stays lapsed.
Holds ==
    /\ lapsed' \subseteq lapsed \cup done'
    /\ \A m \in lapsed \ lapsed' : \A c, d \in hands'[m] : c = d

Lapse ==
    /\ lapsed \subseteq lapsed' /\ lapsed' \subseteq Messages
    /\ hands' \in [Messages -> SUBSET Consumers]
    /\ \A m \in Messages : hands'[m] \subseteq hands[m]
    /\ UNCHANGED <<sent, done>>

Next ==
    \/ /\ \/ \E m \in Messages : Send(m)
          \/ \E c \in Consumers, S \in SUBSET sent : Take(c, S) \/ Release(c, S)
          \/ \E c \in Consumers, m \in sent : Finish(c, m)
          \/ UNCHANGED <<sent, done, hands>>
       /\ Holds
    \/ Lapse

Spec == Init /\ [][Next]_vars

-----------------------------------------------------------------------------
\* The type of the state.
TypeOK ==
    /\ sent \subseteq Messages /\ done \subseteq Messages /\ lapsed \subseteq Messages
    /\ hands \in [Messages -> SUBSET Consumers]

\* A message whose hold has not lapsed is in one hand at most, and only sent ones are.
Exclusive ==
    /\ done \subseteq sent
    /\ \A m \in Messages :
         /\ hands[m] # {} => m \in sent
         /\ m \notin lapsed => \A c, d \in hands[m] : c = d
=============================================================================
