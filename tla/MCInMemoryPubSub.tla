-------------------------- MODULE MCInMemoryPubSub --------------------------
(* Instances of InMemoryPubSub for TLC: every call uses one topic, or the  *)
(* last subscription has a second topic of its own.                        *)
EXTENDS InMemoryPubSub

CONSTANTS T1
OneTopic == [x \in Subs \cup Calls |-> T1]

\* Subscriptions and calls are interchangeable: they differ in nothing but their name.
Symmetry == Permutations(Subs) \cup Permutations(Calls)
=============================================================================
