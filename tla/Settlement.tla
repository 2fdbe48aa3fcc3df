----------------------------- MODULE Settlement -----------------------------
(***************************************************************************)
(* What a consumer of natricine promises about one delivery of a message:  *)
(* it is taken once, acknowledged only after its handler has succeeded,    *)
(* returned (nacked) only if the handler has not, and settled at most      *)
(* once.  A delivery that is given up in between stays unsettled: it is    *)
(* the broker's to deliver again.                                          *)
(***************************************************************************)
CONSTANT Deliveries

VARIABLE state

States == {"pending", "taken", "handled", "acked", "returned"}

Init == state = [d \in Deliveries |-> "pending"]

Move(d, from, to) == state[d] = from /\ state' = [state EXCEPT ![d] = to]

Take(d)   == Move(d, "pending", "taken")
Handle(d) == Move(d, "taken", "handled")
Ack(d)    == Move(d, "handled", "acked")
Return(d) == Move(d, "taken", "returned")

\* A message that arrives while the consumer is closing is returned at once.
Refuse(d) == Move(d, "pending", "returned")

Next == \E d \in Deliveries : Take(d) \/ Handle(d) \/ Ack(d) \/ Return(d) \/ Refuse(d)

Spec == Init /\ [][Next]_state
=============================================================================
