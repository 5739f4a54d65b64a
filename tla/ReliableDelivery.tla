-------------------------- MODULE ReliableDelivery --------------------------
(***************************************************************************)
(* What the client's reliable channel promises, without datagrams, caches  *)
(* or timers.  A message is submitted, is outstanding until the peer's     *)
(* acknowledgement releases it or its retry budget abandons it, and is     *)
(* released only when the peer has really received it.  An abandoned       *)
(* message is never taken up again, but a late acknowledgement still       *)
(* releases it.  ReliableSender implements this specification.             *)
(***************************************************************************)
EXTENDS Integers

CONSTANT Messages

VARIABLES
  status,     \* where each message is in its life
  delivered   \* the messages the peer has received at least once

vars == <<status, delivered>>

Statuses == {"unsent", "outstanding", "abandoned", "released"}

Init ==
  /\ status = [m \in Messages |-> "unsent"]
  /\ delivered = {}

\* Every message of S moves from one of the statuses `from` to `to`.
Move(S, from, to) ==
  /\ \A m \in S : status[m] \in from
  /\ status' = [m \in Messages |-> IF m \in S THEN to ELSE status[m]]
  /\ UNCHANGED delivered

Submit(S) == Move(S, {"unsent"}, "outstanding")

Abandon(S) == Move(S, {"outstanding"}, "abandoned")

Release(S) ==
  /\ S \subseteq delivered
  /\ Move(S, {"outstanding", "abandoned"}, "released")

Deliver(m) ==
  /\ status[m] # "unsent"
  /\ delivered' = delivered \cup {m}
  /\ UNCHANGED status

Next ==
  \/ \E S \in SUBSET Messages : Submit(S) \/ Abandon(S) \/ Release(S)
  \/ \E m \in Messages : Deliver(m)

Spec == Init /\ [][Next]_vars

=============================================================================
