-------------------------------- MODULE Feed --------------------------------
(***************************************************************************)
(* What a push recipient may rely on, whatever the network does: every     *)
(* event of a subscription has a place in one log, a delivery says which   *)
(* subscription and which place it is about and carries the event that is  *)
(* there, and it comes at most once.  It may come late, out of order or    *)
(* never.  Module Push implements this without keeping a log.              *)
(***************************************************************************)
EXTENDS Naturals, Sequences

CONSTANTS
  Ids,      \* the subscription-ids
  Contents  \* what an event says

VARIABLES
  log,        \* per subscription, its events in the order recorded
  flight,     \* the deliveries under way: a subscription and a place
  delivered   \* what has reached the recipients

Init ==
  /\ log = [i \in Ids |-> <<>>]
  /\ flight = {}
  /\ delivered = {}

\* An event is logged for the subscriptions it concerns and sent to each.
Publish(ids, event) ==
  /\ log' = [i \in Ids |-> IF i \in ids THEN Append(log[i], event) ELSE log[i]]
  /\ flight' = flight \cup {<<i, Len(log[i]) + 1>> : i \in ids}
  /\ UNCHANGED delivered

Deliver(i, n) ==
  /\ <<i, n>> \in flight
  /\ flight' = flight \ {<<i, n>>}
  /\ delivered' = delivered \cup {[id |-> i, place |-> n, event |-> log[i][n]]}
  /\ UNCHANGED log

Lose(i, n) ==
  /\ <<i, n>> \in flight
  /\ flight' = flight \ {<<i, n>>}
  /\ UNCHANGED <<log, delivered>>

Next ==
  \/ \E ids \in SUBSET Ids, event \in Contents : Publish(ids, event)
  \/ \E m \in flight : Deliver(m[1], m[2]) \/ Lose(m[1], m[2])

Spec == Init /\ [][Next]_<<log, flight, delivered>>
=============================================================================
