------------------------------- MODULE Leases -------------------------------
(***************************************************************************)
(* What the subscription service promises a client (RFC 3995 and RFC 3996  *)
(* as the header of src/printer/subscription-manager.ts claims them),      *)
(* written with the timers the code does without: a subscription is gone   *)
(* at the instant its lease ends, and what a client has read of it is      *)
(* never more than was recorded.  Module Subscriptions implements this by  *)
(* pruning expired subscriptions whenever somebody looks.                  *)
(***************************************************************************)
EXTENDS Naturals

CONSTANTS
  Ids,     \* the subscription-ids
  Ends,    \* the instants a lease may end at
  Never    \* the end of a lease that does not end

VARIABLES
  now,       \* the clock
  granted,   \* the ids that have been given out
  live       \* per live id: the end of its lease, the number of events
             \* recorded for it, the number of the last one read

OverAt(t, end) == end # Never /\ t >= end

Init ==
  /\ now = 0
  /\ granted = {}
  /\ live = [i \in {} |-> [end |-> Never, last |-> 0, read |-> 0]]

\* A new id, greater than every id given out before, with a lease not over yet.
Grant(i, end) ==
  /\ UNCHANGED now
  /\ granted' = granted \cup {i}
  /\ ~ OverAt(now, end)
  /\ \A k \in granted : k < i
  /\ live' = [k \in (DOMAIN live) \cup {i} |->
                IF k = i THEN [end |-> end, last |-> 0, read |-> 0] ELSE live[k]]

Extend(i, end) ==
  /\ UNCHANGED <<now, granted>>
  /\ ~ OverAt(now, end)
  /\ i \in DOMAIN live
  /\ live' = [live EXCEPT ![i].end = end]

Revoke(i) ==
  /\ UNCHANGED <<now, granted>>
  /\ i \in DOMAIN live
  /\ live' = [k \in (DOMAIN live) \ {i} |-> live[k]]

\* An event, for those of the live subscriptions it concerns.
Notify(ids) ==
  /\ UNCHANGED <<now, granted>>
  /\ live' = [k \in DOMAIN live |->
                IF k \in ids THEN [live[k] EXCEPT !.last = @ + 1] ELSE live[k]]

\* The client has everything that was recorded for these.
Read(ids) ==
  /\ UNCHANGED <<now, granted>>
  /\ live' = [k \in DOMAIN live |->
                IF k \in ids THEN [live[k] EXCEPT !.read = live[k].last] ELSE live[k]]

\* Time passes, and takes the leases that end with it.
Tick ==
  /\ now' = now + 1
  /\ live' = [k \in {i \in DOMAIN live : ~ OverAt(now + 1, live[i].end)} |-> live[k]]
  /\ UNCHANGED granted

Next ==
  \/ \E ids \in SUBSET Ids : Notify(ids) \/ Read(ids)
  \/ \E i \in Ids :
       \/ Revoke(i)
       \/ \E end \in Ends \cup {Never} : Grant(i, end) \/ Extend(i, end)
  \/ Tick

Spec == Init /\ [][Next]_<<now, granted, live>>
=============================================================================
