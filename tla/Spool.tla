------------------------------- MODULE Spool --------------------------------
(***************************************************************************)
(* What the printer promises a client that watches job-state and           *)
(* printer-state (RFC 8011 as src/README.md claims it): the abstract       *)
(* specification that module Printer implements.                           *)
(*                                                                         *)
(* A job is born once, with the least unused id; it waits PENDING only     *)
(* while the printer is stopped; it runs to completion within the          *)
(* operation that releases it; a terminal job is left only by a restart;   *)
(* a purged job never comes back.  Nothing here knows of documents,        *)
(* fetches or the order of requests.                                       *)
(***************************************************************************)
EXTENDS Naturals

CONSTANT Ids    \* an initial segment of 1, 2, ...: the job ids

VARIABLES
  status,   \* per id, the job-state, or "unborn", or "purged"
  stopped   \* printer-state is stopped

Finished == {"COMPLETED", "CANCELED", "ABORTED"}
Waiting  == {"PENDING", "PENDING_HELD"}
Statuses == {"unborn", "purged"} \cup Finished \cup Waiting

Init ==
  /\ status = [i \in Ids |-> "unborn"]
  /\ stopped = FALSE

\* Where a job goes that nothing holds any more.
Ready == IF stopped THEN "PENDING" ELSE "COMPLETED"

Move(i, from, to) ==
  /\ UNCHANGED stopped
  /\ status[i] \in from
  /\ status' = [status EXCEPT ![i] = to]

Submit(i) ==
  /\ \A k \in Ids : k < i => status[k] # "unborn"
  /\ \E to \in {"PENDING_HELD", Ready} : Move(i, {"unborn"}, to)

Hold(i)    == Move(i, {"PENDING"}, "PENDING_HELD")
Release(i) == Move(i, {"PENDING_HELD"}, Ready)
Abort(i)   == Move(i, {"PENDING_HELD"}, "ABORTED")
Restart(i) == Move(i, Finished, Ready)

Cancel(ids) ==
  /\ UNCHANGED stopped
  /\ \A i \in ids : status[i] \in Waiting
  /\ status' = [i \in Ids |-> IF i \in ids THEN "CANCELED" ELSE status[i]]

Purge ==
  /\ status' = [i \in Ids |-> IF status[i] = "unborn" THEN "unborn" ELSE "purged"]
  /\ UNCHANGED stopped

Stop ==
  /\ stopped' = TRUE
  /\ UNCHANGED status

Go ==
  /\ stopped' = FALSE
  /\ status' = [i \in Ids |-> IF status[i] = "PENDING" THEN "COMPLETED" ELSE status[i]]

Next ==
  \/ \E ids \in SUBSET Ids : Cancel(ids)
  \/ \E i \in Ids : Submit(i) \/ Hold(i) \/ Release(i) \/ Abort(i) \/ Restart(i)
  \/ Purge \/ Stop \/ Go

Spec == Init /\ [][Next]_<<status, stopped>>
=============================================================================
