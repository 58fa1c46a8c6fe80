------------------------------- MODULE Queries --------------------------------
(***************************************************************************)
(* What the printer answers when it is asked: Get-Jobs, Get-Job-Attributes *)
(* and the printer-state of Get-Printer-Attributes, as operators on the    *)
(* state they read.  The selection by requested-attributes is left out.    *)
(***************************************************************************)
EXTENDS Printer, Lists, SequencesExt

(***************************************************************************)
(* Get-Jobs.                                                               *)
(***************************************************************************)
NotCompleted == {"PENDING", "PENDING_HELD", "PROCESSING", "PROCESSING_STOPPED"}

\* An unknown keyword, and none, mean not-completed.
MatchesWhichJobs(j, whichJobs) ==
  CASE whichJobs = "completed" -> j.state \in Terminal
    [] whichJobs = "all"       -> TRUE
    [] OTHER                   -> j.state \in NotCompleted

\* The ids of a set of jobs in their order.
InOrder(ids) == Ascending(ids, nextId - 1)

Matching(ids, whichJobs) == {i \in ids : MatchesWhichJobs(job[i], whichJobs)}

\* A limit that is absent or not positive is none.
Limited(listed, limit) ==
  IF limit > 0 /\ limit < Len(listed) THEN SubSeq(listed, 1, limit) ELSE listed

\* Fault: the limit is applied before the filter.
FaultyGetJobs(whichJobs, limit) ==
  InOrder(Matching(ToSet(Limited(InOrder(queue), limit)), whichJobs))

GetJobs(whichJobs, limit) == Limited(InOrder(Matching(queue, whichJobs)), limit)

(***************************************************************************)
(* Get-Job-Attributes.                                                     *)
(***************************************************************************)

\* Fault: the value that is recorded counts, not the state.
FaultyHeldByHoldUntil(j) == ~ j.open /\ HoldUntilHolds(j.holdUntil)

HeldByHoldUntil(j) ==
  ~ j.open /\ j.state = "PENDING_HELD" /\ HoldUntilHolds(j.holdUntil)

JobStateReason(j) ==
  CASE j.state = "COMPLETED" -> "job-completed-successfully"
    [] HeldByHoldUntil(j)    -> "job-hold-until-specified"
    [] OTHER                 -> "none"

\* Of the attributes that follow the state; impressions-completed and
\* time-at-completed are other than 0 exactly if "completed".
GetJobAttributes(i) ==
  [state     |-> job[i].state,
   reason    |-> JobStateReason(job[i]),
   completed |-> job[i].state = "COMPLETED",
   holdUntil |-> job[i].holdUntil]

(***************************************************************************)
(* Get-Printer-Attributes: liveState and liveReasons.                      *)
(***************************************************************************)
Having(state) == {i \in queue : job[i].state = state}

LiveState ==
  CASE paused                             -> "stopped"
    [] Having("PROCESSING") # {}         -> "processing"
    [] Having("PROCESSING_STOPPED") # {} -> "stopped"
    [] OTHER                             -> "idle"

LiveReasons == IF paused THEN {"paused"} ELSE {"none"}

(***************************************************************************)
(* Properties.                                                             *)
(***************************************************************************)

\* What is reported can be acted on.  A job reported as held for its
\* job-hold-until is one that Release-Job can run: not ended, not being sent,
\* and listed as not completed, although a refused Hold-Job leaves its value on
\* an ended job.  A printer that reports idle has nothing to do: every job it
\* lists as not completed waits for its client.
ReportsAreTrue ==
  LET waiting == ToSet(GetJobs("not-completed", 0)) IN
  /\ \A i \in queue : GetJobAttributes(i).reason = "job-hold-until-specified" =>
       /\ i \in waiting
       /\ ReleaseOk(job[i]) /\ Release(job[i], FALSE).runs = job[i].runs + 1
  /\ LiveState = "stopped" <=> LiveReasons = {"paused"}
  /\ LiveState = "idle" =>
       \A i \in waiting : GetJobAttributes(i).state = "PENDING_HELD"

\* The two listings part the queue, each in the order of submission, and a
\* limit takes the first of those that match: no job of the queue is hidden
\* from a client that asks for both, and a job listed as completed that
\* reports its impressions has run.
ListingsPartTheQueue ==
  LET all == GetJobs("all", 0) IN
  /\ ToSet(all) = queue
  /\ \A a, b \in DOMAIN all : a < b => all[a] < all[b]
  /\ \A i \in queue :
       i \in ToSet(GetJobs("completed", 0)) <=> i \notin ToSet(GetJobs("", 0))
  /\ \A which \in {"completed", "not-completed", "all"}, limit \in 1..MaxJobs :
       LET listed == GetJobs(which, 0)
           few    == GetJobs(which, limit)
       IN  /\ IsPrefix(few, listed)
           /\ Len(few) = IF Len(listed) < limit THEN Len(listed) ELSE limit
  /\ \A i \in queue : GetJobAttributes(i).completed => job[i].runs > 0
=============================================================================
