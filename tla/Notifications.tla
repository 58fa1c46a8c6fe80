--------------------------- MODULE Notifications ----------------------------
(***************************************************************************)
(* The event source (handleRequest, handleRequestAsync and                 *)
(* recordLifecycleEvents of src/printer/ipp-printer.ts): around every      *)
(* operation the printer takes a snapshot of its states, and records what  *)
(* differs afterwards as events for the subscriptions.                     *)
(*                                                                         *)
(* Snapshot, handler and comparison of an operation that does not await    *)
(* are one step.  Print-URI and Send-URI keep their snapshot across the    *)
(* await, while other operations change the states and record events of    *)
(* their own; a request that is refused then compares as well.             *)
(*                                                                         *)
(* Of the events already recorded the model keeps what a subscriber to all *)
(* of them knows: per job how many job-created there were and the state of *)
(* the last job-state-changed, and the last printer-state-changed.         *)
(* job-completed accompanies each job-state-changed to a terminal state;   *)
(* job-stopped has no cause (Printer.JobsAreSound).                      *)
(***************************************************************************)
EXTENDS Printer

VARIABLES
  before,       \* per slot, the snapshot its request was dispatched with
  told,         \* per job-id, what its events said so far
  toldStopped   \* the last printer-state-changed said stopped

nvars == <<vars, before, told, toldStopped>>

Untold == [created |-> 0, state |-> "none"]

\* What snapshotStates returns; liveState is stopped exactly while paused.
SnapshotStates == [jobs |-> [i \in queue |-> job[i].state], stopped |-> paused]

NoSnapshot == [jobs |-> [i \in {} |-> "none"], stopped |-> FALSE]

KnownJobs(b) == DOMAIN b.jobs

\* MaxTold bounds the job-created events the model counts for one job.
MaxTold == 2

Min2(a, b) == IF a <= b THEN a ELSE b

\* The comparison finds job i of the queue in state now: the job is new, or
\* its state is.
IsNew(b, i) == i \notin KnownJobs(b)

\* Fault: only the end of a job counts as a change.
FaultyIsChanged(b, i, now) == IsNew(b, i) \/ (now \in Terminal /\ b.jobs[i] # now)

IsChanged(b, i, now) == IsNew(b, i) \/ b.jobs[i] # now

\* Compares the state after the operation with the snapshot b.
RecordLifecycleEvents(b) ==
  LET changed == {i \in queue' : IsChanged(b, i, job'[i].state)}
      old(i) == IF i \in DOMAIN told THEN told[i] ELSE Untold
  IN  /\ told' = [i \in JobIds' |->
                    [created |-> IF i \in queue' /\ IsNew(b, i)
                                 THEN Min2(old(i).created + 1, MaxTold)
                                 ELSE old(i).created,
                     state   |-> IF i \in changed THEN job'[i].state ELSE old(i).state]]
      /\ toldStopped' = IF paused' # b.stopped THEN paused' ELSE toldStopped

NInit ==
  /\ Init
  /\ before = [s \in Slots |-> NoSnapshot]
  /\ told = [i \in {} |-> Untold]
  /\ toldStopped = FALSE

HandleRequest ==
  /\ JobOperation \/ PrinterOperation
  /\ RecordLifecycleEvents(SnapshotStates)
  /\ UNCHANGED before

BeginRequestAsync(s) ==
  /\ BeginUri(s)
  /\ before' = [before EXCEPT ![s] = SnapshotStates]
  /\ UNCHANGED <<told, toldStopped>>

EndRequestAsync(s) ==
  /\ EndUri(s)
  /\ RecordLifecycleEvents(before[s])
  /\ before' = [before EXCEPT ![s] = NoSnapshot]

NNext ==
  \/ HandleRequest
  \/ \E s \in Slots : BeginRequestAsync(s) \/ EndRequestAsync(s)

NSpec == NInit /\ [][NNext]_nvars

(***************************************************************************)
(* Properties.                                                             *)
(***************************************************************************)

\* Whatever slow request compares with whatever outdated snapshot, between
\* two operations a subscriber knows every job of the queue, its present
\* state, and that of the printer.
AnnouncedIsCurrent ==
  /\ \A i \in queue : told[i].created > 0 /\ told[i].state = job[i].state
  /\ toldStopped = paused

(***************************************************************************)
(* What the sources say and the program does not keep.                     *)
(***************************************************************************)

\* recordLifecycleEvents: a job not in the snapshot is newly created by this
\* operation; so job-created is recorded once for a job.
JobCreatedOnce == \A i \in DOMAIN told : told[i].created <= 1
=============================================================================
