------------------------------ MODULE Printer -------------------------------
(***************************************************************************)
(* The printer: its job queue (src/printer/job-queue.ts), its              *)
(* administrative flags (src/printer/ipp-printer.ts) and every IPP         *)
(* operation that changes either (src/ipp/operations/).                    *)
(*                                                                         *)
(* Node runs one callback at a time, so a handler that never awaits is one *)
(* action.  Print-URI and Send-URI await the fetch of their document: each *)
(* is a Begin action up to the await, and a Finish or Refuse action from   *)
(* the resumption to the response.  Any other operation may run between    *)
(* the two.  A request that is rejected before it changes anything is a    *)
(* stuttering step, so the guards below are the conditions of success.     *)
(***************************************************************************)
EXTENDS Job

CONSTANTS
  MaxJobs,   \* bound on the job ids handed out
  MaxDocs,   \* bound on the documents of one job
  MaxRuns,   \* bound on the runs of one job
  Slots      \* the requests that can be awaiting a fetch at the same time

ASSUME BoundsAssumption ==
  /\ MaxJobs \in Nat
  /\ MaxDocs \in Nat \ {0}
  /\ MaxRuns \in Nat \ {0}

VARIABLES
  job,             \* the job objects, by job-id; they outlive a purge
  queue,           \* the ids in the queue (submission order is id order)
  nextId,          \* the next job-id
  paused,          \* Pause-Printer
  accepting,       \* printer-is-accepting-jobs
  holdingNewJobs,  \* Hold-New-Jobs
  heldNewJobIds,   \* the jobs Hold-New-Jobs has held
  request          \* per slot, the request that awaits its document

jobVars == <<job, queue, nextId>>
flagVars == <<paused, accepting, holdingNewJobs, heldNewJobIds>>
vars == <<job, queue, nextId, paused, accepting, holdingNewJobs,
          heldNewJobIds, request>>

JobIds == 1..(nextId - 1)

(***************************************************************************)
(* A slot is free ("none"), free with its last request answered            *)
(* successful-ok ("ok"), or awaits a fetch.  Send-URI keeps the reference  *)
(* to the job it looked up before the await.                               *)
(***************************************************************************)
NoRequest == [op |-> "none", job |-> 0, holdUntil |-> "none", last |-> FALSE]
Answered  == [NoRequest EXCEPT !.op = "ok"]

Request == [op: {"none", "ok", "Print-URI", "Send-URI"}, job: Nat,
            holdUntil: HoldValues, last: BOOLEAN]

Fetching(s) == request[s].op \in {"Print-URI", "Send-URI"}

TypeOK ==
  /\ nextId \in 1..(MaxJobs + 1)
  /\ job \in [JobIds -> JobRecord]
  /\ queue \subseteq JobIds
  /\ paused \in BOOLEAN
  /\ accepting \in BOOLEAN
  /\ holdingNewJobs \in BOOLEAN
  /\ heldNewJobIds \subseteq JobIds
  /\ request \in [Slots -> Request]
  /\ \A s \in Slots : request[s].op = "Send-URI" => request[s].job \in JobIds

Init ==
  /\ job = [i \in {} |-> NewJob(FALSE, "none")]
  /\ queue = {}
  /\ nextId = 1
  /\ paused = FALSE
  /\ accepting = TRUE
  /\ holdingNewJobs = FALSE
  /\ heldNewJobIds = {}
  /\ request = [s \in Slots |-> NoRequest]

(***************************************************************************)
(* JobQueue.enqueue and the two ways the handlers change a job.            *)
(***************************************************************************)

\* Fault: the next id is not counted up.
FaultyEnqueue(j) ==
  /\ nextId <= MaxJobs
  /\ job' = [i \in 1..nextId |-> IF i = nextId THEN j ELSE job[i]]
  /\ queue' = queue \cup {nextId}
  /\ nextId' = nextId

Enqueue(j) ==
  /\ nextId <= MaxJobs
  /\ job' = [i \in 1..nextId |-> IF i = nextId THEN j ELSE job[i]]
  /\ queue' = queue \cup {nextId}
  /\ nextId' = nextId + 1

RenderUnlessPaused(j) == IF paused THEN j ELSE Render(j)

\* A handler found job i in the queue and leaves it as j.
Update(i, j) ==
  /\ i \in queue
  /\ job' = [job EXCEPT ![i] = j]
  /\ UNCHANGED <<queue, nextId, flagVars, request>>

(***************************************************************************)
(* Operations that create a job or complete its documents.                 *)
(***************************************************************************)

\* Fault: a submission does not look at paused.
FaultySubmitted(hold) ==
  LET j == NewJob(FALSE, hold)
  IN  IF HoldUntilHolds(hold) THEN j ELSE Render(Process(j))

\* The job of a Print-Job or Print-URI, run at once unless it is held or the
\* printer is paused.
Submitted(hold) ==
  LET j == NewJob(FALSE, hold)
  IN  IF HoldUntilHolds(hold) \/ paused THEN j ELSE Render(Process(j))

PrintJob(hold) ==
  /\ accepting
  /\ Enqueue(Submitted(hold))
  /\ UNCHANGED <<flagVars, request>>

\* An open job is held for its documents; job-hold-until is only recorded.
CreateJob(hold) ==
  /\ accepting
  /\ Enqueue(NewJob(TRUE, hold))
  /\ UNCHANGED <<flagVars, request>>

\* Fault: the last document releases the job by hand, not through close().
FaultyReceived(j, last) ==
  LET added == AddDocument(j)
  IN  IF last THEN Render(Process([added EXCEPT !.state = "PENDING", !.open = FALSE]))
      ELSE added

\* job.addDocument, then with last-document the close, the run and the pages.
Received(j, last) ==
  LET added == AddDocument(j)
  IN  IF last THEN RenderUnlessPaused(Close(added, paused)) ELSE added

SendDocument(i, last) ==
  /\ i \in queue
  /\ job[i].open
  /\ job[i].docs < MaxDocs
  /\ Update(i, Received(job[i], last))

CloseJob(i) ==
  /\ i \in queue
  /\ CloseOk(job[i])
  /\ Update(i, RenderUnlessPaused(Close(job[i], paused)))

(***************************************************************************)
(* Print-URI and Send-URI.                                                 *)
(***************************************************************************)
Await(s, r) ==
  /\ ~ Fetching(s)
  /\ request' = [request EXCEPT ![s] = r]
  /\ UNCHANGED <<jobVars, flagVars>>

BeginPrintUri(s, hold) ==
  /\ accepting
  /\ Await(s, [op |-> "Print-URI", job |-> 0, holdUntil |-> hold, last |-> FALSE])

BeginSendUri(s, i, last) ==
  /\ i \in queue
  /\ job[i].open
  /\ Await(s, [op |-> "Send-URI", job |-> i, holdUntil |-> "none", last |-> last])

\* The document has arrived: accepting is not read again, paused is.
FinishPrintUri(s) ==
  /\ request[s].op = "Print-URI"
  /\ Enqueue(Submitted(request[s].holdUntil))
  /\ request' = [request EXCEPT ![s] = Answered]
  /\ UNCHANGED flagVars

\* The document has arrived: whether the job is still open, or still in the
\* queue, is not looked at again; addDocument and close return FALSE and leave
\* a job that is no longer open as it is.
FinishSendUri(s) ==
  LET r == request[s] IN
  /\ r.op = "Send-URI"
  /\ job[r.job].open => job[r.job].docs < MaxDocs
  /\ job' = [job EXCEPT ![r.job] = Received(@, r.last)]
  /\ request' = [request EXCEPT ![s] = Answered]
  /\ UNCHANGED <<queue, nextId, flagVars>>

\* The fetch, or (Print-URI) the decompression, fails: an error response.
RefuseUri(s) ==
  /\ Fetching(s)
  /\ request' = [request EXCEPT ![s] = NoRequest]
  /\ UNCHANGED <<jobVars, flagVars>>

(***************************************************************************)
(* Operations on one job, or on several.                                   *)
(***************************************************************************)

\* A failing Hold-Job with a value still leaves the value recorded; pages are
\* written only on the way of a release.
HoldJob(i, hold) ==
  /\ i \in queue
  /\ LET j == job[i]
         releasing == hold = "no-hold" /\ HoldWithOk(j, hold)
         held == IF hold = "none" THEN Hold(j) ELSE HoldWith(j, hold, paused)
     IN  Update(i, IF releasing THEN RenderUnlessPaused(held) ELSE held)

ReleaseJob(i) ==
  /\ i \in queue
  /\ ReleaseOk(job[i])
  /\ Update(i, RenderUnlessPaused(Release(job[i], paused)))

\* MaxRuns bounds how often a job is restarted.
RestartJob(i) ==
  /\ i \in queue
  /\ RestartOk(job[i])
  /\ job[i].runs < MaxRuns
  /\ Update(i, RenderUnlessPaused(Restart(job[i], paused)))

\* Set-Job-Attributes with job-hold-until; its other attributes are recorded
\* and change no state the model has.  "released" is the source's name for the
\* result of holdWith, which is TRUE for a hold as well.
SetJobAttributes(i, hold) ==
  /\ i \in queue
  /\ IsSettable(job[i])
  /\ LET released == HoldWithOk(job[i], hold)
         set == HoldWith(job[i], hold, paused)
     IN  Update(i, IF released THEN RenderUnlessPaused(set) ELSE set)

CancelJob(i) ==
  /\ i \in queue
  /\ CancelOk(job[i])
  /\ Update(i, Cancel(job[i]))

\* The jobs the filters on user and job-ids select: who owns a job is data, so
\* any subset of the queue.
CancelMyJobs(ids) ==
  /\ ids \subseteq queue
  /\ job' = [i \in JobIds |-> IF i \in ids THEN Cancel(job[i]) ELSE job[i]]
  /\ UNCHANGED <<queue, nextId, flagVars, request>>

\* Fault: a purge starts the ids over.
FaultyPurgeJobs ==
  /\ queue' = {}
  /\ nextId' = 1
  /\ job' = [i \in {} |-> NewJob(FALSE, "none")]
  /\ UNCHANGED <<flagVars, request>>

PurgeJobs ==
  /\ queue' = {}
  /\ UNCHANGED <<job, nextId, flagVars, request>>

(***************************************************************************)
(* Operations on the printer.                                              *)
(***************************************************************************)
PausePrinter ==
  /\ paused' = TRUE
  /\ UNCHANGED <<jobVars, accepting, holdingNewJobs, heldNewJobIds, request>>

\* Fault: deferred jobs run without writing their pages.
FaultyRunPendingJobs(js) ==
  [i \in JobIds |-> IF i \in queue /\ js[i].state = "PENDING"
                    THEN Process(js[i]) ELSE js[i]]

\* Every PENDING job of the queue js is run and rendered.
RunPendingJobs(js) ==
  [i \in JobIds |-> IF i \in queue /\ js[i].state = "PENDING"
                    THEN Render(Process(js[i])) ELSE js[i]]

ResumePrinter ==
  /\ paused' = FALSE
  /\ job' = RunPendingJobs(job)
  /\ UNCHANGED <<queue, nextId, accepting, holdingNewJobs, heldNewJobIds, request>>

EnablePrinter ==
  /\ accepting' = TRUE
  /\ UNCHANGED <<jobVars, paused, holdingNewJobs, heldNewJobIds, request>>

DisablePrinter ==
  /\ accepting' = FALSE
  /\ UNCHANGED <<jobVars, paused, holdingNewJobs, heldNewJobIds, request>>

\* markHeldNewJob, which adds to heldNewJobIds, is called by no operation.
HoldNewJobs ==
  /\ holdingNewJobs' = TRUE
  /\ UNCHANGED <<jobVars, paused, accepting, heldNewJobIds, request>>

ReleaseNewJobs(js) ==
  [i \in JobIds |-> IF i \in heldNewJobIds \cap queue /\ ReleaseOk(js[i])
                    THEN RenderUnlessPaused(Release(js[i], paused)) ELSE js[i]]

ReleaseHeldNewJobs ==
  /\ holdingNewJobs' = FALSE
  /\ heldNewJobIds' = {}
  /\ job' = ReleaseNewJobs(job)
  /\ UNCHANGED <<queue, nextId, paused, accepting, request>>

\* Fault: the pause is lifted without running what it deferred.
FaultyRestartPrinter ==
  /\ accepting' = TRUE
  /\ holdingNewJobs' = FALSE
  /\ heldNewJobIds' = {}
  /\ paused' = FALSE
  /\ job' = ReleaseNewJobs(job)
  /\ UNCHANGED <<queue, nextId, request>>

RestartPrinter ==
  /\ accepting' = TRUE
  /\ holdingNewJobs' = FALSE
  /\ heldNewJobIds' = {}
  /\ paused' = FALSE
  /\ job' = RunPendingJobs(ReleaseNewJobs(job))
  /\ UNCHANGED <<queue, nextId, request>>

(***************************************************************************)
(* The specification.  No fairness: every action answers a client, and no  *)
(* timer or thread of the printer ever acts by itself.                     *)
(***************************************************************************)
SetOperation ==
  \E i \in queue, hold \in HoldValues : SetJobAttributes(i, hold)

OtherJobOperation ==
  \/ \E hold \in HoldValues : PrintJob(hold) \/ CreateJob(hold)
  \/ \E i \in queue :
       \/ \E last \in BOOLEAN : SendDocument(i, last)
       \/ \E hold \in HoldValues : HoldJob(i, hold)
       \/ CloseJob(i) \/ ReleaseJob(i) \/ RestartJob(i) \/ CancelJob(i)
  \/ \E ids \in SUBSET queue : CancelMyJobs(ids)
  \/ PurgeJobs

JobOperation == SetOperation \/ OtherJobOperation

PrinterOperation ==
  \/ PausePrinter \/ ResumePrinter \/ RestartPrinter
  \/ EnablePrinter \/ DisablePrinter
  \/ HoldNewJobs \/ ReleaseHeldNewJobs

BeginUri(s) ==
  \/ \E hold \in HoldValues : BeginPrintUri(s, hold)
  \/ \E i \in queue, last \in BOOLEAN : BeginSendUri(s, i, last)

EndUri(s) == FinishPrintUri(s) \/ FinishSendUri(s) \/ RefuseUri(s)

Next ==
  \/ JobOperation
  \/ PrinterOperation
  \/ \E s \in Slots : BeginUri(s) \/ EndUri(s)

Spec == Init /\ [][Next]_vars

(***************************************************************************)
(* Invariants.                                                             *)
(***************************************************************************)

\* Whatever was called on a job between two Send-Documents, one still open for
\* documents is held and has not run; no client, and no handler resuming after
\* its await, finds a job half-way through a run (pauseAfterCurrentJob relies
\* on it); one reported completed has run, one reported aborted was closed
\* empty and never ran.
JobsAreSound ==
  \A i \in JobIds : OpenIsHeld(job[i]) /\ NotMidFlight(job[i]) /\ EndExplained(job[i])

\* Job.RunsPrinted: on every path that runs a job (submission, release, close,
\* restart, resume, a late fetch) each completion of a job with documents
\* wrote its pages.
EveryRunPrinted == \A i \in JobIds : RunsPrinted(job[i])

\* No stranded job: nothing runs a PENDING job but a resume or a restart of
\* the printer, so while the printer is not paused no job of the queue may be
\* left PENDING.
NoStrandedJob == ~ paused => \A i \in queue : job[i].state # "PENDING"

(***************************************************************************)
(* Action properties.                                                      *)
(***************************************************************************)

\* A paused printer prints nothing: no operation, also none that began before
\* the pause and finishes after it, runs a job or writes a page while paused.
PausedPrintsNothing ==
  [][paused /\ paused' =>
       \A i \in JobIds' :
         LET before == IF i \in JobIds THEN job[i] ELSE [runs |-> 0, printed |-> {}]
         IN  job'[i].runs = before.runs /\ job'[i].printed = before.printed]_vars

\* Once a job is closed (single-shot, closed, released, canceled, restarted)
\* its set of documents is final: no late Send-URI adds one, so that every run
\* of a restarted job prints the same documents.
ClosedDocumentsFinal ==
  [][\A i \in JobIds : ~ job[i].open =>
       ~ job'[i].open /\ job'[i].docs = job[i].docs]_vars

\* A document fetch that ends after its job has ended (canceled, aborted or
\* completed by another request meanwhile) neither revives nor reruns the job.
LateFetchRevivesNothing ==
  [][\A s \in Slots : Fetching(s) /\ request'[s] # request[s] =>
       \A i \in JobIds : job[i].state \in Terminal =>
         job'[i].state = job[i].state /\ job'[i].runs = job[i].runs]_vars

\* Held means not printed: a job held for its job-hold-until only starts to
\* run through an operation that also ends the hold.
RunEndsTheHold ==
  [][\A i \in JobIds :
       ~ job[i].open /\ job[i].state = "PENDING_HELD" /\ job'[i].runs > job[i].runs
         => ~ HoldUntilHolds(job'[i].holdUntil)]_vars

(***************************************************************************)
(* What the sources say of the program and the program does not keep       *)
(* (README.md, "Findings").                                                *)
(***************************************************************************)

\* set-job-attributes.ts: a holding job-hold-until re-holds the job, only
\* no-hold releases and runs it; so a held job that never ran has no pages.
HeldJobNotPrinted ==
  \A i \in JobIds : job[i].state = "PENDING_HELD" /\ job[i].runs = 0 => 0 \notin job[i].printed

\* send-uri.ts: a closed or terminal job is refused with
\* client-error-not-possible; so a Send-URI answered successful-ok attached its
\* document.
AcknowledgedDocumentAttached ==
  [][\A s \in Slots :
       request[s].op = "Send-URI" /\ request'[s].op = "ok" =>
         job'[request[s].job].docs = job[request[s].job].docs + 1]_vars

(***************************************************************************)
(* The printer implements Spool: a client that watches the states cannot   *)
(* tell it from the abstract printer, whatever it does with open jobs and  *)
(* document fetches.                                                       *)
(***************************************************************************)
Status ==
  [i \in 1..MaxJobs |-> IF i >= nextId THEN "unborn"
                        ELSE IF i \notin queue THEN "purged"
                        ELSE job[i].state]

Abstract == INSTANCE Spool WITH Ids <- 1..MaxJobs, status <- Status, stopped <- paused

ImplementsSpool == Abstract!Spec
=============================================================================
