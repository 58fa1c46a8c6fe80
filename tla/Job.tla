-------------------------------- MODULE Job ---------------------------------
(***************************************************************************)
(* One print job of the emulator: the job state machine                    *)
(* (src/printer/states.ts, src/printer/state-machine.ts) and the methods   *)
(* of class Job (src/printer/job.ts), as operators from a job object to    *)
(* the object the call leaves behind.                                      *)
(*                                                                         *)
(* A method that returns a boolean is two operators: X(j, ..) is the       *)
(* object after the call and XOk(j, ..) is what the call returns.          *)
(* "defer" is the source's parameter of that name: TRUE while the printer  *)
(* is paused, when a released job is left PENDING and not run.             *)
(***************************************************************************)
EXTENDS Naturals

JobState == {"PENDING", "PENDING_HELD", "PROCESSING", "PROCESSING_STOPPED",
             "CANCELED", "ABORTED", "COMPLETED"}

Terminal == {"CANCELED", "ABORTED", "COMPLETED"}

\* job-hold-until: "none" stands for the absent value (undefined), "no-hold"
\* for the keyword that releases, "indefinite" for every other keyword: the
\* code tells the others apart only to echo them.
HoldValues == {"none", "no-hold", "indefinite"}

HoldUntilHolds(value) == value = "indefinite"

(***************************************************************************)
(* A job object. "docs" counts the attached documents, "runs" the          *)
(* completions.  "printed" is a history variable: the values runs had at   *)
(* the moments pages of this job were written by the renderer.  It holds   *)
(* 0 exactly when pages were written before the job ever ran.              *)
(***************************************************************************)
JobRecord ==
  [state: JobState, open: BOOLEAN, holdUntil: HoldValues,
   docs: Nat, runs: Nat, printed: SUBSET Nat]

(***************************************************************************)
(* The state machine.                                                      *)
(***************************************************************************)
TRANSITIONS ==
  [PENDING |->
     [HOLD |-> "PENDING_HELD", START_PROCESSING |-> "PROCESSING",
      CANCEL |-> "CANCELED", ABORT |-> "ABORTED"],
   PENDING_HELD |->
     [RELEASE |-> "PENDING", CANCEL |-> "CANCELED", ABORT |-> "ABORTED"],
   PROCESSING |->
     [STOP_PROCESSING |-> "PROCESSING_STOPPED", COMPLETE |-> "COMPLETED",
      CANCEL |-> "CANCELED", ABORT |-> "ABORTED"],
   PROCESSING_STOPPED |->
     [RESUME_PROCESSING |-> "PROCESSING",
      CANCEL |-> "CANCELED", ABORT |-> "ABORTED"],
   COMPLETED |-> [RESTART |-> "PENDING"],
   CANCELED  |-> [RESTART |-> "PENDING"],
   ABORTED   |-> [RESTART |-> "PENDING"]]

CanTransition(j, event) == event \in DOMAIN TRANSITIONS[j.state]

\* transition(event): every caller below has asked CanTransition first, so the
\* InvalidTransitionError of the source is never thrown.
Transition(j, event) == [j EXCEPT !.state = TRANSITIONS[j.state][event]]

TransitionIfCan(j, event) ==
  IF CanTransition(j, event) THEN Transition(j, event) ELSE j

(***************************************************************************)
(* The methods of Job.                                                     *)
(***************************************************************************)

\* The constructor: open for Create-Job, with one document for the others.
NewJob(open, holdUntil) ==
  [state     |-> IF open \/ HoldUntilHolds(holdUntil)
                 THEN "PENDING_HELD" ELSE "PENDING",
   open      |-> open,
   holdUntil |-> holdUntil,
   docs      |-> IF open THEN 0 ELSE 1,
   runs      |-> 0,
   printed   |-> {}]

IsSettable(j) == j.state \notin Terminal

\* Fault: documents are attached to a closed job too.
FaultyAddDocument(j) == [j EXCEPT !.docs = @ + 1]

AddDocument(j) == IF j.open THEN [j EXCEPT !.docs = @ + 1] ELSE j

Process(j) ==
  LET started == TransitionIfCan(j, "START_PROCESSING")
  IN  IF CanTransition(started, "COMPLETE")
      THEN [Transition(started, "COMPLETE") EXCEPT !.runs = @ + 1]
      ELSE started

CloseOk(j) == j.open

\* An empty job is aborted; any other is released, whatever holds it.
Close(j, defer) ==
  LET closed   == [j EXCEPT !.open = FALSE]
      released == TransitionIfCan(closed, "RELEASE")
  IN  IF ~ j.open THEN j
      ELSE IF j.docs = 0 THEN TransitionIfCan(closed, "ABORT")
      ELSE IF defer THEN released
      ELSE Process(released)

HoldOk(j) == j.state = "PENDING_HELD" \/ CanTransition(j, "HOLD")

Hold(j) == IF j.state = "PENDING_HELD" THEN j ELSE TransitionIfCan(j, "HOLD")

ReleaseOk(j) == j.state \notin Terminal

\* Fault: a released job stays open for documents.
FaultyReleaseOpen(j, defer) ==
  LET released == [Transition(j, "RELEASE") EXCEPT !.holdUntil = "no-hold"]
  IN  IF j.state # "PENDING_HELD" THEN j
      ELSE IF defer THEN released
      ELSE Process(released)

\* Fault: a released job keeps its job-hold-until.
FaultyReleaseHold(j, defer) ==
  LET released == [Transition(j, "RELEASE") EXCEPT !.open = FALSE]
  IN  IF j.state # "PENDING_HELD" THEN j
      ELSE IF defer THEN released
      ELSE Process(released)

Release(j, defer) ==
  LET released == [Transition(j, "RELEASE")
                     EXCEPT !.open = FALSE, !.holdUntil = "no-hold"]
  IN  IF j.state # "PENDING_HELD" THEN j
      ELSE IF defer THEN released
      ELSE Process(released)

HoldWithOk(j, value) ==
  IF HoldUntilHolds(value) THEN HoldOk(j) ELSE ReleaseOk(j)

\* The keyword is recorded first, and stays recorded when the call fails.
HoldWith(j, value, defer) ==
  LET recorded == [j EXCEPT !.holdUntil = value]
  IN  IF HoldUntilHolds(value) THEN Hold(recorded) ELSE Release(recorded, defer)

RestartOk(j) == CanTransition(j, "RESTART")

Restart(j, defer) ==
  LET restarted == [Transition(j, "RESTART")
                      EXCEPT !.open = FALSE, !.holdUntil = "no-hold"]
  IN  IF ~ RestartOk(j) THEN j
      ELSE IF defer THEN restarted
      ELSE Process(restarted)

CancelOk(j) == CanTransition(j, "CANCEL")

Cancel(j) ==
  IF CancelOk(j) THEN [Transition(j, "CANCEL") EXCEPT !.open = FALSE] ELSE j

(***************************************************************************)
(* IppPrinter.renderRaster: writes one image per page of the job's         *)
(* documents, nothing for a job that has none.  The model takes a printer  *)
(* with an output prefix configured and documents it can render.           *)
(***************************************************************************)
Render(j) == IF j.docs = 0 THEN j ELSE [j EXCEPT !.printed = @ \cup {j.runs}]

(***************************************************************************)
(* What every reachable job object satisfies.                              *)
(***************************************************************************)

\* A job that still takes documents is held and has never run, so no path
\* runs a job whose client is still sending it.
OpenIsHeld(j) == j.open => j.state = "PENDING_HELD" /\ j.runs = 0

\* Jobs run to completion within the operation that starts them: none is seen
\* between START_PROCESSING and COMPLETE.
NotMidFlight(j) == j.state \notin {"PROCESSING", "PROCESSING_STOPPED"}

\* Every completion of a job that has documents wrote its pages.
RunsPrinted(j) == j.docs > 0 => 1..j.runs \subseteq j.printed

\* A job is reported completed only when it ran, and aborted only when it was
\* closed empty without ever running.
EndExplained(j) ==
  /\ j.state = "COMPLETED" => j.runs > 0
  /\ j.state = "ABORTED" => j.docs = 0 /\ j.runs = 0

JobInv(j) == OpenIsHeld(j) /\ NotMidFlight(j) /\ RunsPrinted(j) /\ EndExplained(j)
=============================================================================
