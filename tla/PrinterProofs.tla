---------------------------- MODULE PrinterProofs ---------------------------
(***************************************************************************)
(* Theorems of Printer, for any number of jobs, documents, runs and        *)
(* fetches in progress: first what the methods of one job preserve, then   *)
(* the queue.                                                              *)
(*                                                                         *)
(* IInv is the inductive invariant.  None of the invariants is inductive   *)
(* by itself: that no job is stranded when an operation ends needs that no *)
(* job is mid-flight when it starts, that every run is printed needs that  *)
(* an open job never ran, and that needs that an open job is held.         *)
(***************************************************************************)
EXTENDS Printer, TLAPS

(***************************************************************************)
(* What the methods of a job preserve, for every job object they can be    *)
(* called on.  The handlers call each method either with defer (printer    *)
(* paused, no pages written) or without and render the job afterwards, so  *)
(* each lemma has the two halves a caller needs:                           *)
(*   - Sound(Op(j, TRUE)), and                                             *)
(*   - Unrendered(Op(j, FALSE)), which Render turns into Sound.            *)
(***************************************************************************)
Sound(j) == j \in JobRecord /\ JobInv(j)

\* JobInv, but the pages of the last run may still be missing.
Unrendered(j) ==
  /\ j \in JobRecord
  /\ OpenIsHeld(j) /\ NotMidFlight(j) /\ EndExplained(j)
  /\ j.docs > 0 => 1..j.runs \subseteq j.printed \cup {j.runs}

LEMMA SoundIsUnrendered ==
  ASSUME NEW j, Sound(j)
  PROVE  Unrendered(j)
BY DEF Sound, Unrendered, JobInv, RunsPrinted

\* Writing the pages completes the invariant and moves no job.
LEMMA RenderSound ==
  ASSUME NEW j, Unrendered(j)
  PROVE  Sound(Render(j)) /\ Render(j).state = j.state
<1>1. CASE j.docs = 0
  BY <1>1 DEF Render, Unrendered, Sound, JobInv, RunsPrinted, JobRecord
<1>2. CASE j.docs # 0
  <2> DEFINE r == [j EXCEPT !.printed = @ \cup {j.runs}]
  <2>1. Render(j) = r
    BY <1>2 DEF Render
  <2>2. r \in JobRecord
    BY DEF Unrendered, JobRecord
  <2>3. /\ r.state = j.state /\ r.open = j.open /\ r.docs = j.docs
        /\ r.runs = j.runs /\ r.printed = j.printed \cup {j.runs}
    BY DEF Unrendered, JobRecord
  <2> HIDE DEF r
  <2>4. JobInv(r)
    BY <2>3, <1>2 DEF Unrendered, JobInv, OpenIsHeld, NotMidFlight, EndExplained,
                      RunsPrinted, JobRecord
  <2>5. QED
    BY <2>1, <2>2, <2>3, <2>4 DEF Sound
<1>3. QED
  BY <1>1, <1>2

(***************************************************************************)
(* The state machine, event by event.                                      *)
(***************************************************************************)
LEMMA Table ==
  ASSUME NEW j, j.state \in JobState
  PROVE  /\ CanTransition(j, "START_PROCESSING") <=> j.state = "PENDING"
         /\ CanTransition(j, "COMPLETE") <=> j.state = "PROCESSING"
         /\ CanTransition(j, "RELEASE") <=> j.state = "PENDING_HELD"
         /\ CanTransition(j, "HOLD") <=> j.state = "PENDING"
         /\ CanTransition(j, "RESTART") <=> j.state \in Terminal
         /\ CanTransition(j, "CANCEL") <=> j.state \notin Terminal
         /\ CanTransition(j, "ABORT") <=> j.state \notin Terminal
BY DEF JobState, CanTransition, TRANSITIONS, Terminal

LEMMA Targets ==
  /\ TRANSITIONS["PENDING"]["START_PROCESSING"] = "PROCESSING"
  /\ TRANSITIONS["PROCESSING"]["COMPLETE"] = "COMPLETED"
  /\ TRANSITIONS["PENDING_HELD"]["RELEASE"] = "PENDING"
  /\ TRANSITIONS["PENDING"]["HOLD"] = "PENDING_HELD"
  /\ \A s \in Terminal : TRANSITIONS[s]["RESTART"] = "PENDING"
  /\ \A s \in JobState \ Terminal : /\ TRANSITIONS[s]["CANCEL"] = "CANCELED"
                                    /\ TRANSITIONS[s]["ABORT"] = "ABORTED"
BY DEF TRANSITIONS, Terminal, JobState

(***************************************************************************)
(* process(): on a PENDING job that is closed, one whole run.              *)
(***************************************************************************)
LEMMA ProcessRuns ==
  ASSUME NEW j, Sound(j), j.state = "PENDING"
  PROVE  /\ Process(j) = [j EXCEPT !.state = "COMPLETED", !.runs = @ + 1]
         /\ Unrendered(Process(j))
         /\ Process(j).state = "COMPLETED"
<1> DEFINE started == [j EXCEPT !.state = "PROCESSING"]
           done == [j EXCEPT !.state = "COMPLETED", !.runs = @ + 1]
<1>1. TransitionIfCan(j, "START_PROCESSING") = started
  BY Table, Targets DEF TransitionIfCan, Transition, Sound, JobRecord
<1>2. /\ started.state = "PROCESSING" /\ started.state \in JobState
      /\ CanTransition(started, "COMPLETE")
  BY Table DEF Sound, JobRecord, JobState
<1>3. [Transition(started, "COMPLETE") EXCEPT !.runs = @ + 1] = done
  BY <1>2, Targets DEF Transition, Sound, JobRecord
<1>4. Process(j) = done
  BY <1>1, <1>2, <1>3 DEF Process
<1>5. done \in JobRecord
  <2>1. j.runs + 1 \in Nat /\ "COMPLETED" \in JobState
    BY DEF Sound, JobRecord, JobState
  <2>2. done = [[j EXCEPT !.state = "COMPLETED"] EXCEPT !.runs = j.runs + 1]
    BY DEF Sound, JobRecord
  <2>3. QED
    BY <2>1, <2>2 DEF Sound, JobRecord
<1>6. /\ done.state = "COMPLETED" /\ done.runs = j.runs + 1 /\ done.open = j.open
      /\ done.docs = j.docs /\ done.printed = j.printed
  BY DEF Sound, JobRecord
<1> HIDE DEF done
<1>7. ~ j.open
  BY DEF Sound, JobInv, OpenIsHeld
<1>8. j.docs > 0 => 1..done.runs \subseteq done.printed \cup {done.runs}
  BY <1>6 DEF Sound, JobInv, RunsPrinted, JobRecord
<1>9. OpenIsHeld(done) /\ NotMidFlight(done) /\ EndExplained(done)
  BY <1>6, <1>7 DEF OpenIsHeld, NotMidFlight, EndExplained, Sound, JobRecord
<1>10. QED
  BY <1>4, <1>5, <1>6, <1>8, <1>9 DEF Unrendered, done

\* A job that process() does not start is left alone.
LEMMA ProcessSkips ==
  ASSUME NEW j, Sound(j), j.state # "PENDING"
  PROVE  Process(j) = j
<1>1. j.state \in JobState /\ j.state # "PROCESSING"
  BY DEF Sound, JobRecord, JobInv, NotMidFlight
<1>2. QED
  BY <1>1, Table DEF Process, TransitionIfCan

(***************************************************************************)
(* The operations.  Moved(j, k): k is a PENDING job only if j was one.     *)
(***************************************************************************)
Moved(j, k) == k.state = "PENDING" => j.state = "PENDING"

LEMMA AddDocumentSound ==
  ASSUME NEW j, Sound(j)
  PROVE  /\ Sound(AddDocument(j))
         /\ AddDocument(j).state = j.state /\ AddDocument(j).open = j.open
<1>1. CASE ~ j.open
  BY <1>1 DEF AddDocument
<1>2. CASE j.open
  <2> DEFINE k == [j EXCEPT !.docs = @ + 1]
  <2>1. AddDocument(j) = k /\ k \in JobRecord
    BY <1>2 DEF AddDocument, Sound, JobRecord
  <2>2. /\ k.state = j.state /\ k.open = j.open /\ k.runs = j.runs
        /\ k.printed = j.printed /\ k.docs = j.docs + 1
    BY DEF Sound, JobRecord
  <2> HIDE DEF k
  <2>3. j.state = "PENDING_HELD" /\ j.runs = 0
    BY <1>2 DEF Sound, JobInv, OpenIsHeld
  <2>4. JobInv(k)
    BY <2>2, <2>3 DEF JobInv, OpenIsHeld, NotMidFlight, EndExplained, RunsPrinted
  <2>5. QED
    BY <2>1, <2>2, <2>4 DEF Sound
<1>3. QED
  BY <1>1, <1>2

\* A held job that is released: the PENDING object between the two halves.
LEMMA ReleasedSound ==
  ASSUME NEW j, Sound(j), j.state = "PENDING_HELD", NEW hold \in HoldValues
  PROVE  LET k == [j EXCEPT !.state = "PENDING", !.open = FALSE, !.holdUntil = hold]
         IN  Sound(k) /\ k.state = "PENDING"
<1> DEFINE k == [j EXCEPT !.state = "PENDING", !.open = FALSE, !.holdUntil = hold]
<1>1. k \in JobRecord
  BY DEF Sound, JobRecord, JobState
<1>2. /\ k.state = "PENDING" /\ k.open = FALSE /\ k.runs = j.runs
      /\ k.docs = j.docs /\ k.printed = j.printed
  BY DEF Sound, JobRecord
<1> HIDE DEF k
<1>3. JobInv(k)
  BY <1>2 DEF Sound, JobInv, OpenIsHeld, NotMidFlight, EndExplained, RunsPrinted
<1>4. QED
  BY <1>1, <1>2, <1>3 DEF Sound, k

\* The same for a terminal job that is restarted.
LEMMA RestartedSound ==
  ASSUME NEW j, Sound(j), j.state \in Terminal
  PROVE  LET k == [j EXCEPT !.state = "PENDING", !.open = FALSE, !.holdUntil = "no-hold"]
         IN  Sound(k) /\ k.state = "PENDING"
<1> DEFINE k == [j EXCEPT !.state = "PENDING", !.open = FALSE, !.holdUntil = "no-hold"]
<1>1. k \in JobRecord
  BY DEF Sound, JobRecord, JobState, HoldValues
<1>2. /\ k.state = "PENDING" /\ k.open = FALSE /\ k.runs = j.runs
      /\ k.docs = j.docs /\ k.printed = j.printed
  BY DEF Sound, JobRecord
<1> HIDE DEF k
<1>3. JobInv(k)
  BY <1>2 DEF Sound, JobInv, OpenIsHeld, NotMidFlight, EndExplained, RunsPrinted
<1>4. QED
  BY <1>1, <1>2, <1>3 DEF Sound, k

\* Deferred, a released job waits as PENDING; else it has run.
LEMMA RunOrDefer ==
  ASSUME NEW k, Sound(k), k.state = "PENDING"
  PROVE  Sound(k) /\ Unrendered(Process(k)) /\ Process(k).state = "COMPLETED"
BY ProcessRuns

LEMMA ReleaseSound ==
  ASSUME NEW j, Sound(j)
  PROVE  /\ Sound(Release(j, TRUE))
         /\ Unrendered(Release(j, FALSE))
         /\ Moved(j, Release(j, FALSE))
<1>1. CASE j.state # "PENDING_HELD"
  BY <1>1, SoundIsUnrendered DEF Release, Moved
<1>2. CASE j.state = "PENDING_HELD"
  <2> DEFINE k == [j EXCEPT !.state = "PENDING", !.open = FALSE, !.holdUntil = "no-hold"]
  <2>1. [Transition(j, "RELEASE") EXCEPT !.open = FALSE, !.holdUntil = "no-hold"] = k
    BY <1>2, Targets DEF Transition, Sound, JobRecord
  <2>2. Sound(k) /\ k.state = "PENDING"
    BY <1>2, ReleasedSound DEF HoldValues
  <2> HIDE DEF k
  <2>3. Release(j, TRUE) = k /\ Release(j, FALSE) = Process(k)
    BY <1>2, <2>1 DEF Release
  <2>4. QED
    BY <2>2, <2>3, RunOrDefer DEF Moved
<1>3. QED
  BY <1>1, <1>2

LEMMA RestartSound ==
  ASSUME NEW j, Sound(j)
  PROVE  /\ Sound(Restart(j, TRUE))
         /\ Unrendered(Restart(j, FALSE))
         /\ Moved(j, Restart(j, FALSE))
<1>0. RestartOk(j) <=> j.state \in Terminal
  BY Table DEF RestartOk, Sound, JobRecord
<1>1. CASE j.state \notin Terminal
  BY <1>0, <1>1, SoundIsUnrendered DEF Restart, Moved
<1>2. CASE j.state \in Terminal
  <2> DEFINE k == [j EXCEPT !.state = "PENDING", !.open = FALSE, !.holdUntil = "no-hold"]
  <2>1. [Transition(j, "RESTART") EXCEPT !.open = FALSE, !.holdUntil = "no-hold"] = k
    BY <1>2, Targets DEF Transition, Sound, JobRecord
  <2>2. Sound(k) /\ k.state = "PENDING"
    BY <1>2, RestartedSound
  <2> HIDE DEF k
  <2>3. Restart(j, TRUE) = k /\ Restart(j, FALSE) = Process(k)
    BY <1>0, <1>2, <2>1 DEF Restart
  <2>4. QED
    BY <2>2, <2>3, RunOrDefer DEF Moved
<1>3. QED
  BY <1>1, <1>2

LEMMA CloseSound ==
  ASSUME NEW j, Sound(j)
  PROVE  /\ Sound(Close(j, TRUE))
         /\ Unrendered(Close(j, FALSE))
         /\ Moved(j, Close(j, FALSE))
<1> DEFINE closed == [j EXCEPT !.open = FALSE]
<1>1. CASE ~ j.open
  BY <1>1, SoundIsUnrendered DEF Close, Moved
<1>2. CASE j.open /\ j.docs = 0
  <2> DEFINE k == [j EXCEPT !.open = FALSE, !.state = "ABORTED"]
  <2>1. j.state = "PENDING_HELD" /\ j.runs = 0
    BY <1>2 DEF Sound, JobInv, OpenIsHeld
  <2>2. CanTransition(closed, "ABORT") /\ Transition(closed, "ABORT") = k
    BY <2>1, Table, Targets DEF Transition, Sound, JobRecord, Terminal
  <2>3. Close(j, TRUE) = k /\ Close(j, FALSE) = k
    BY <1>2, <2>2 DEF Close, TransitionIfCan
  <2>4. k \in JobRecord
    BY DEF Sound, JobRecord, JobState
  <2>5. /\ k.state = "ABORTED" /\ k.open = FALSE /\ k.docs = 0 /\ k.runs = 0
        /\ k.printed = j.printed
    BY <1>2, <2>1 DEF Sound, JobRecord
  <2> HIDE DEF k
  <2>6. Sound(k)
    BY <2>4, <2>5 DEF Sound, JobInv, OpenIsHeld, NotMidFlight, EndExplained, RunsPrinted
  <2>7. QED
    BY <2>3, <2>5, <2>6, SoundIsUnrendered DEF Moved
<1>3. CASE j.open /\ j.docs # 0
  <2> DEFINE k == [j EXCEPT !.state = "PENDING", !.open = FALSE, !.holdUntil = j.holdUntil]
  <2>1. j.state = "PENDING_HELD" /\ j.holdUntil \in HoldValues
    BY <1>3 DEF Sound, JobInv, OpenIsHeld, JobRecord
  <2>2. CanTransition(closed, "RELEASE") /\ Transition(closed, "RELEASE") = k
    <3>1. /\ closed \in JobRecord
          /\ closed.state = "PENDING_HELD" /\ closed.holdUntil = j.holdUntil
      BY <2>1 DEF Sound, JobRecord
    <3>2. Transition(closed, "RELEASE") = [closed EXCEPT !.state = "PENDING"]
      BY <3>1, Targets DEF Transition
    <3>3. [closed EXCEPT !.state = "PENDING"] = k
      BY DEF Sound, JobRecord
    <3>4. CanTransition(closed, "RELEASE")
      BY <3>1, Table DEF JobRecord
    <3>5. QED
      BY <3>2, <3>3, <3>4
  <2>3. Sound(k) /\ k.state = "PENDING"
    BY <2>1, ReleasedSound
  <2> HIDE DEF k
  <2>4. Close(j, TRUE) = k /\ Close(j, FALSE) = Process(k)
    BY <1>3, <2>2 DEF Close, TransitionIfCan
  <2>5. QED
    BY <2>3, <2>4, RunOrDefer DEF Moved
<1>4. QED
  BY <1>1, <1>2, <1>3

LEMMA HoldSound ==
  ASSUME NEW j, Sound(j)
  PROVE  Sound(Hold(j)) /\ Moved(j, Hold(j))
<1>1. CASE j.state # "PENDING"
  BY <1>1, Table DEF Hold, TransitionIfCan, Sound, JobRecord, Moved
<1>2. CASE j.state = "PENDING"
  <2> DEFINE k == [j EXCEPT !.state = "PENDING_HELD"]
  <2>1. Hold(j) = k
    BY <1>2, Table, Targets DEF Hold, TransitionIfCan, Transition, Sound, JobRecord
  <2>2. k \in JobRecord
    BY DEF Sound, JobRecord, JobState
  <2>3. /\ k.state = "PENDING_HELD" /\ k.open = j.open /\ k.docs = j.docs
        /\ k.runs = j.runs /\ k.printed = j.printed
    BY DEF Sound, JobRecord
  <2> HIDE DEF k
  <2>4. Sound(k)
    BY <1>2, <2>2, <2>3 DEF Sound, JobInv, OpenIsHeld, NotMidFlight, EndExplained, RunsPrinted
  <2>5. QED
    BY <1>2, <2>1, <2>4 DEF Moved
<1>3. QED
  BY <1>1, <1>2

LEMMA HoldWithSound ==
  ASSUME NEW j, Sound(j), NEW value \in HoldValues
  PROVE  /\ Sound(HoldWith(j, value, TRUE))
         /\ Unrendered(HoldWith(j, value, FALSE))
         /\ Moved(j, HoldWith(j, value, FALSE))
<1> DEFINE k == [j EXCEPT !.holdUntil = value]
<1>1. k \in JobRecord
  BY DEF Sound, JobRecord
<1>2. /\ k.state = j.state /\ k.open = j.open /\ k.docs = j.docs
      /\ k.runs = j.runs /\ k.printed = j.printed
  BY DEF Sound, JobRecord
<1> HIDE DEF k
<1>3. Sound(k)
  BY <1>1, <1>2 DEF Sound, JobInv, OpenIsHeld, NotMidFlight, EndExplained, RunsPrinted
<1>4. /\ Sound(Hold(k)) /\ Moved(k, Hold(k))
      /\ Sound(Release(k, TRUE)) /\ Unrendered(Release(k, FALSE))
      /\ Moved(k, Release(k, FALSE))
  BY <1>3, HoldSound, ReleaseSound
<1>5. \A defer : HoldWith(j, value, defer) =
                   IF HoldUntilHolds(value) THEN Hold(k) ELSE Release(k, defer)
  BY DEF HoldWith, k
<1>6. QED
  BY <1>2, <1>4, <1>5, SoundIsUnrendered DEF Moved

LEMMA CancelSound ==
  ASSUME NEW j, Sound(j)
  PROVE  Sound(Cancel(j)) /\ Moved(j, Cancel(j))
<1>0. CancelOk(j) <=> j.state \notin Terminal
  BY Table DEF CancelOk, Sound, JobRecord
<1>1. CASE j.state \in Terminal
  BY <1>0, <1>1 DEF Cancel, Moved
<1>2. CASE j.state \notin Terminal
  <2> DEFINE k == [j EXCEPT !.state = "CANCELED", !.open = FALSE]
  <2>1. Cancel(j) = k
    BY <1>0, <1>2, Targets DEF Cancel, Transition, Sound, JobRecord
  <2>2. k \in JobRecord
    BY DEF Sound, JobRecord, JobState
  <2>3. /\ k.state = "CANCELED" /\ k.open = FALSE /\ k.docs = j.docs
        /\ k.runs = j.runs /\ k.printed = j.printed
    BY DEF Sound, JobRecord
  <2> HIDE DEF k
  <2>4. Sound(k)
    BY <2>2, <2>3 DEF Sound, JobInv, OpenIsHeld, NotMidFlight, EndExplained, RunsPrinted
  <2>5. QED
    BY <2>1, <2>3, <2>4 DEF Moved
<1>3. QED
  BY <1>1, <1>2

LEMMA NewJobSound ==
  ASSUME NEW open \in BOOLEAN, NEW hold \in HoldValues
  PROVE  /\ Sound(NewJob(open, hold))
         /\ NewJob(open, hold).state =
              IF open \/ HoldUntilHolds(hold) THEN "PENDING_HELD" ELSE "PENDING"
<1>1. NewJob(open, hold) \in JobRecord
  BY DEF NewJob, JobRecord, JobState
<1>2. /\ NewJob(open, hold).runs = 0 /\ NewJob(open, hold).open = open
      /\ NewJob(open, hold).state =
           IF open \/ HoldUntilHolds(hold) THEN "PENDING_HELD" ELSE "PENDING"
  BY DEF NewJob
<1>3. JobInv(NewJob(open, hold))
  BY <1>2 DEF JobInv, OpenIsHeld, NotMidFlight, EndExplained, RunsPrinted
<1>4. QED
  BY <1>1, <1>2, <1>3 DEF Sound

(***************************************************************************)
(* The printer.                                                            *)
(***************************************************************************)
IInv ==
  /\ TypeOK
  /\ \A i \in JobIds : JobInv(job[i])
  /\ NoStrandedJob

LEMMA IInvSound ==
  ASSUME IInv
  PROVE  \A i \in JobIds : Sound(job[i])
BY DEF IInv, TypeOK, Sound

(***************************************************************************)
(* Each way a handler changes a job: the method deferred while the printer *)
(* is paused, and the pages written while it is not.                       *)
(***************************************************************************)

\* k may take the place of job j: it is sound, and unless the printer is
\* paused it is not a PENDING job that j was not.
Fit(j, k) == Sound(k) /\ (~ paused => Moved(j, k))

LEMMA MethodsFit ==
  ASSUME paused \in BOOLEAN, NEW j, Sound(j)
  PROVE  /\ Fit(j, RenderUnlessPaused(Close(j, paused)))
         /\ Fit(j, RenderUnlessPaused(Release(j, paused)))
         /\ Fit(j, RenderUnlessPaused(Restart(j, paused)))
         /\ \A hold \in HoldValues :
              Fit(j, RenderUnlessPaused(HoldWith(j, hold, paused)))
<1>1. CASE paused = TRUE
  BY <1>1, CloseSound, ReleaseSound, RestartSound, HoldWithSound
  DEF RenderUnlessPaused, Fit
<1>2. CASE paused = FALSE
  BY <1>2, CloseSound, ReleaseSound, RestartSound, HoldWithSound, RenderSound
  DEF RenderUnlessPaused, Fit, Moved
<1>3. QED
  BY <1>1, <1>2

LEMMA ReceivedFits ==
  ASSUME paused \in BOOLEAN, NEW j, Sound(j), NEW last \in BOOLEAN
  PROVE  Fit(j, Received(j, last))
<1> DEFINE k == AddDocument(j)
<1>1. Sound(k) /\ k.state = j.state
  BY AddDocumentSound
<1>2. Fit(k, RenderUnlessPaused(Close(k, paused)))
  BY <1>1, MethodsFit
<1>3. QED
  BY <1>1, <1>2 DEF Received, Fit, Moved

LEMMA HoldWithFits ==
  ASSUME paused \in BOOLEAN, NEW j, Sound(j), NEW hold \in HoldValues,
         HoldUntilHolds(hold) \/ ~ HoldWithOk(j, hold)
  PROVE  Fit(j, HoldWith(j, hold, paused))
<1>1. CASE paused
  BY <1>1, HoldWithSound DEF Fit
<1>2. CASE ~ paused
  <2> DEFINE k == [j EXCEPT !.holdUntil = hold]
  <2>1. k \in JobRecord
    BY DEF Sound, JobRecord
  <2>2. /\ k.state = j.state /\ k.open = j.open /\ k.docs = j.docs
        /\ k.runs = j.runs /\ k.printed = j.printed
    BY DEF Sound, JobRecord
  <2>3. HoldWith(j, hold, paused) = IF HoldUntilHolds(hold) THEN Hold(k)
                                    ELSE Release(k, paused)
    BY DEF HoldWith
  <2> HIDE DEF k
  <2>4. Sound(k)
    BY <2>1, <2>2 DEF Sound, JobInv, OpenIsHeld, NotMidFlight, EndExplained, RunsPrinted
  <2>5. CASE HoldUntilHolds(hold)
    BY <2>2, <2>3, <2>4, <2>5, HoldSound DEF Fit, Moved
  <2>6. CASE ~ HoldUntilHolds(hold)
    <3>1. k.state \in Terminal
      BY <2>2, <2>6 DEF HoldWithOk, ReleaseOk
    <3>2. Release(k, paused) = k
      BY <3>1 DEF Release, Terminal
    <3>3. QED
      BY <2>2, <2>3, <2>4, <2>6, <3>2 DEF Fit, Moved
  <2>7. QED
    BY <2>5, <2>6
<1>3. QED
  BY <1>1, <1>2

LEMMA SubmittedFits ==
  ASSUME paused \in BOOLEAN, NEW hold \in HoldValues
  PROVE  Sound(Submitted(hold)) /\ (~ paused => Submitted(hold).state # "PENDING")
<1> DEFINE j == NewJob(FALSE, hold)
<1>1. /\ Sound(j)
      /\ j.state = IF HoldUntilHolds(hold) THEN "PENDING_HELD" ELSE "PENDING"
  BY NewJobSound
<1>2. CASE HoldUntilHolds(hold) \/ paused
  BY <1>1, <1>2 DEF Submitted
<1>3. CASE ~ (HoldUntilHolds(hold) \/ paused)
  <2>1. Unrendered(Process(j)) /\ Process(j).state = "COMPLETED"
    BY <1>1, <1>3, ProcessRuns
  <2>2. Submitted(hold) = Render(Process(j))
    BY <1>3 DEF Submitted
  <2>3. QED
    BY <2>1, <2>2, RenderSound
<1>4. QED
  BY <1>2, <1>3

\* Running what is pending leaves nothing pending.
LEMMA PendingRun ==
  ASSUME NEW j, Sound(j), j.state = "PENDING"
  PROVE  Sound(Render(Process(j))) /\ Render(Process(j)).state = "COMPLETED"
BY ProcessRuns, RenderSound

(***************************************************************************)
(* What a step must show to preserve IInv: first a step that creates no    *)
(* job, then the step that does.                                           *)
(***************************************************************************)
LEMMA StepKeepsIInv ==
  ASSUME IInv,
         nextId' = nextId, queue' \subseteq queue,
         job' = [i \in JobIds |-> job'[i]],
         \A i \in JobIds : Sound(job'[i]),
         ~ paused' => \A i \in queue' : job'[i].state # "PENDING",
         paused' \in BOOLEAN, accepting' \in BOOLEAN, holdingNewJobs' \in BOOLEAN,
         heldNewJobIds' \subseteq heldNewJobIds,
         request' \in [Slots -> Request],
         \A s \in Slots : request'[s].op = "Send-URI" => request'[s].job \in JobIds
  PROVE  IInv'
<1>1. JobIds' = JobIds
  BY DEF JobIds
<1>2. job' \in [JobIds -> JobRecord] /\ \A i \in JobIds : JobInv(job'[i])
  BY DEF Sound
<1>3. TypeOK'
  BY <1>1, <1>2 DEF IInv, TypeOK
<1>4. QED
  BY <1>1, <1>2, <1>3 DEF IInv, NoStrandedJob

LEMMA EnqueueKeepsIInv ==
  ASSUME IInv, NEW j, Sound(j), ~ paused => j.state # "PENDING",
         Enqueue(j), UNCHANGED flagVars,
         request' \in [Slots -> Request],
         \A s \in Slots : request'[s].op = "Send-URI" => request'[s].job \in JobIds
  PROVE  IInv'
<1>1. /\ nextId \in Nat \ {0} /\ nextId <= MaxJobs /\ MaxJobs \in Nat
      /\ nextId' = nextId + 1
  BY BoundsAssumption DEF IInv, TypeOK, Enqueue
<1>2. JobIds' = 1..nextId /\ 1..nextId = JobIds \cup {nextId} /\ nextId \notin JobIds
  BY <1>1 DEF JobIds
<1>3. \A i \in JobIds' : Sound(job'[i]) /\ job'[i] = IF i = nextId THEN j ELSE job[i]
  BY <1>2, IInvSound DEF Enqueue
<1>4. job' \in [JobIds' -> JobRecord]
  BY <1>2, <1>3 DEF Enqueue, Sound
<1>5. TypeOK'
  BY <1>1, <1>2, <1>4 DEF IInv, TypeOK, Enqueue, flagVars
<1>6. NoStrandedJob'
  BY <1>2, <1>3 DEF IInv, TypeOK, NoStrandedJob, Enqueue, flagVars
<1>7. QED
  BY <1>3, <1>5, <1>6 DEF IInv, Sound

\* A handler replaces one job by one that fits.
LEMMA ReplaceKeepsIInv ==
  ASSUME IInv, NEW i \in JobIds, NEW k, Fit(job[i], k),
         job' = [job EXCEPT ![i] = k],
         UNCHANGED <<queue, nextId, flagVars>>,
         request' \in [Slots -> Request],
         \A s \in Slots : request'[s].op = "Send-URI" => request'[s].job \in JobIds
  PROVE  IInv'
<1>1. /\ job' = [n \in JobIds |-> job'[n]]
      /\ \A n \in JobIds : job'[n] = IF n = i THEN k ELSE job[n]
  BY DEF IInv, TypeOK
<1>2. \A n \in JobIds : Sound(job'[n])
  BY <1>1, IInvSound DEF Fit
<1>3. ~ paused' => \A n \in queue' : job'[n].state # "PENDING"
  BY <1>1 DEF Fit, Moved, IInv, NoStrandedJob, TypeOK, flagVars
<1>4. QED
  BY <1>1, <1>2, <1>3, StepKeepsIInv DEF IInv, TypeOK, flagVars

LEMMA UpdateKeepsIInv ==
  ASSUME IInv, NEW i \in queue, NEW k, Fit(job[i], k), Update(i, k)
  PROVE  IInv'
BY ReplaceKeepsIInv DEF Update, IInv, TypeOK

(***************************************************************************)
(* Jobs.                                                                   *)
(***************************************************************************)
LEMMA JobOperationKeepsIInv ==
  ASSUME IInv, JobOperation
  PROVE  IInv'
<1>0. /\ paused \in BOOLEAN
      /\ request \in [Slots -> Request]
      /\ \A s \in Slots : request[s].op = "Send-URI" => request[s].job \in JobIds
      /\ \A i \in queue : i \in JobIds /\ Sound(job[i])
  BY IInvSound DEF IInv, TypeOK
<1>1. ASSUME NEW hold \in HoldValues, PrintJob(hold)
      PROVE  IInv'
  BY <1>0, <1>1, SubmittedFits, EnqueueKeepsIInv DEF PrintJob
<1>2. ASSUME NEW hold \in HoldValues, CreateJob(hold)
      PROVE  IInv'
  <2>1. Sound(NewJob(TRUE, hold)) /\ NewJob(TRUE, hold).state = "PENDING_HELD"
    BY NewJobSound
  <2>2. QED
    BY <1>0, <1>2, <2>1, EnqueueKeepsIInv DEF CreateJob
<1>3. ASSUME NEW i \in queue, NEW last \in BOOLEAN, SendDocument(i, last)
      PROVE  IInv'
  BY <1>0, <1>3, ReceivedFits, UpdateKeepsIInv DEF SendDocument
<1>4. ASSUME NEW i \in queue, NEW hold \in HoldValues, HoldJob(i, hold)
      PROVE  IInv'
  <2>1. CASE hold = "none"
    <3>1. Fit(job[i], Hold(job[i]))
      BY <1>0, HoldSound DEF Fit
    <3>2. Update(i, Hold(job[i]))
      BY <1>4, <2>1 DEF HoldJob
    <3>3. QED
      BY <3>1, <3>2, UpdateKeepsIInv
  <2>2. CASE hold = "no-hold" /\ HoldWithOk(job[i], hold)
    <3>1. Update(i, RenderUnlessPaused(HoldWith(job[i], hold, paused)))
      BY <1>4, <2>2 DEF HoldJob
    <3>2. QED
      BY <1>0, <3>1, MethodsFit, UpdateKeepsIInv
  <2>3. CASE hold # "none" /\ ~ (hold = "no-hold" /\ HoldWithOk(job[i], hold))
    <3>1. Update(i, HoldWith(job[i], hold, paused))
      BY <1>4, <2>3 DEF HoldJob
    <3>2. HoldUntilHolds(hold) \/ ~ HoldWithOk(job[i], hold)
      BY <2>3 DEF HoldUntilHolds, HoldValues
    <3>3. QED
      BY <1>0, <3>1, <3>2, HoldWithFits, UpdateKeepsIInv
  <2>4. QED
    BY <2>1, <2>2, <2>3
<1>5. ASSUME NEW i \in queue, NEW hold \in HoldValues, SetJobAttributes(i, hold)
      PROVE  IInv'
  <2>1. CASE HoldWithOk(job[i], hold)
    <3>1. Update(i, RenderUnlessPaused(HoldWith(job[i], hold, paused)))
      BY <1>5, <2>1 DEF SetJobAttributes
    <3>2. QED
      BY <1>0, <3>1, MethodsFit, UpdateKeepsIInv
  <2>2. CASE ~ HoldWithOk(job[i], hold)
    <3>1. Update(i, HoldWith(job[i], hold, paused))
      BY <1>5, <2>2 DEF SetJobAttributes
    <3>2. QED
      BY <1>0, <2>2, <3>1, HoldWithFits, UpdateKeepsIInv
  <2>3. QED
    BY <2>1, <2>2
<1>6. ASSUME NEW i \in queue, CloseJob(i)
      PROVE  IInv'
  BY <1>0, <1>6, MethodsFit, UpdateKeepsIInv DEF CloseJob
<1>7. ASSUME NEW i \in queue, ReleaseJob(i)
      PROVE  IInv'
  BY <1>0, <1>7, MethodsFit, UpdateKeepsIInv DEF ReleaseJob
<1>8. ASSUME NEW i \in queue, RestartJob(i)
      PROVE  IInv'
  BY <1>0, <1>8, MethodsFit, UpdateKeepsIInv DEF RestartJob
<1>9. ASSUME NEW i \in queue, CancelJob(i)
      PROVE  IInv'
  <2>1. Fit(job[i], Cancel(job[i]))
    BY <1>0, CancelSound DEF Fit
  <2>2. QED
    BY <1>9, <2>1, UpdateKeepsIInv DEF CancelJob
<1>10. ASSUME NEW ids \in SUBSET queue, CancelMyJobs(ids)
       PROVE  IInv'
  <2>1. \A i \in JobIds : /\ job'[i] = IF i \in ids THEN Cancel(job[i]) ELSE job[i]
                          /\ Sound(job[i])
    BY <1>10, IInvSound DEF CancelMyJobs
  <2>2. \A i \in JobIds : Sound(job'[i]) /\ Moved(job[i], job'[i])
    BY <2>1, CancelSound DEF Moved
  <2>3. ~ paused' => \A i \in queue' : job'[i].state # "PENDING"
    BY <1>0, <1>10, <2>2 DEF CancelMyJobs, flagVars, IInv, NoStrandedJob, Moved
  <2>4. job' = [i \in JobIds |-> job'[i]]
    BY <1>10 DEF CancelMyJobs
  <2>5. QED
    BY <1>0, <1>10, <2>2, <2>3, <2>4, StepKeepsIInv
    DEF CancelMyJobs, flagVars, IInv, TypeOK
<1>11. ASSUME PurgeJobs
       PROVE  IInv'
  BY <1>0, <1>11, IInvSound, StepKeepsIInv
  DEF PurgeJobs, flagVars, IInv, TypeOK, NoStrandedJob
<1>12. QED
  BY <1>1, <1>2, <1>3, <1>4, <1>5, <1>6, <1>7, <1>8, <1>9, <1>10, <1>11
  DEF JobOperation, SetOperation, OtherJobOperation

(***************************************************************************)
(* The printer.                                                            *)
(***************************************************************************)

\* js after runPendingJobs: sound, and nothing of the queue is pending.
LEMMA RunPendingJobsSound ==
  ASSUME NEW js, \A i \in JobIds : Sound(js[i])
  PROVE  \A i \in JobIds : /\ Sound(RunPendingJobs(js)[i])
                           /\ i \in queue => RunPendingJobs(js)[i].state # "PENDING"
<1> TAKE i \in JobIds
<1>1. RunPendingJobs(js)[i] = IF i \in queue /\ js[i].state = "PENDING"
                              THEN Render(Process(js[i])) ELSE js[i]
  BY DEF RunPendingJobs
<1>2. QED
  BY <1>1, PendingRun

LEMMA ReleaseNewJobsFits ==
  ASSUME IInv
  PROVE  \A i \in JobIds : Fit(job[i], ReleaseNewJobs(job)[i])
<1> TAKE i \in JobIds
<1>1. Sound(job[i]) /\ paused \in BOOLEAN
  BY IInvSound DEF IInv, TypeOK
<1>2. \/ ReleaseNewJobs(job)[i] = job[i]
      \/ ReleaseNewJobs(job)[i] = RenderUnlessPaused(Release(job[i], paused))
  BY DEF ReleaseNewJobs
<1>3. QED
  BY <1>1, <1>2, MethodsFit DEF Fit, Moved

LEMMA PrinterOperationKeepsIInv ==
  ASSUME IInv, PrinterOperation
  PROVE  IInv'
<1>0. /\ paused \in BOOLEAN /\ accepting \in BOOLEAN /\ holdingNewJobs \in BOOLEAN
      /\ request \in [Slots -> Request]
      /\ \A s \in Slots : request[s].op = "Send-URI" => request[s].job \in JobIds
      /\ queue \subseteq JobIds
      /\ job = [i \in JobIds |-> job[i]]
      /\ \A i \in JobIds : Sound(job[i])
      /\ ~ paused => \A i \in queue : job[i].state # "PENDING"
  BY IInvSound DEF IInv, TypeOK, NoStrandedJob
<1>1. CASE PausePrinter
  BY <1>0, <1>1, StepKeepsIInv DEF PausePrinter, jobVars
<1>2. CASE ResumePrinter
  <2>1. job' = [i \in JobIds |-> job'[i]]
    BY <1>2 DEF ResumePrinter, RunPendingJobs
  <2>2. \A i \in JobIds : Sound(job'[i]) /\ (i \in queue => job'[i].state # "PENDING")
    BY <1>0, <1>2, RunPendingJobsSound DEF ResumePrinter
  <2>3. QED
    BY <1>0, <1>2, <2>1, <2>2, StepKeepsIInv DEF ResumePrinter
<1>3. CASE RestartPrinter
  <2>1. job' = [i \in JobIds |-> job'[i]]
    BY <1>3 DEF RestartPrinter, RunPendingJobs
  <2>2. \A i \in JobIds : Sound(ReleaseNewJobs(job)[i])
    BY ReleaseNewJobsFits DEF Fit
  <2>3. \A i \in JobIds : Sound(job'[i]) /\ (i \in queue => job'[i].state # "PENDING")
    BY <1>3, <2>2, RunPendingJobsSound DEF RestartPrinter
  <2>4. QED
    BY <1>0, <1>3, <2>1, <2>3, StepKeepsIInv DEF RestartPrinter
<1>4. CASE EnablePrinter \/ DisablePrinter \/ HoldNewJobs
  BY <1>0, <1>4, StepKeepsIInv DEF EnablePrinter, DisablePrinter, HoldNewJobs, jobVars
<1>5. CASE ReleaseHeldNewJobs
  <2>1. job' = [i \in JobIds |-> job'[i]]
    BY <1>5 DEF ReleaseHeldNewJobs, ReleaseNewJobs
  <2>2. \A i \in JobIds : Fit(job[i], job'[i])
    BY <1>5, ReleaseNewJobsFits DEF ReleaseHeldNewJobs
  <2>3. ~ paused' => \A i \in queue' : job'[i].state # "PENDING"
    BY <1>0, <1>5, <2>2 DEF ReleaseHeldNewJobs, Fit, Moved
  <2>4. QED
    BY <1>0, <1>5, <2>1, <2>2, <2>3, StepKeepsIInv DEF ReleaseHeldNewJobs, Fit
<1>6. QED
  BY <1>1, <1>2, <1>3, <1>4, <1>5 DEF PrinterOperation

(***************************************************************************)
(* Print-URI and Send-URI, before and after the await.                     *)
(***************************************************************************)
LEMMA UriKeepsIInv ==
  ASSUME IInv, NEW s \in Slots, BeginUri(s) \/ EndUri(s)
  PROVE  IInv'
<1>0. /\ paused \in BOOLEAN /\ accepting \in BOOLEAN /\ holdingNewJobs \in BOOLEAN
      /\ request \in [Slots -> Request]
      /\ \A t \in Slots : request[t].op = "Send-URI" => request[t].job \in JobIds
      /\ queue \subseteq JobIds /\ JobIds \subseteq Nat
      /\ job = [i \in JobIds |-> job[i]]
      /\ \A i \in JobIds : Sound(job[i])
      /\ ~ paused => \A i \in queue : job[i].state # "PENDING"
  BY IInvSound DEF IInv, TypeOK, NoStrandedJob, JobIds
<1>1. NoRequest \in Request /\ Answered \in Request
      /\ NoRequest.op = "none" /\ Answered.op = "ok"
  BY DEF NoRequest, Answered, Request, HoldValues
<1>2. ASSUME NEW r \in Request, r.op = "Send-URI" => r.job \in JobIds,
             request' = [request EXCEPT ![s] = r]
      PROVE  /\ request' \in [Slots -> Request]
             /\ \A t \in Slots : request'[t].op = "Send-URI" => request'[t].job \in JobIds
  BY <1>0, <1>2
<1>3. ASSUME NEW r \in Request, r.op = "Send-URI" => r.job \in JobIds,
             request' = [request EXCEPT ![s] = r], UNCHANGED <<jobVars, flagVars>>
      PROVE  IInv'
  BY <1>0, <1>2, <1>3, StepKeepsIInv DEF jobVars, flagVars
<1>4. ASSUME NEW hold \in HoldValues, BeginPrintUri(s, hold)
      PROVE  IInv'
  <2> DEFINE r == [op |-> "Print-URI", job |-> 0, holdUntil |-> hold, last |-> FALSE]
  <2>1. r \in Request /\ r.op = "Print-URI"
    BY DEF Request
  <2>2. QED
    BY <1>3, <1>4, <2>1 DEF BeginPrintUri, Await
<1>5. ASSUME NEW i \in queue, NEW last \in BOOLEAN, BeginSendUri(s, i, last)
      PROVE  IInv'
  <2> DEFINE r == [op |-> "Send-URI", job |-> i, holdUntil |-> "none", last |-> last]
  <2>1. r \in Request /\ r.job \in JobIds
    BY <1>0 DEF Request, HoldValues
  <2>2. QED
    BY <1>3, <1>5, <2>1 DEF BeginSendUri, Await
<1>6. CASE FinishPrintUri(s)
  <2>1. request[s].holdUntil \in HoldValues
    BY <1>0 DEF Request
  <2>2. QED
    BY <1>0, <1>1, <1>2, <1>6, <2>1, SubmittedFits, EnqueueKeepsIInv DEF FinishPrintUri
<1>7. CASE FinishSendUri(s)
  <2> DEFINE i == request[s].job
             k == Received(job[i], request[s].last)
  <2>1. i \in JobIds /\ request[s].last \in BOOLEAN
    BY <1>0, <1>7 DEF FinishSendUri, Request
  <2>2. Fit(job[i], k)
    BY <1>0, <2>1, ReceivedFits
  <2>3. job' = [job EXCEPT ![i] = k]
    BY <1>7 DEF FinishSendUri
  <2>4. /\ request' = [request EXCEPT ![s] = Answered]
        /\ UNCHANGED <<queue, nextId, flagVars>>
    BY <1>7 DEF FinishSendUri
  <2>5. /\ request' \in [Slots -> Request]
        /\ \A t \in Slots : request'[t].op = "Send-URI" => request'[t].job \in JobIds
    BY <1>1, <1>2, <2>4
  <2> HIDE DEF i, k
  <2>6. QED
    BY <2>1, <2>2, <2>3, <2>4, <2>5, ReplaceKeepsIInv
<1>8. CASE RefuseUri(s)
  BY <1>1, <1>3, <1>8 DEF RefuseUri
<1>9. QED
  BY <1>4, <1>5, <1>6, <1>7, <1>8 DEF BeginUri, EndUri

(***************************************************************************)
(* The invariants.                                                         *)
(***************************************************************************)
LEMMA InitIInv == Init => IInv
<1> SUFFICES ASSUME Init PROVE IInv
  OBVIOUS
<1>1. nextId = 1 /\ JobIds = {}
  BY DEF Init, JobIds
<1>2. NoRequest \in Request /\ NoRequest.op = "none"
  BY DEF NoRequest, Request, HoldValues
<1>3. 1 \in 1..(MaxJobs + 1)
  BY BoundsAssumption
<1>4. TypeOK
  BY <1>1, <1>2, <1>3 DEF Init, TypeOK
<1>5. QED
  BY <1>1, <1>4 DEF Init, IInv, NoStrandedJob

LEMMA NextIInv == IInv /\ [Next]_vars => IInv'
<1> SUFFICES ASSUME IInv, [Next]_vars PROVE IInv'
  OBVIOUS
<1>1. CASE JobOperation
  BY <1>1, JobOperationKeepsIInv
<1>2. CASE PrinterOperation
  BY <1>2, PrinterOperationKeepsIInv
<1>3. ASSUME NEW s \in Slots, BeginUri(s) \/ EndUri(s)
      PROVE  IInv'
  BY <1>3, UriKeepsIInv
<1>4. CASE UNCHANGED vars
  BY <1>4 DEF vars, IInv, TypeOK, NoStrandedJob, JobIds, Fetching
<1>5. QED
  BY <1>1, <1>2, <1>3, <1>4 DEF Next

\* The printer's state keeps its invariant through every operation.
THEOREM InvariantHolds == Spec => []IInv
BY InitIInv, NextIInv, PTL DEF Spec

\* The printer's variables keep their types: in particular a Send-URI that
\* awaits its document refers to a job that exists, purged or not.
THEOREM TypeCorrect == Spec => []TypeOK
<1>1. IInv => TypeOK
  BY DEF IInv
<1>2. QED
  BY <1>1, InvariantHolds, PTL

\* While the printer is not paused no job of the queue is left PENDING, where
\* nothing would ever run it.
THEOREM NothingStranded == Spec => []NoStrandedJob
<1>1. IInv => NoStrandedJob
  BY DEF IInv
<1>2. QED
  BY <1>1, InvariantHolds, PTL

\* Every run of a job with documents wrote its pages, on every path.
THEOREM RunsArePrinted == Spec => []EveryRunPrinted
<1>1. IInv => EveryRunPrinted
  BY DEF IInv, JobInv, EveryRunPrinted
<1>2. QED
  BY <1>1, InvariantHolds, PTL

\* A job that is open is held, none is found half-way through a run, and the
\* end states mean what they say: the first makes a release harmless, the
\* second lets the next operation run the job.
THEOREM SoundJobs == Spec => []JobsAreSound
<1>1. IInv => JobsAreSound
  BY DEF IInv, JobInv, JobsAreSound
<1>2. QED
  BY <1>1, InvariantHolds, PTL

(***************************************************************************)
(* What one step of the printer does, whatever fetch of a document it      *)
(* resumes from.                                                           *)
(*                                                                         *)
(* First, the printer implements Spool: every operation, and every part of *)
(* one between two awaits, is to a client that watches the states one step *)
(* of the abstract printer, or none.  Two layers: where each method of Job *)
(* takes the state of one job, and what a change of one, several or all    *)
(* jobs is in Spool.                                                       *)
(*                                                                         *)
(* Then what no step does to a job, the action properties of Printer: Kept *)
(* relates a job to what one step makes of it.  Each method of Job is      *)
(* shown to keep it, then each operation, for every job it touches.        *)
(***************************************************************************)


Ready == IF paused THEN "PENDING" ELSE "COMPLETED"

\* What Spool lets the state of one job become in one step.
SpoolStep(from, to) ==
  \/ to = from
  \/ from = "PENDING" /\ to = "PENDING_HELD"
  \/ from = "PENDING_HELD" /\ to \in {Ready, "ABORTED"}
  \/ from \in Terminal /\ to = Ready
  \/ from \in {"PENDING", "PENDING_HELD"} /\ to = "CANCELED"

(***************************************************************************)
(* One job.                                                                *)
(***************************************************************************)
\* What deferring a released job, or running and rendering it, comes to.
LEMMA ReadyState ==
  ASSUME paused \in BOOLEAN, NEW k, Sound(k), k.state = "PENDING",
         NEW after, after = IF paused THEN k ELSE Process(k)
  PROVE  after.state = Ready /\ RenderUnlessPaused(after).state = Ready
BY RunOrDefer, RenderSound DEF Ready, RenderUnlessPaused

\* What leaving a job as it is comes to, pages written or not.
LEMMA StillState ==
  ASSUME NEW j, Sound(j)
  PROVE  RenderUnlessPaused(j).state = j.state
BY SoundIsUnrendered, RenderSound DEF RenderUnlessPaused

LEMMA ReleaseState ==
  ASSUME paused \in BOOLEAN, NEW j, Sound(j)
  PROVE  /\ SpoolStep(j.state, Release(j, paused).state)
         /\ SpoolStep(j.state, RenderUnlessPaused(Release(j, paused)).state)
<1>1. CASE j.state # "PENDING_HELD"
  BY <1>1, StillState DEF Release, SpoolStep
<1>2. CASE j.state = "PENDING_HELD"
  <2> DEFINE k == [j EXCEPT !.state = "PENDING", !.open = FALSE, !.holdUntil = "no-hold"]
  <2>1. [Transition(j, "RELEASE") EXCEPT !.open = FALSE, !.holdUntil = "no-hold"] = k
    BY <1>2, Targets DEF Transition, Sound, JobRecord
  <2>2. Sound(k) /\ k.state = "PENDING"
    BY <1>2, ReleasedSound DEF HoldValues
  <2> HIDE DEF k
  <2>3. Release(j, paused) = IF paused THEN k ELSE Process(k)
    BY <1>2, <2>1 DEF Release
  <2>4. QED
    BY <1>2, <2>2, <2>3, ReadyState DEF SpoolStep
<1>3. QED
  BY <1>1, <1>2

LEMMA RestartState ==
  ASSUME paused \in BOOLEAN, NEW j, Sound(j)
  PROVE  SpoolStep(j.state, RenderUnlessPaused(Restart(j, paused)).state)
<1>0. RestartOk(j) <=> j.state \in Terminal
  BY Table DEF RestartOk, Sound, JobRecord
<1>1. CASE j.state \notin Terminal
  BY <1>0, <1>1, StillState DEF Restart, SpoolStep
<1>2. CASE j.state \in Terminal
  <2> DEFINE k == [j EXCEPT !.state = "PENDING", !.open = FALSE, !.holdUntil = "no-hold"]
  <2>1. [Transition(j, "RESTART") EXCEPT !.open = FALSE, !.holdUntil = "no-hold"] = k
    BY <1>2, Targets DEF Transition, Sound, JobRecord
  <2>2. Sound(k) /\ k.state = "PENDING"
    BY <1>2, RestartedSound
  <2> HIDE DEF k
  <2>3. Restart(j, paused) = IF paused THEN k ELSE Process(k)
    BY <1>0, <1>2, <2>1 DEF Restart
  <2>4. QED
    BY <1>2, <2>2, <2>3, ReadyState DEF SpoolStep
<1>3. QED
  BY <1>1, <1>2

LEMMA CloseState ==
  ASSUME paused \in BOOLEAN, NEW j, Sound(j)
  PROVE  SpoolStep(j.state, RenderUnlessPaused(Close(j, paused)).state)
<1> DEFINE closed == [j EXCEPT !.open = FALSE]
<1>1. CASE ~ j.open
  BY <1>1, StillState DEF Close, SpoolStep
<1>2. ASSUME j.open
      PROVE  /\ j.state = "PENDING_HELD" /\ j.holdUntil \in HoldValues
             /\ closed \in JobRecord /\ closed.state = "PENDING_HELD"
             /\ CanTransition(closed, "ABORT") /\ CanTransition(closed, "RELEASE")
             /\ Transition(closed, "ABORT") = [closed EXCEPT !.state = "ABORTED"]
             /\ Transition(closed, "RELEASE") = [closed EXCEPT !.state = "PENDING"]
  <2>1. j.state = "PENDING_HELD" /\ j.holdUntil \in HoldValues
    BY <1>2 DEF Sound, JobInv, OpenIsHeld, JobRecord
  <2>2. closed \in JobRecord /\ closed.state = "PENDING_HELD"
    BY <2>1 DEF Sound, JobRecord
  <2> HIDE DEF closed
  <2>3. QED
    BY <2>1, <2>2, Table, Targets DEF Transition, JobRecord, JobState, Terminal
<1>3. CASE j.open /\ j.docs = 0
  <2> DEFINE k == [closed EXCEPT !.state = "ABORTED"]
  <2>1. Close(j, paused) = k
    BY <1>2, <1>3 DEF Close, TransitionIfCan
  <2>2. k.state = "ABORTED" /\ k.docs = 0
    BY <1>2, <1>3 DEF Sound, JobRecord
  <2> HIDE DEF k
  <2>3. RenderUnlessPaused(k) = k
    BY <2>2 DEF RenderUnlessPaused, Render
  <2>4. QED
    BY <1>2, <1>3, <2>1, <2>2, <2>3 DEF SpoolStep
<1>4. CASE j.open /\ j.docs # 0
  <2> DEFINE k == [j EXCEPT !.state = "PENDING", !.open = FALSE, !.holdUntil = j.holdUntil]
  <2>1. [closed EXCEPT !.state = "PENDING"] = k
    BY DEF Sound, JobRecord
  <2>2. Sound(k) /\ k.state = "PENDING"
    BY <1>2, <1>4, ReleasedSound
  <2> HIDE DEF k
  <2>3. Close(j, paused) = IF paused THEN k ELSE Process(k)
    BY <1>2, <1>4, <2>1 DEF Close, TransitionIfCan
  <2>4. QED
    BY <1>2, <1>4, <2>2, <2>3, ReadyState DEF SpoolStep
<1>5. QED
  BY <1>1, <1>3, <1>4

LEMMA ReceivedState ==
  ASSUME paused \in BOOLEAN, NEW j, Sound(j), NEW last \in BOOLEAN
  PROVE  SpoolStep(j.state, Received(j, last).state)
BY AddDocumentSound, CloseState DEF Received, SpoolStep

LEMMA HoldState ==
  ASSUME NEW j, Sound(j)
  PROVE  /\ SpoolStep(j.state, Hold(j).state)
         /\ SpoolStep(j.state, RenderUnlessPaused(Hold(j)).state)
<1>1. Hold(j).state = IF j.state = "PENDING" THEN "PENDING_HELD" ELSE j.state
  BY Table, Targets DEF Hold, TransitionIfCan, Transition, Sound, JobRecord
<1>2. RenderUnlessPaused(Hold(j)).state = Hold(j).state
  BY HoldSound, StillState
<1>3. QED
  BY <1>1, <1>2 DEF SpoolStep

LEMMA HoldWithState ==
  ASSUME paused \in BOOLEAN, NEW j, Sound(j), NEW value \in HoldValues
  PROVE  /\ SpoolStep(j.state, HoldWith(j, value, paused).state)
         /\ SpoolStep(j.state, RenderUnlessPaused(HoldWith(j, value, paused)).state)
<1> DEFINE k == [j EXCEPT !.holdUntil = value]
<1>1. k \in JobRecord
  BY DEF Sound, JobRecord
<1>2. /\ k.state = j.state /\ k.open = j.open /\ k.docs = j.docs
      /\ k.runs = j.runs /\ k.printed = j.printed
  BY DEF Sound, JobRecord
<1>3. HoldWith(j, value, paused) = IF HoldUntilHolds(value) THEN Hold(k)
                                   ELSE Release(k, paused)
  BY DEF HoldWith
<1> HIDE DEF k
<1>4. Sound(k)
  BY <1>1, <1>2 DEF Sound, JobInv, OpenIsHeld, NotMidFlight, EndExplained, RunsPrinted
<1>5. QED
  BY <1>2, <1>3, <1>4, HoldState, ReleaseState

LEMMA CancelState ==
  ASSUME NEW j, Sound(j)
  PROVE  Cancel(j).state = IF j.state \in Terminal THEN j.state ELSE "CANCELED"
BY Table, Targets DEF Cancel, CancelOk, Transition, Sound, JobRecord

LEMMA SubmittedState ==
  ASSUME paused \in BOOLEAN, NEW hold \in HoldValues
  PROVE  Submitted(hold).state \in {"PENDING_HELD", Ready}
<1> DEFINE j == NewJob(FALSE, hold)
<1>1. /\ Sound(j)
      /\ j.state = IF HoldUntilHolds(hold) THEN "PENDING_HELD" ELSE "PENDING"
  BY NewJobSound
<1>2. ~ HoldUntilHolds(hold) => Render(Process(j)).state = "COMPLETED"
  BY <1>1, PendingRun
<1>3. QED
  BY <1>1, <1>2 DEF Submitted, Ready

(***************************************************************************)
(* The queue, as Spool sees it.                                            *)
(***************************************************************************)
Watched == <<Status, paused>>

\* The model has no operation that enters a job into heldNewJobIds, so that
\* lifting the hold on new jobs releases none.
SInv == IInv /\ heldNewJobIds = {}

LEMMA SInvFacts ==
  ASSUME SInv
  PROVE  /\ paused \in BOOLEAN
         /\ nextId \in Nat \ {0} /\ nextId <= MaxJobs + 1 /\ MaxJobs \in Nat
         /\ JobIds = 1..(nextId - 1) /\ JobIds \subseteq 1..MaxJobs
         /\ queue \subseteq JobIds
         /\ job = [i \in JobIds |-> job[i]]
         /\ \A i \in JobIds : Sound(job[i]) /\ job[i].state \in Terminal \cup {"PENDING", "PENDING_HELD"}
         /\ \A i \in JobIds : job[i].state \notin {"unborn", "purged"}
<1>1. /\ TypeOK /\ \A i \in JobIds : Sound(job[i])
  BY IInvSound DEF SInv, IInv
<1>2. /\ nextId \in Nat \ {0} /\ nextId <= MaxJobs + 1 /\ MaxJobs \in Nat
  BY <1>1, BoundsAssumption DEF TypeOK
<1>3. JobIds = 1..(nextId - 1) /\ JobIds \subseteq 1..MaxJobs
  BY <1>2 DEF JobIds
<1>4. \A i \in JobIds : job[i].state \in Terminal \cup {"PENDING", "PENDING_HELD"}
  BY <1>1 DEF Sound, JobInv, NotMidFlight, JobRecord, JobState, Terminal
<1>5. \A i \in JobIds : job[i].state \notin {"unborn", "purged"}
  BY <1>4 DEF Terminal
<1>6. QED
  BY <1>1, <1>2, <1>3, <1>4, <1>5 DEF TypeOK

LEMMA StatusOf ==
  ASSUME SInv, NEW i \in 1..MaxJobs
  PROVE  /\ Status[i] = IF i \notin JobIds THEN "unborn"
                        ELSE IF i \notin queue THEN "purged" ELSE job[i].state
         /\ Status = [n \in 1..MaxJobs |-> Status[n]]
<1>1. i >= nextId <=> i \notin JobIds
  BY SInvFacts
<1>2. QED
  BY <1>1 DEF Status

\* A step that creates and purges no job changes the states of queued jobs.
LEMMA StatusAfter ==
  ASSUME SInv, nextId' = nextId, queue' = queue
  PROVE  Status' = [i \in 1..MaxJobs |-> IF i \in queue THEN job'[i].state ELSE Status[i]]
<1>1. \A i \in queue : i \in JobIds /\ ~ (i >= nextId)
  BY SInvFacts
<1>2. QED
  BY <1>1 DEF Status

\* One job of the queue, or a purged one.
LEMMA OneJob ==
  ASSUME SInv, UNCHANGED <<queue, nextId, paused>>, NEW i \in JobIds, NEW k,
         job' = [job EXCEPT ![i] = k], SpoolStep(job[i].state, k.state)
  PROVE  Abstract!Next \/ UNCHANGED Watched
<1> DEFINE from == job[i].state
           to   == k.state
<1>0. i \in 1..MaxJobs /\ queue \subseteq JobIds /\ job = [n \in JobIds |-> job[n]]
  BY SInvFacts
<1>1. job'[i] = k /\ \A n \in queue : n # i => job'[n] = job[n]
  BY <1>0
<1>2. \A n \in queue : Status[n] = job[n].state
  BY <1>0, StatusOf, SInvFacts
<1>3. Status = [n \in 1..MaxJobs |-> Status[n]]
  BY <1>0, StatusOf
<1>4. Status' = [n \in 1..MaxJobs |-> IF n \in queue THEN job'[n].state ELSE Status[n]]
  BY StatusAfter
<1>5. CASE i \notin queue \/ to = from
  <2>1. \A n \in queue : job'[n].state = Status[n]
    BY <1>1, <1>2, <1>5
  <2>2. Status' = Status
    BY <1>3, <1>4, <2>1
  <2>3. QED
    BY <2>2 DEF Watched
<1>6. CASE i \in queue /\ to # from
  <2>1. Status' = [Status EXCEPT ![i] = to]
    BY <1>0, <1>1, <1>2, <1>3, <1>4, <1>6
  <2>2. Status[i] = from
    BY <1>2, <1>6
  <2> HIDE DEF from, to
  <2>3. CASE from = "PENDING" /\ to = "PENDING_HELD"
    <3>1. Abstract!Hold(i)
      BY <2>1, <2>2, <2>3 DEF Abstract!Hold, Abstract!Move
    <3>2. QED
      BY <1>0, <3>1 DEF Abstract!Next
  <2>4. CASE from = "PENDING_HELD" /\ to = Ready
    <3>1. Abstract!Release(i)
      BY <2>1, <2>2, <2>4 DEF Abstract!Release, Abstract!Move, Abstract!Ready, Ready
    <3>2. QED
      BY <1>0, <3>1 DEF Abstract!Next
  <2>5. CASE from = "PENDING_HELD" /\ to = "ABORTED"
    <3>1. Abstract!Abort(i)
      BY <2>1, <2>2, <2>5 DEF Abstract!Abort, Abstract!Move
    <3>2. QED
      BY <1>0, <3>1 DEF Abstract!Next
  <2>6. CASE from \in Terminal /\ to = Ready
    <3>1. Abstract!Restart(i)
      BY <2>1, <2>2, <2>6
      DEF Abstract!Restart, Abstract!Move, Abstract!Ready, Ready, Terminal, Abstract!Finished
    <3>2. QED
      BY <1>0, <3>1 DEF Abstract!Next
  <2>7. CASE from \in {"PENDING", "PENDING_HELD"} /\ to = "CANCELED"
    <3>1. Abstract!Cancel({i})
      BY <1>0, <1>3, <2>1, <2>2, <2>7 DEF Abstract!Cancel, Abstract!Waiting
    <3>2. {i} \in SUBSET (1..MaxJobs)
      BY <1>0
    <3>3. QED
      BY <3>1, <3>2 DEF Abstract!Next
  <2>8. QED
    BY <1>6, <2>3, <2>4, <2>5, <2>6, <2>7 DEF SpoolStep, from, to
<1>7. QED
  BY <1>5, <1>6

\* A new job.
LEMMA NewlySubmitted ==
  ASSUME SInv, NEW j, Enqueue(j), paused' = paused, j.state \in {"PENDING_HELD", Ready}
  PROVE  Abstract!Next
<1>0. /\ nextId \in 1..MaxJobs /\ nextId' = nextId + 1 /\ queue' = queue \cup {nextId}
      /\ queue \subseteq JobIds /\ JobIds = 1..(nextId - 1) /\ nextId \notin JobIds
  BY SInvFacts DEF Enqueue
<1>1. job'[nextId] = j /\ \A i \in JobIds : job'[i] = job[i]
  BY <1>0 DEF Enqueue
<1>2. ASSUME NEW i \in 1..MaxJobs
      PROVE  Status'[i] = IF i = nextId THEN j.state ELSE Status[i]
  <2>1. Status'[i] = IF i >= nextId + 1 THEN "unborn"
                     ELSE IF i \notin queue' THEN "purged" ELSE job'[i].state
    BY <1>0 DEF Status
  <2>2. Status[i] = IF i >= nextId THEN "unborn"
                    ELSE IF i \notin queue THEN "purged" ELSE job[i].state
    BY DEF Status
  <2>3. CASE i = nextId
    BY <1>0, <1>1, <2>1, <2>3
  <2>4. CASE i # nextId
    <3>1. i >= nextId + 1 <=> i >= nextId
      BY <1>0, <2>4
    <3>2. i \in queue' <=> i \in queue
      BY <1>0, <2>4
    <3>3. i \in queue => job'[i] = job[i]
      BY <1>0, <1>1
    <3>4. QED
      BY <2>1, <2>2, <2>4, <3>1, <3>2, <3>3
  <2>5. QED
    BY <2>3, <2>4
<1>3. /\ Status' = [i \in 1..MaxJobs |-> Status'[i]]
      /\ Status = [i \in 1..MaxJobs |-> Status[i]]
  BY DEF Status
<1>4. Status' = [Status EXCEPT ![nextId] = j.state]
  BY <1>0, <1>2, <1>3
<1>5. Status[nextId] = "unborn"
  BY <1>0, StatusOf
<1>6. \A i \in 1..MaxJobs : i < nextId => Status[i] # "unborn"
  BY <1>0, StatusOf, SInvFacts
<1>7. Abstract!Submit(nextId)
  BY <1>4, <1>5, <1>6 DEF Abstract!Submit, Abstract!Move, Abstract!Ready, Ready
<1>8. QED
  BY <1>0, <1>7 DEF Abstract!Next

\* Several jobs, all of the queue.
LEMMA SeveralCanceled ==
  ASSUME SInv, NEW ids \in SUBSET queue, CancelMyJobs(ids)
  PROVE  Abstract!Next
<1> DEFINE active == {i \in ids : job[i].state \notin Terminal}
<1>0. /\ queue \subseteq JobIds /\ JobIds \subseteq 1..MaxJobs
      /\ UNCHANGED <<queue, nextId, paused>>
  BY SInvFacts DEF CancelMyJobs, flagVars
<1>1. \A i \in queue : job'[i] = IF i \in ids THEN Cancel(job[i]) ELSE job[i]
  BY <1>0 DEF CancelMyJobs
<1>2. \A i \in queue : job'[i].state = IF i \in active THEN "CANCELED" ELSE job[i].state
  BY <1>0, <1>1, CancelState, SInvFacts
<1>3. \A i \in queue : Status[i] = job[i].state
  BY <1>0, StatusOf
<1>4. Status' = [i \in 1..MaxJobs |-> IF i \in queue THEN job'[i].state ELSE Status[i]]
  BY <1>0, StatusAfter
<1>5. active \subseteq queue
  OBVIOUS
<1>6. \A i \in active : Status[i] \in Abstract!Waiting
  BY <1>0, <1>3, <1>5, SInvFacts DEF Abstract!Waiting, Terminal
<1> HIDE DEF active
<1>7. Status' = [i \in 1..MaxJobs |-> IF i \in active THEN "CANCELED" ELSE Status[i]]
  BY <1>2, <1>3, <1>4, <1>5
<1>8. Abstract!Cancel(active)
  BY <1>0, <1>6, <1>7 DEF Abstract!Cancel
<1>9. active \in SUBSET (1..MaxJobs)
  BY <1>0, <1>5
<1>10. QED
  BY <1>8, <1>9 DEF Abstract!Next

LEMMA AllPurged ==
  ASSUME SInv, PurgeJobs
  PROVE  Abstract!Next
<1>1. Status' = [i \in 1..MaxJobs |-> IF i >= nextId THEN "unborn" ELSE "purged"]
  BY DEF PurgeJobs, Status
<1>2. \A i \in 1..MaxJobs : Status[i] = "unborn" <=> i >= nextId
  BY StatusOf, SInvFacts
<1>3. Abstract!Purge
  BY <1>1, <1>2 DEF Abstract!Purge, PurgeJobs, flagVars
<1>4. QED
  BY <1>3 DEF Abstract!Next

\* Every pending job of the queue, when the pause is lifted.
LEMMA AllPendingRun ==
  ASSUME SInv, UNCHANGED <<queue, nextId>>, paused' = FALSE, job' = RunPendingJobs(job)
  PROVE  Abstract!Next
<1>0. queue \subseteq JobIds
  BY SInvFacts
<1>1. \A i \in queue : job'[i] = IF job[i].state = "PENDING" THEN Render(Process(job[i])) ELSE job[i]
  BY <1>0 DEF RunPendingJobs
<1>2. \A i \in queue : job'[i].state = IF job[i].state = "PENDING" THEN "COMPLETED" ELSE job[i].state
  BY <1>0, <1>1, PendingRun, SInvFacts
<1>3. /\ \A i \in queue : Status[i] = job[i].state
      /\ \A i \in 1..MaxJobs : i \notin queue => Status[i] # "PENDING"
  BY <1>0, StatusOf, SInvFacts
<1>4. Status' = [i \in 1..MaxJobs |-> IF i \in queue THEN job'[i].state ELSE Status[i]]
  BY StatusAfter
<1>5. Status' = [i \in 1..MaxJobs |-> IF Status[i] = "PENDING" THEN "COMPLETED" ELSE Status[i]]
  BY <1>2, <1>3, <1>4
<1>6. Abstract!Go
  BY <1>5 DEF Abstract!Go
<1>7. QED
  BY <1>6 DEF Abstract!Next

(***************************************************************************)
(* The operations.                                                         *)
(***************************************************************************)
LEMMA NoneReleased ==
  ASSUME SInv
  PROVE  ReleaseNewJobs(job) = job
<1>1. ReleaseNewJobs(job) = [i \in JobIds |-> job[i]]
  BY DEF SInv, ReleaseNewJobs
<1>2. QED
  BY <1>1, SInvFacts

LEMMA Unwatched ==
  ASSUME UNCHANGED <<job, queue, nextId, paused>>
  PROVE  UNCHANGED Watched
BY DEF Watched, Status

LEMMA UpdateImplementsSpool ==
  ASSUME SInv, NEW i \in queue, NEW k, SpoolStep(job[i].state, k.state), Update(i, k)
  PROVE  Abstract!Next \/ UNCHANGED Watched
BY OneJob, SInvFacts DEF Update, flagVars

LEMMA JobOperationImplementsSpool ==
  ASSUME SInv, JobOperation
  PROVE  Abstract!Next \/ UNCHANGED Watched
<1>0. paused \in BOOLEAN /\ \A i \in queue : i \in JobIds /\ Sound(job[i])
  BY SInvFacts
<1>1. ASSUME NEW hold \in HoldValues, PrintJob(hold)
      PROVE  Abstract!Next
  BY <1>0, <1>1, SubmittedState, NewlySubmitted DEF PrintJob, flagVars
<1>2. ASSUME NEW hold \in HoldValues, CreateJob(hold)
      PROVE  Abstract!Next
  <2>1. NewJob(TRUE, hold).state = "PENDING_HELD"
    BY NewJobSound
  <2>2. QED
    BY <1>2, <2>1, NewlySubmitted DEF CreateJob, flagVars
<1>3. ASSUME NEW i \in queue, NEW last \in BOOLEAN, SendDocument(i, last)
      PROVE  Abstract!Next \/ UNCHANGED Watched
  BY <1>0, <1>3, ReceivedState, UpdateImplementsSpool DEF SendDocument
<1>4. ASSUME NEW i \in queue, NEW hold \in HoldValues, HoldJob(i, hold)
      PROVE  Abstract!Next \/ UNCHANGED Watched
  <2> DEFINE held == IF hold = "none" THEN Hold(job[i]) ELSE HoldWith(job[i], hold, paused)
  <2>1. /\ SpoolStep(job[i].state, held.state)
        /\ SpoolStep(job[i].state, RenderUnlessPaused(held).state)
    BY <1>0, HoldState, HoldWithState
  <2>2. Update(i, held) \/ Update(i, RenderUnlessPaused(held))
    BY <1>4 DEF HoldJob
  <2> HIDE DEF held
  <2>3. QED
    BY <2>1, <2>2, UpdateImplementsSpool
<1>5. ASSUME NEW i \in queue, NEW hold \in HoldValues, SetJobAttributes(i, hold)
      PROVE  Abstract!Next \/ UNCHANGED Watched
  <2> DEFINE set == HoldWith(job[i], hold, paused)
  <2>1. /\ SpoolStep(job[i].state, set.state)
        /\ SpoolStep(job[i].state, RenderUnlessPaused(set).state)
    BY <1>0, HoldWithState
  <2>2. Update(i, set) \/ Update(i, RenderUnlessPaused(set))
    BY <1>5 DEF SetJobAttributes
  <2> HIDE DEF set
  <2>3. QED
    BY <2>1, <2>2, UpdateImplementsSpool
<1>6. ASSUME NEW i \in queue, CloseJob(i)
      PROVE  Abstract!Next \/ UNCHANGED Watched
  BY <1>0, <1>6, CloseState, UpdateImplementsSpool DEF CloseJob
<1>7. ASSUME NEW i \in queue, ReleaseJob(i)
      PROVE  Abstract!Next \/ UNCHANGED Watched
  BY <1>0, <1>7, ReleaseState, UpdateImplementsSpool DEF ReleaseJob
<1>8. ASSUME NEW i \in queue, RestartJob(i)
      PROVE  Abstract!Next \/ UNCHANGED Watched
  BY <1>0, <1>8, RestartState, UpdateImplementsSpool DEF RestartJob
<1>9. ASSUME NEW i \in queue, CancelJob(i)
      PROVE  Abstract!Next \/ UNCHANGED Watched
  <2>1. SpoolStep(job[i].state, Cancel(job[i]).state)
    BY <1>0, CancelState, SInvFacts DEF SpoolStep, Terminal
  <2>2. QED
    BY <1>9, <2>1, UpdateImplementsSpool DEF CancelJob
<1>10. QED
  BY <1>1, <1>2, <1>3, <1>4, <1>5, <1>6, <1>7, <1>8, <1>9, SeveralCanceled, AllPurged
  DEF JobOperation, SetOperation, OtherJobOperation

LEMMA PrinterOperationImplementsSpool ==
  ASSUME SInv, PrinterOperation
  PROVE  Abstract!Next \/ UNCHANGED Watched
<1>1. CASE PausePrinter
  <2>1. Status' = Status
    BY <1>1 DEF PausePrinter, jobVars, Status
  <2>2. Abstract!Stop
    BY <1>1, <2>1 DEF PausePrinter, Abstract!Stop
  <2>3. QED
    BY <2>2 DEF Abstract!Next
<1>2. CASE ResumePrinter
  BY <1>2, AllPendingRun DEF ResumePrinter
<1>3. CASE RestartPrinter
  BY <1>3, AllPendingRun, NoneReleased DEF RestartPrinter
<1>4. CASE EnablePrinter \/ DisablePrinter \/ HoldNewJobs
  BY <1>4, Unwatched DEF EnablePrinter, DisablePrinter, HoldNewJobs, jobVars
<1>5. CASE ReleaseHeldNewJobs
  BY <1>5, NoneReleased, Unwatched DEF ReleaseHeldNewJobs
<1>6. QED
  BY <1>1, <1>2, <1>3, <1>4, <1>5 DEF PrinterOperation

LEMMA UriImplementsSpool ==
  ASSUME SInv, NEW s \in Slots, BeginUri(s) \/ EndUri(s)
  PROVE  Abstract!Next \/ UNCHANGED Watched
<1>0. /\ paused \in BOOLEAN
      /\ request[s].holdUntil \in HoldValues /\ request[s].last \in BOOLEAN
      /\ request[s].op = "Send-URI" => request[s].job \in JobIds
      /\ \A i \in JobIds : Sound(job[i])
  BY SInvFacts DEF SInv, IInv, TypeOK, Request
<1>1. CASE BeginUri(s) \/ RefuseUri(s)
  BY <1>1, Unwatched
  DEF BeginUri, BeginPrintUri, BeginSendUri, Await, RefuseUri, jobVars, flagVars
<1>2. CASE FinishPrintUri(s)
  BY <1>0, <1>2, SubmittedState, NewlySubmitted DEF FinishPrintUri, flagVars
<1>3. CASE FinishSendUri(s)
  <2> DEFINE i == request[s].job
             k == Received(job[i], request[s].last)
  <2>1. i \in JobIds /\ SpoolStep(job[i].state, k.state)
    BY <1>0, <1>3, ReceivedState DEF FinishSendUri
  <2>2. job' = [job EXCEPT ![i] = k] /\ UNCHANGED <<queue, nextId, paused>>
    BY <1>3 DEF FinishSendUri, flagVars
  <2> HIDE DEF i, k
  <2>3. QED
    BY <2>1, <2>2, OneJob
<1>4. QED
  BY <1>1, <1>2, <1>3 DEF EndUri

LEMMA NextSInv == SInv /\ [Next]_vars => SInv'
<1> SUFFICES ASSUME SInv, [Next]_vars
             PROVE  SInv'
  OBVIOUS
<1>1. IInv'
  BY NextIInv DEF SInv
<1>2. heldNewJobIds' = {}
  BY DEF SInv, vars, Next, JobOperation, SetOperation, OtherJobOperation, PrinterOperation, BeginUri, EndUri, flagVars,
     PrintJob, CreateJob, SendDocument, HoldJob, SetJobAttributes, CloseJob, ReleaseJob,
     RestartJob, CancelJob, CancelMyJobs, PurgeJobs, Update, Await, BeginPrintUri,
     BeginSendUri, FinishPrintUri, FinishSendUri, RefuseUri, PausePrinter, ResumePrinter,
     RestartPrinter, EnablePrinter, DisablePrinter, HoldNewJobs, ReleaseHeldNewJobs
<1>3. QED
  BY <1>1, <1>2 DEF SInv

LEMMA StepImplementsSpool == SInv /\ [Next]_vars => [Abstract!Next]_Watched
<1> SUFFICES ASSUME SInv, [Next]_vars
             PROVE  Abstract!Next \/ UNCHANGED Watched
  OBVIOUS
<1>1. CASE UNCHANGED vars
  BY <1>1, Unwatched DEF vars
<1>2. QED
  BY <1>1, JobOperationImplementsSpool, PrinterOperationImplementsSpool, UriImplementsSpool
  DEF Next

\* Whatever clients do with open jobs, holds and document fetches, one that
\* watches only job-state and printer-state sees the printer of Spool: jobs are
\* born in order, run when nothing holds them, never come back from a purge.
THEOREM PrinterImplementsSpool == Spec => ImplementsSpool
<1>1. Init => SInv
  BY InitIInv DEF SInv, Init
<1>2. Init => Abstract!Init
  BY BoundsAssumption DEF Init, Abstract!Init, Status
<1>3. QED
  BY <1>1, <1>2, NextSInv, StepImplementsSpool, PTL
  DEF Spec, ImplementsSpool, Abstract!Spec, Watched

(***************************************************************************)
(* What no step does to a job.                                             *)
(***************************************************************************)

\* No page is written and no run made.
Still(j, k) == k.runs = j.runs /\ k.printed = j.printed

\* Pages are written for runs made, the present one the last.
PrintedInTime(j) == j.printed \subseteq 0..j.runs

\* A job completes by running, and runs are only ever added.
Counted(j, k) ==
  /\ k.runs >= j.runs
  /\ k.state = "COMPLETED" => j.state = "COMPLETED" \/ k.runs > j.runs
  /\ PrintedInTime(j) => PrintedInTime(k)

Kept(j, k) ==
  /\ Counted(j, k)
  /\ ~ j.open => ~ k.open /\ k.docs = j.docs
  /\ ~ j.open /\ j.state = "PENDING_HELD" /\ k.runs > j.runs
       => ~ HoldUntilHolds(k.holdUntil)

KeptStill(j, k) == Kept(j, k) /\ (paused => Still(j, k))

(***************************************************************************)
(* One job.                                                                *)
(***************************************************************************)
\* Writing the pages changes nothing but the record of what is printed.
LEMMA RenderKeeps ==
  ASSUME NEW j \in JobRecord
  PROVE  /\ Render(j).open = j.open /\ Render(j).docs = j.docs
         /\ Render(j).runs = j.runs /\ Render(j).holdUntil = j.holdUntil
         /\ Render(j).state = j.state
         /\ PrintedInTime(j) => PrintedInTime(Render(j))
<1>1. CASE j.docs = 0
  BY <1>1 DEF Render
<1>2. CASE j.docs # 0
  <2>1. Render(j).printed = j.printed \cup {j.runs} /\ Render(j).runs = j.runs
    BY <1>2 DEF Render, JobRecord
  <2>2. j.runs \in 0..j.runs
    BY DEF JobRecord
  <2>3. QED
    BY <1>2, <2>1, <2>2 DEF Render, JobRecord, PrintedInTime
<1>3. QED
  BY <1>1, <1>2

LEMMA StillCounted ==
  ASSUME NEW j \in JobRecord, NEW k, Still(j, k),
         k.state = "COMPLETED" => j.state = "COMPLETED"
  PROVE  Counted(j, k)
BY DEF Counted, PrintedInTime, Still, JobRecord

LEMMA RenderCounted ==
  ASSUME NEW j, NEW k \in JobRecord, Counted(j, k)
  PROVE  Counted(j, Render(k))
BY RenderKeeps DEF Counted

LEMMA ProcessCounted ==
  ASSUME NEW j, NEW k \in JobRecord, j.runs = k.runs, j.printed = k.printed,
         NEW after, after = [k EXCEPT !.state = "COMPLETED", !.runs = @ + 1]
  PROVE  Counted(j, after)
<1>1. k.runs \in Nat /\ after.runs = k.runs + 1 /\ after.printed = k.printed
  BY DEF JobRecord
<1>2. 0..k.runs \subseteq 0..(k.runs + 1)
  BY <1>1
<1>3. QED
  BY <1>1, <1>2 DEF Counted, PrintedInTime

\* A job that is left as it is, its pages written or not.
LEMMA LeftKept ==
  ASSUME paused \in BOOLEAN, NEW j, Sound(j)
  PROVE  KeptStill(j, j) /\ KeptStill(j, RenderUnlessPaused(j))
<1>1. j \in JobRecord /\ j.runs \in Nat
  BY DEF Sound, JobRecord
<1>2. KeptStill(j, j)
  BY <1>1, StillCounted DEF KeptStill, Kept, Still
<1>3. KeptStill(j, RenderUnlessPaused(j))
  BY <1>1, <1>2, RenderKeeps, RenderCounted DEF RenderUnlessPaused, KeptStill, Kept, Still
<1>4. QED
  BY <1>2, <1>3

\* A job that was closed and made PENDING, and is then deferred or run.
LEMMA ReadyKept ==
  ASSUME paused \in BOOLEAN, NEW j, NEW k, Sound(k), k.state = "PENDING", ~ k.open,
         j \in JobRecord, k.docs = j.docs, Still(j, k),
         ~ j.open /\ j.state = "PENDING_HELD" => ~ HoldUntilHolds(k.holdUntil),
         NEW after, after = IF paused THEN k ELSE Process(k)
  PROVE  KeptStill(j, after) /\ KeptStill(j, RenderUnlessPaused(after))
<1>0. j.runs \in Nat /\ k \in JobRecord
  BY DEF JobRecord, Sound
<1>1. CASE paused
  BY <1>0, <1>1, StillCounted DEF RenderUnlessPaused, KeptStill, Kept, Still
<1>2. CASE ~ paused
  <2>1. after = [k EXCEPT !.state = "COMPLETED", !.runs = @ + 1] /\ after \in JobRecord
    BY <1>2, ProcessRuns DEF Unrendered
  <2>2. after.open = k.open /\ after.docs = k.docs /\ after.holdUntil = k.holdUntil
    BY <2>1 DEF Sound, JobRecord
  <2>0. Counted(j, after) /\ Counted(j, Render(after))
    BY <1>0, <2>1, ProcessCounted, RenderCounted DEF Still
  <2>3. Kept(j, after)
    BY <2>0, <2>2 DEF Kept
  <2>4. Kept(j, Render(after))
    BY <2>0, <2>1, <2>2, RenderKeeps DEF Kept
  <2>5. QED
    BY <1>2, <2>3, <2>4 DEF KeptStill, RenderUnlessPaused
<1>3. QED
  BY <1>1, <1>2

LEMMA ReleaseKept ==
  ASSUME paused \in BOOLEAN, NEW j, Sound(j)
  PROVE  /\ KeptStill(j, Release(j, paused))
         /\ KeptStill(j, RenderUnlessPaused(Release(j, paused)))
<1>1. CASE j.state # "PENDING_HELD"
  BY <1>1, LeftKept DEF Release
<1>2. CASE j.state = "PENDING_HELD"
  <2> DEFINE k == [j EXCEPT !.state = "PENDING", !.open = FALSE, !.holdUntil = "no-hold"]
  <2>1. [Transition(j, "RELEASE") EXCEPT !.open = FALSE, !.holdUntil = "no-hold"] = k
    BY <1>2, Targets DEF Transition, Sound, JobRecord
  <2>2. Sound(k) /\ k.state = "PENDING"
    BY <1>2, ReleasedSound DEF HoldValues
  <2>3. ~ k.open /\ k.docs = j.docs /\ Still(j, k) /\ ~ HoldUntilHolds(k.holdUntil)
    BY DEF Sound, JobRecord, Still, HoldUntilHolds
  <2> HIDE DEF k
  <2>4. Release(j, paused) = IF paused THEN k ELSE Process(k)
    BY <1>2, <2>1 DEF Release
  <2>5. QED
    BY <2>2, <2>3, <2>4, ReadyKept DEF Sound
<1>3. QED
  BY <1>1, <1>2

LEMMA RestartKept ==
  ASSUME paused \in BOOLEAN, NEW j, Sound(j)
  PROVE  KeptStill(j, RenderUnlessPaused(Restart(j, paused)))
<1>0. RestartOk(j) <=> j.state \in Terminal
  BY Table DEF RestartOk, Sound, JobRecord
<1>1. CASE j.state \notin Terminal
  BY <1>0, <1>1, LeftKept DEF Restart
<1>2. CASE j.state \in Terminal
  <2> DEFINE k == [j EXCEPT !.state = "PENDING", !.open = FALSE, !.holdUntil = "no-hold"]
  <2>1. [Transition(j, "RESTART") EXCEPT !.open = FALSE, !.holdUntil = "no-hold"] = k
    BY <1>2, Targets DEF Transition, Sound, JobRecord
  <2>2. Sound(k) /\ k.state = "PENDING"
    BY <1>2, RestartedSound
  <2>3. ~ k.open /\ k.docs = j.docs /\ Still(j, k)
    BY DEF Sound, JobRecord, Still
  <2> HIDE DEF k
  <2>4. Restart(j, paused) = IF paused THEN k ELSE Process(k)
    BY <1>0, <1>2, <2>1 DEF Restart
  <2>5. j.state # "PENDING_HELD"
    BY <1>2 DEF Terminal
  <2>6. QED
    BY <2>2, <2>3, <2>4, <2>5, ReadyKept DEF Sound
<1>3. QED
  BY <1>1, <1>2

LEMMA CloseKept ==
  ASSUME paused \in BOOLEAN, NEW j, Sound(j)
  PROVE  KeptStill(j, RenderUnlessPaused(Close(j, paused)))
<1> DEFINE closed == [j EXCEPT !.open = FALSE]
<1>1. CASE ~ j.open
  BY <1>1, LeftKept DEF Close
<1>2. ASSUME j.open
      PROVE  /\ j.state = "PENDING_HELD" /\ j.holdUntil \in HoldValues
             /\ closed \in JobRecord /\ closed.state = "PENDING_HELD"
             /\ CanTransition(closed, "ABORT") /\ CanTransition(closed, "RELEASE")
             /\ Transition(closed, "ABORT") = [closed EXCEPT !.state = "ABORTED"]
             /\ Transition(closed, "RELEASE") = [closed EXCEPT !.state = "PENDING"]
  <2>1. j.state = "PENDING_HELD" /\ j.holdUntil \in HoldValues
    BY <1>2 DEF Sound, JobInv, OpenIsHeld, JobRecord
  <2>2. closed \in JobRecord /\ closed.state = "PENDING_HELD"
    BY <2>1 DEF Sound, JobRecord
  <2> HIDE DEF closed
  <2>3. QED
    BY <2>1, <2>2, Table, Targets DEF Transition, JobRecord, JobState, Terminal
<1>3. CASE j.open /\ j.docs = 0
  <2> DEFINE k == [closed EXCEPT !.state = "ABORTED"]
  <2>1. Close(j, paused) = k
    BY <1>2, <1>3 DEF Close, TransitionIfCan
  <2>2. k.docs = 0 /\ Still(j, k) /\ k.state = "ABORTED" /\ j \in JobRecord
    BY <1>3 DEF Sound, JobRecord, Still
  <2> HIDE DEF k
  <2>3. Counted(j, k)
    BY <2>2, StillCounted
  <2>4. RenderUnlessPaused(k) = k
    BY <2>2 DEF RenderUnlessPaused, Render
  <2>5. QED
    BY <1>3, <2>1, <2>2, <2>3, <2>4 DEF KeptStill, Kept
<1>4. CASE j.open /\ j.docs # 0
  <2> DEFINE k == [j EXCEPT !.state = "PENDING", !.open = FALSE, !.holdUntil = j.holdUntil]
  <2>1. [closed EXCEPT !.state = "PENDING"] = k
    BY DEF Sound, JobRecord
  <2>2. Sound(k) /\ k.state = "PENDING"
    BY <1>2, <1>4, ReleasedSound
  <2>3. ~ k.open /\ k.docs = j.docs /\ Still(j, k)
    BY DEF Sound, JobRecord, Still
  <2> HIDE DEF k
  <2>4. Close(j, paused) = IF paused THEN k ELSE Process(k)
    BY <1>2, <1>4, <2>1 DEF Close, TransitionIfCan
  <2>5. QED
    BY <1>4, <2>2, <2>3, <2>4, ReadyKept DEF Sound
<1>5. QED
  BY <1>1, <1>3, <1>4

LEMMA ReceivedKept ==
  ASSUME paused \in BOOLEAN, NEW j, Sound(j), NEW last \in BOOLEAN
  PROVE  KeptStill(j, Received(j, last))
<1> DEFINE k == AddDocument(j)
<1>1. /\ Sound(k) /\ k.open = j.open /\ k.state = j.state /\ Still(j, k)
      /\ ~ j.open => k = j
  BY AddDocumentSound DEF AddDocument, Still, Sound, JobRecord
<1>2. KeptStill(k, RenderUnlessPaused(Close(k, paused))) /\ KeptStill(k, k)
  BY <1>1, CloseKept, LeftKept
<1>3. Received(j, last) = IF last THEN RenderUnlessPaused(Close(k, paused)) ELSE k
  BY DEF Received
<1> HIDE DEF k
<1>4. QED
  BY <1>1, <1>2, <1>3 DEF KeptStill, Kept, Counted, PrintedInTime, Still

LEMMA HoldKept ==
  ASSUME paused \in BOOLEAN, NEW j, Sound(j)
  PROVE  /\ KeptStill(j, Hold(j))
         /\ KeptStill(j, RenderUnlessPaused(Hold(j)))
<1>1. Hold(j) \in JobRecord
  BY HoldSound DEF Sound
<1>2. Hold(j).open = j.open /\ Hold(j).docs = j.docs /\ Still(j, Hold(j))
  BY DEF Hold, TransitionIfCan, Transition, Sound, JobRecord, Still
<1>3. j.runs \in Nat
  BY DEF Sound, JobRecord
<1>4. Hold(j).state \in {j.state, "PENDING_HELD"}
  BY Table, Targets DEF Hold, TransitionIfCan, Transition, Sound, JobRecord
<1>5. Counted(j, Hold(j)) /\ Counted(j, Render(Hold(j)))
  BY <1>1, <1>2, <1>4, StillCounted, RenderCounted DEF Sound
<1>6. QED
  BY <1>1, <1>2, <1>3, <1>5, RenderKeeps DEF RenderUnlessPaused, KeptStill, Kept, Still

LEMMA HoldWithKept ==
  ASSUME paused \in BOOLEAN, NEW j, Sound(j), NEW value \in HoldValues
  PROVE  /\ KeptStill(j, HoldWith(j, value, paused))
         /\ KeptStill(j, RenderUnlessPaused(HoldWith(j, value, paused)))
<1> DEFINE k == [j EXCEPT !.holdUntil = value]
<1>1. k \in JobRecord
  BY DEF Sound, JobRecord
<1>2. /\ k.state = j.state /\ k.open = j.open /\ k.docs = j.docs
      /\ k.runs = j.runs /\ k.printed = j.printed
  BY DEF Sound, JobRecord
<1>3. HoldWith(j, value, paused) = IF HoldUntilHolds(value) THEN Hold(k)
                                   ELSE Release(k, paused)
  BY DEF HoldWith
<1> HIDE DEF k
<1>4. Sound(k)
  BY <1>1, <1>2 DEF Sound, JobInv, OpenIsHeld, NotMidFlight, EndExplained, RunsPrinted
<1>5. ASSUME NEW after, KeptStill(k, after)
      PROVE  KeptStill(j, after)
  BY <1>2, <1>5 DEF KeptStill, Kept, Counted, PrintedInTime, Still
<1>6. QED
  BY <1>3, <1>4, <1>5, HoldKept, ReleaseKept

LEMMA CancelKept ==
  ASSUME NEW j, Sound(j)
  PROVE  KeptStill(j, Cancel(j))
<1>1. j.runs \in Nat
  BY DEF Sound, JobRecord
<1>2. Cancel(j).docs = j.docs /\ Still(j, Cancel(j)) /\ (~ j.open => ~ Cancel(j).open)
  BY DEF Cancel, Transition, Sound, JobRecord, Still
<1>3. Cancel(j).state \in {j.state, "CANCELED"}
  BY Table, Targets DEF Cancel, CancelOk, Transition, Sound, JobRecord
<1>4. Counted(j, Cancel(j))
  BY <1>2, <1>3, StillCounted DEF Sound
<1>5. QED
  BY <1>1, <1>2, <1>4 DEF KeptStill, Kept, Still

\* Running what waits ends no hold: a job that waits is not held.
LEMMA RunKept ==
  ASSUME NEW j, Sound(j), j.state = "PENDING"
  PROVE  Kept(j, Render(Process(j)))
<1>1. Process(j) = [j EXCEPT !.state = "COMPLETED", !.runs = @ + 1] /\ Process(j) \in JobRecord
  BY ProcessRuns DEF Unrendered
<1>2. Process(j).open = j.open /\ Process(j).docs = j.docs
  BY <1>1 DEF Sound, JobRecord
<1>3. Counted(j, Render(Process(j)))
  BY <1>1, ProcessCounted, RenderCounted DEF Sound
<1>4. QED
  BY <1>1, <1>2, <1>3, RenderKeeps DEF Kept

\* A late document finds its job ended: nothing of it moves.
LEMMA LateKept ==
  ASSUME NEW j, Sound(j), j.state \in Terminal, NEW last \in BOOLEAN
  PROVE  Received(j, last).state = j.state /\ Received(j, last).runs = j.runs
<1>1. ~ j.open /\ j \in JobRecord
  BY DEF Sound, JobInv, OpenIsHeld, Terminal
<1>2. AddDocument(j) = j /\ Close(j, paused) = j
  BY <1>1 DEF AddDocument, Close
<1>3. QED
  BY <1>1, <1>2, RenderKeeps DEF Received, RenderUnlessPaused

(***************************************************************************)
(* What a step does to all jobs.                                           *)
(***************************************************************************)
StepKept ==
  /\ \A i \in JobIds : i \in JobIds' /\ Kept(job[i], job'[i])
  /\ \A i \in JobIds' \ JobIds : PrintedInTime(job'[i])
  /\ paused /\ paused' =>
       /\ \A i \in JobIds : Still(job[i], job'[i])
       /\ \A i \in JobIds' \ JobIds : job'[i].runs = 0 /\ job'[i].printed = {}

LEMMA UntouchedKept ==
  ASSUME SInv, UNCHANGED <<job, nextId>>
  PROVE  StepKept
<1>1. JobIds' = JobIds
  BY DEF JobIds
<1>2. \A i \in JobIds : KeptStill(job[i], job[i])
  BY LeftKept, SInvFacts
<1>3. QED
  BY <1>1, <1>2 DEF StepKept, KeptStill

\* One job, in the queue or purged from it.
LEMMA OneKept ==
  ASSUME SInv, UNCHANGED <<nextId, paused>>, NEW i \in JobIds, NEW k,
         job' = [job EXCEPT ![i] = k], KeptStill(job[i], k)
  PROVE  StepKept
<1>1. JobIds' = JobIds
  BY DEF JobIds
<1>2. \A n \in JobIds : KeptStill(job[n], job[n])
  BY LeftKept, SInvFacts
<1>3. \A n \in JobIds : job'[n] = IF n = i THEN k ELSE job[n]
  BY SInvFacts
<1>4. QED
  BY <1>1, <1>2, <1>3 DEF StepKept, KeptStill

LEMMA UpdateKept ==
  ASSUME SInv, NEW i \in queue, NEW k, KeptStill(job[i], k), Update(i, k)
  PROVE  StepKept
BY OneKept, SInvFacts DEF Update, flagVars

LEMMA EnqueueKept ==
  ASSUME SInv, NEW j, Enqueue(j), paused' = paused,
         PrintedInTime(j), paused => j.runs = 0 /\ j.printed = {}
  PROVE  StepKept
<1>1. JobIds' = 1..nextId /\ 1..nextId = JobIds \cup {nextId} /\ nextId \notin JobIds
  BY SInvFacts DEF Enqueue, JobIds
<1>2. \A i \in JobIds' : job'[i] = IF i = nextId THEN j ELSE job[i]
  BY <1>1 DEF Enqueue
<1>3. \A n \in JobIds : KeptStill(job[n], job[n])
  BY LeftKept, SInvFacts
<1>4. QED
  BY <1>1, <1>2, <1>3 DEF StepKept, KeptStill

LEMMA RunPendingKept ==
  ASSUME SInv, UNCHANGED nextId, paused' = FALSE, job' = RunPendingJobs(job)
  PROVE  StepKept
<1>1. JobIds' = JobIds
  BY DEF JobIds
<1>2. ASSUME NEW i \in JobIds
      PROVE  Kept(job[i], job'[i])
  <2>1. job'[i] = IF i \in queue /\ job[i].state = "PENDING"
                  THEN Render(Process(job[i])) ELSE job[i]
    BY DEF RunPendingJobs
  <2>2. QED
    BY <2>1, RunKept, LeftKept, SInvFacts DEF KeptStill
<1>3. QED
  BY <1>1, <1>2 DEF StepKept

(***************************************************************************)
(* The operations.                                                         *)
(***************************************************************************)
LEMMA NewJobUnprinted ==
  ASSUME NEW open, NEW hold
  PROVE  /\ NewJob(open, hold).runs = 0 /\ NewJob(open, hold).printed = {}
         /\ PrintedInTime(NewJob(open, hold))
BY DEF NewJob, PrintedInTime

LEMMA SubmittedUnprinted ==
  ASSUME NEW hold \in HoldValues
  PROVE  /\ paused => Submitted(hold).runs = 0 /\ Submitted(hold).printed = {}
         /\ PrintedInTime(Submitted(hold))
<1> DEFINE j == NewJob(FALSE, hold)
<1>1. Sound(j) /\ j.state = IF HoldUntilHolds(hold) THEN "PENDING_HELD" ELSE "PENDING"
  BY NewJobSound
<1>2. j.runs = 0 /\ j.printed = {} /\ PrintedInTime(j)
  BY NewJobUnprinted
<1>3. Submitted(hold) = IF HoldUntilHolds(hold) \/ paused THEN j ELSE Render(Process(j))
  BY DEF Submitted
<1> HIDE DEF j
<1>4. ~ HoldUntilHolds(hold) => PrintedInTime(Render(Process(j)))
  BY <1>1, <1>2, RunKept DEF Kept, Counted
<1>5. QED
  BY <1>2, <1>3, <1>4

LEMMA JobOperationKept ==
  ASSUME SInv, JobOperation
  PROVE  StepKept
<1>0. paused \in BOOLEAN /\ \A i \in queue : i \in JobIds /\ Sound(job[i])
  BY SInvFacts
<1>1. ASSUME NEW hold \in HoldValues, PrintJob(hold)
      PROVE  StepKept
  BY <1>1, SubmittedUnprinted, EnqueueKept DEF PrintJob, flagVars
<1>2. ASSUME NEW hold \in HoldValues, CreateJob(hold)
      PROVE  StepKept
  BY <1>2, NewJobUnprinted, EnqueueKept DEF CreateJob, flagVars
<1>3. ASSUME NEW i \in queue, NEW last \in BOOLEAN, SendDocument(i, last)
      PROVE  StepKept
  BY <1>0, <1>3, ReceivedKept, UpdateKept DEF SendDocument
<1>4. ASSUME NEW i \in queue, NEW hold \in HoldValues, HoldJob(i, hold)
      PROVE  StepKept
  <2> DEFINE held == IF hold = "none" THEN Hold(job[i]) ELSE HoldWith(job[i], hold, paused)
  <2>1. KeptStill(job[i], held) /\ KeptStill(job[i], RenderUnlessPaused(held))
    BY <1>0, HoldKept, HoldWithKept
  <2>2. Update(i, held) \/ Update(i, RenderUnlessPaused(held))
    BY <1>4 DEF HoldJob
  <2> HIDE DEF held
  <2>3. QED
    BY <2>1, <2>2, UpdateKept
<1>5. ASSUME NEW i \in queue, NEW hold \in HoldValues, SetJobAttributes(i, hold)
      PROVE  StepKept
  <2> DEFINE set == HoldWith(job[i], hold, paused)
  <2>1. KeptStill(job[i], set) /\ KeptStill(job[i], RenderUnlessPaused(set))
    BY <1>0, HoldWithKept
  <2>2. Update(i, set) \/ Update(i, RenderUnlessPaused(set))
    BY <1>5 DEF SetJobAttributes
  <2> HIDE DEF set
  <2>3. QED
    BY <2>1, <2>2, UpdateKept
<1>6. ASSUME NEW i \in queue, CloseJob(i)
      PROVE  StepKept
  BY <1>0, <1>6, CloseKept, UpdateKept DEF CloseJob
<1>7. ASSUME NEW i \in queue, ReleaseJob(i)
      PROVE  StepKept
  BY <1>0, <1>7, ReleaseKept, UpdateKept DEF ReleaseJob
<1>8. ASSUME NEW i \in queue, RestartJob(i)
      PROVE  StepKept
  BY <1>0, <1>8, RestartKept, UpdateKept DEF RestartJob
<1>9. ASSUME NEW i \in queue, CancelJob(i)
      PROVE  StepKept
  BY <1>0, <1>9, CancelKept, UpdateKept DEF CancelJob
<1>10. ASSUME NEW ids \in SUBSET queue, CancelMyJobs(ids)
       PROVE  StepKept
  <2>1. JobIds' = JobIds
    BY <1>10 DEF CancelMyJobs, JobIds
  <2>2. \A i \in JobIds : job'[i] = IF i \in ids THEN Cancel(job[i]) ELSE job[i]
    BY <1>10 DEF CancelMyJobs
  <2>3. \A i \in JobIds : KeptStill(job[i], job'[i])
    BY <1>0, <2>2, CancelKept, LeftKept, SInvFacts
  <2>4. QED
    BY <2>1, <2>3 DEF StepKept, KeptStill
<1>11. CASE PurgeJobs
  BY <1>11, UntouchedKept DEF PurgeJobs
<1>12. QED
  BY <1>1, <1>2, <1>3, <1>4, <1>5, <1>6, <1>7, <1>8, <1>9, <1>10, <1>11
  DEF JobOperation, SetOperation, OtherJobOperation

LEMMA PrinterOperationKept ==
  ASSUME SInv, PrinterOperation
  PROVE  StepKept
<1>1. CASE ResumePrinter
  BY <1>1, RunPendingKept DEF ResumePrinter
<1>2. CASE RestartPrinter
  BY <1>2, RunPendingKept, NoneReleased DEF RestartPrinter
<1>3. CASE ReleaseHeldNewJobs
  BY <1>3, NoneReleased, UntouchedKept DEF ReleaseHeldNewJobs
<1>4. CASE PausePrinter \/ EnablePrinter \/ DisablePrinter \/ HoldNewJobs
  BY <1>4, UntouchedKept DEF PausePrinter, EnablePrinter, DisablePrinter, HoldNewJobs, jobVars
<1>5. QED
  BY <1>1, <1>2, <1>3, <1>4 DEF PrinterOperation

LEMMA UriKept ==
  ASSUME SInv, NEW s \in Slots, BeginUri(s) \/ EndUri(s)
  PROVE  StepKept
<1>0. /\ paused \in BOOLEAN /\ request[s].last \in BOOLEAN
      /\ request[s].holdUntil \in HoldValues
      /\ request[s].op = "Send-URI" => request[s].job \in JobIds
      /\ \A i \in JobIds : Sound(job[i])
  BY SInvFacts DEF SInv, IInv, TypeOK, Request
<1>1. CASE BeginUri(s) \/ RefuseUri(s)
  BY <1>1, UntouchedKept
  DEF BeginUri, BeginPrintUri, BeginSendUri, Await, RefuseUri, jobVars
<1>2. CASE FinishPrintUri(s)
  BY <1>0, <1>2, SubmittedUnprinted, EnqueueKept DEF FinishPrintUri, flagVars
<1>3. CASE FinishSendUri(s)
  <2> DEFINE i == request[s].job
             k == Received(job[i], request[s].last)
  <2>1. i \in JobIds /\ KeptStill(job[i], k)
    BY <1>0, <1>3, ReceivedKept DEF FinishSendUri
  <2>2. job' = [job EXCEPT ![i] = k] /\ UNCHANGED <<nextId, paused>>
    BY <1>3 DEF FinishSendUri, flagVars
  <2> HIDE DEF i, k
  <2>3. QED
    BY <2>1, <2>2, OneKept
<1>4. QED
  BY <1>1, <1>2, <1>3 DEF EndUri

LEMMA NextKept == SInv /\ [Next]_vars => StepKept
<1> SUFFICES ASSUME SInv, [Next]_vars
             PROVE  StepKept
  OBVIOUS
<1>1. CASE UNCHANGED vars
  BY <1>1, UntouchedKept DEF vars
<1>2. QED
  BY <1>1, JobOperationKept, PrinterOperationKept, UriKept DEF Next

\* A request that stops awaiting its document does so in the step that ends
\* it, and no other step changes it.
LEMMA OnlyEndsItself ==
  ASSUME SInv, Next, NEW s \in Slots, Fetching(s), request'[s] # request[s]
  PROVE  EndUri(s)
<1>1. request \in [Slots -> Request]
  BY DEF SInv, IInv, TypeOK
<1>2. ~ (JobOperation \/ PrinterOperation)
  BY DEF JobOperation, SetOperation, OtherJobOperation, PrinterOperation, PrintJob,
         CreateJob, SendDocument, HoldJob, SetJobAttributes, CloseJob, ReleaseJob,
         RestartJob, CancelJob, CancelMyJobs, PurgeJobs, Update, PausePrinter,
         ResumePrinter, RestartPrinter, EnablePrinter, DisablePrinter, HoldNewJobs,
         ReleaseHeldNewJobs
<1>3. PICK t \in Slots : BeginUri(t) \/ EndUri(t)
  BY <1>2 DEF Next
<1>4. t = s
  BY <1>1, <1>3 DEF BeginUri, BeginPrintUri, BeginSendUri, Await, EndUri,
                    FinishPrintUri, FinishSendUri, RefuseUri
<1>5. QED
  BY <1>3, <1>4 DEF BeginUri, BeginPrintUri, BeginSendUri, Await

LEMMA EndRevivesNothing ==
  ASSUME SInv, NEW s \in Slots, EndUri(s), NEW i \in JobIds, job[i].state \in Terminal
  PROVE  job'[i].state = job[i].state /\ job'[i].runs = job[i].runs
<1>0. /\ request[s].last \in BOOLEAN /\ Sound(job[i])
      /\ job = [n \in JobIds |-> job[n]]
      /\ i \in 1..nextId /\ i # nextId
  BY SInvFacts DEF SInv, IInv, TypeOK, Request
<1>1. CASE RefuseUri(s)
  BY <1>1 DEF RefuseUri, jobVars
<1>2. CASE FinishPrintUri(s)
  BY <1>0, <1>2 DEF FinishPrintUri, Enqueue
<1>3. CASE FinishSendUri(s)
  <2>1. job'[i] = IF i = request[s].job THEN Received(job[i], request[s].last) ELSE job[i]
    BY <1>0, <1>3 DEF FinishSendUri
  <2>2. QED
    BY <1>0, <2>1, LateKept
<1>4. QED
  BY <1>1, <1>2, <1>3 DEF EndUri

(***************************************************************************)
(* The theorems.                                                           *)
(***************************************************************************)
LEMMA SInvHolds == Spec => []SInv
<1>1. Init => SInv
  BY InitIInv DEF SInv, Init
<1>2. QED
  BY <1>1, NextSInv, PTL DEF Spec

\* However late a Send-URI resumes, the documents of a job that is closed,
\* released, canceled or restarted stay what they were (addDocument asks open).
THEOREM DocumentsAreFinal == Spec => ClosedDocumentsFinal
<1>1. SInv /\ [Next]_vars =>
        [\A i \in JobIds : ~ job[i].open => ~ job'[i].open /\ job'[i].docs = job[i].docs]_vars
  BY NextKept DEF StepKept, Kept
<1>2. QED
  BY <1>1, SInvHolds, PTL DEF Spec, ClosedDocumentsFinal

\* A job held for its job-hold-until runs only when a release, or a new value,
\* has ended the hold in the same operation.
THEOREM HeldRunsNot == Spec => RunEndsTheHold
<1>1. SInv /\ [Next]_vars =>
        [\A i \in JobIds :
           ~ job[i].open /\ job[i].state = "PENDING_HELD" /\ job'[i].runs > job[i].runs
             => ~ HoldUntilHolds(job'[i].holdUntil)]_vars
  BY NextKept DEF StepKept, Kept
<1>2. QED
  BY <1>1, SInvHolds, PTL DEF Spec, RunEndsTheHold

\* Every handler reads paused when it is about to run a job, the ones that
\* awaited a document after the await: a paused printer prints nothing.
THEOREM PauseHolds == Spec => PausedPrintsNothing
<1>1. SInv /\ [Next]_vars =>
        [paused /\ paused' =>
           \A i \in JobIds' :
             LET before == IF i \in JobIds THEN job[i] ELSE [runs |-> 0, printed |-> {}]
             IN  job'[i].runs = before.runs /\ job'[i].printed = before.printed]_vars
  BY NextKept DEF StepKept, Still
<1>2. QED
  BY <1>1, SInvHolds, PTL DEF Spec, PausedPrintsNothing

\* The end of a fetch, with or without its document, leaves the jobs that have
\* ended as they are, the one it was fetched for included.
THEOREM LateFetchIsHarmless == Spec => LateFetchRevivesNothing
<1>1. SInv /\ [Next]_vars =>
        [\A s \in Slots : Fetching(s) /\ request'[s] # request[s] =>
           \A i \in JobIds : job[i].state \in Terminal =>
             job'[i].state = job[i].state /\ job'[i].runs = job[i].runs]_vars
  BY OnlyEndsItself, EndRevivesNothing
<1>2. QED
  BY <1>1, SInvHolds, PTL DEF Spec, LateFetchRevivesNothing
=============================================================================
