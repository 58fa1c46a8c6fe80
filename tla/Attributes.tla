------------------------------ MODULE Attributes ------------------------------
(***************************************************************************)
(* The attributes of jobs other than job-hold-until, composed with the     *)
(* printer: the Job Template attributes a submission carries               *)
(* (src/ipp/job-template.ts), the setters of class Job, and                *)
(* Set-Job-Attributes, which applies the attributes of a request one by    *)
(* one in the order they come, so that a job-hold-until in the middle may  *)
(* run the job before the rest of the request is applied.                  *)
(*                                                                         *)
(* A value is a number.  The keywords of an attribute are numbered in the  *)
(* order they are advertised in, enums keep their value, and the empty     *)
(* job-name is 0; Absent is undefined: never set, or a value of another    *)
(* type.  A request carries job-hold-until at most once.                   *)
(***************************************************************************)
EXTENDS Printer, Integers, Sequences

CONSTANTS
  Names,     \* the attributes followed, some of AttributeNames
  Sendable,  \* the values clients send for them
  MaxItems   \* bound on the attributes before, and after, a job-hold-until

Absent == -1

Keywords == {"print-color-mode", "print-quality", "sides",
             "orientation-requested", "media"}

JobTemplate == Keywords \cup {"number-up"}

JOB_SETTABLE_ATTRIBUTES == Keywords \cup {"job-name", "job-priority", "copies"}

AttributeNames == JobTemplate \cup JOB_SETTABLE_ATTRIBUTES

ASSUME AttributesAssumption ==
  /\ Names \subseteq AttributeNames
  /\ Sendable \subseteq Nat
  /\ MaxItems \in Nat

VARIABLES
  attributes,  \* per job, the value of each attribute
  prints       \* history: per job, what its pages on disk were made with

avars == <<vars, attributes, prints>>

(***************************************************************************)
(* One attribute.                                                          *)
(***************************************************************************)
Advertised(name) ==
  CASE name = "print-color-mode"      -> 1..3
    [] name = "print-quality"         -> 3..5
    [] name = "sides"                 -> 1..3
    [] name = "orientation-requested" -> 3..6
    [] name = "media"                 -> 1..2

\* The normalizers, and the conditions of the setters.
IsValid(name, value) ==
  CASE name \in Keywords               -> value \in Advertised(name)
    [] name \in {"copies", "number-up"} -> value >= 1
    [] name = "job-name"               -> value > 0
    [] OTHER                           -> value # Absent

Clamped(value) == IF value < 1 THEN 1 ELSE IF value > 100 THEN 100 ELSE value

\* The setters of Job: an invalid value leaves the earlier one.
SetTo(name, old, value) ==
  CASE ~ IsValid(name, value)   -> old
    [] name = "job-priority"    -> Clamped(value)
    [] OTHER                    -> value

\* readJobTemplate and the constructor.  job-name is taken as it is sent;
\* job-priority and copies are not read from a submission.
Initial(name, value) ==
  CASE name \in JobTemplate -> IF IsValid(name, value) THEN value ELSE Absent
    [] name = "job-name"    -> value
    [] OTHER                -> Absent

(***************************************************************************)
(* The loop of Set-Job-Attributes over attributes other than               *)
(* job-hold-until: items are pairs of a name and a value.  What is not     *)
(* settable is reported and changes nothing.                               *)
(***************************************************************************)
Items == Names \X (Sendable \cup {Absent})

Requests == UNION {[1..n -> Items] : n \in 0..MaxItems}

SetItem(a, item) ==
  IF item[1] \in JOB_SETTABLE_ATTRIBUTES
  THEN [a EXCEPT ![item[1]] = SetTo(item[1], @, item[2])] ELSE a

\* One item after the other, each on what the ones before have made of a.
Applied(a, items) ==
  LET applied[k \in 0..Len(items)] ==
        IF k = 0 THEN a ELSE SetItem(applied[k - 1], items[k])
  IN  applied[Len(items)]

NamesOf(items) == {items[k][1] : k \in DOMAIN items}

(***************************************************************************)
(* The actions: those of the printer, with what they do to attributes.     *)
(***************************************************************************)
Printed(a, late) == [attributes |-> a, late |-> late]

Unset == [n \in Names |-> Absent]

AInit ==
  /\ Init
  /\ attributes = [i \in {} |-> Unset]
  /\ prints = [i \in {} |-> Printed(Unset, {})]

\* A new job takes its attributes from the submission; jobs whose pages the
\* step writes get those of the attributes they have.
Follow(again) ==
  \E sent \in [Names -> Sendable \cup {Absent}] :
    /\ nextId' = nextId => sent = Unset
    /\ attributes' = [i \in JobIds' |->
         IF i \in JobIds THEN attributes[i]
         ELSE [n \in Names |-> Initial(n, sent[n])]]
    /\ prints' = [i \in JobIds' |->
         IF /\ i \in JobIds /\ i \notin again
            /\ job'[i].printed = job[i].printed
         THEN prints[i] ELSE Printed(attributes'[i], {})]

\* A late Send-URI may write the pages of a job again that has run already.
WrittenAgain(s) ==
  {i \in JobIds : /\ request[s].op = "Send-URI" /\ request[s].job = i
                  /\ request[s].last /\ ~ paused /\ job'[i].docs > 0}

ASetJobAttributes(i, first, hold, rest) ==
  LET begun == Applied(attributes[i], first) IN
  /\ SetJobAttributes(i, hold)
  /\ attributes' = [attributes EXCEPT ![i] = Applied(begun, rest)]
  /\ prints' = IF HoldWithOk(job[i], hold) /\ ~ paused /\ job[i].docs > 0
               THEN [prints EXCEPT ![i] = Printed(begun, NamesOf(rest))]
               ELSE prints

\* Fault: ended jobs are settable.
FaultySetWithoutHold(i, items) ==
  /\ i \in queue
  /\ attributes' = [attributes EXCEPT ![i] = Applied(@, items)]
  /\ UNCHANGED <<vars, prints>>

\* The same request without a job-hold-until.
SetWithoutHold(i, items) ==
  /\ i \in queue
  /\ IsSettable(job[i])
  /\ attributes' = [attributes EXCEPT ![i] = Applied(@, items)]
  /\ UNCHANGED <<vars, prints>>

ASet ==
  \E i \in queue, first \in Requests :
    \/ SetWithoutHold(i, first)
    \/ \E hold \in HoldValues, rest \in Requests :
         ASetJobAttributes(i, first, hold, rest)

ANext ==
  \/ ASet
  \/ (OtherJobOperation \/ PrinterOperation) /\ Follow({})
  \/ \E s \in Slots : \/ BeginUri(s) /\ Follow({})
                      \/ EndUri(s) /\ Follow(IF request'[s].op = "ok" THEN WrittenAgain(s) ELSE {})

ASpec == AInit /\ [][ANext]_avars

(***************************************************************************)
(* Properties.                                                             *)
(***************************************************************************)

\* The pages of a completed job show the attributes Get-Job-Attributes reports
\* of it, whenever these were set: on submission, while it was held, deferred
\* by a pause or restarted.  The exception is what a Set-Job-Attributes
\* carried after the job-hold-until that ran the job.
PagesShowTheAttributes ==
  \A i \in JobIds : job[i].state = "COMPLETED" /\ job[i].docs > 0 =>
    \A n \in Names \ prints[i].late :
      prints[i].attributes[n] = attributes[i][n]
=============================================================================
