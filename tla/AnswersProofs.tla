---------------------------- MODULE AnswersProofs -----------------------------
(***************************************************************************)
(* What the printer tells its clients is true: the listings, reasons and   *)
(* states of Queries, the attributes of Attributes and the events of       *)
(* Notifications, for any number of jobs, fetches in progress, items of a  *)
(* request and requests awaiting their documents.                          *)
(***************************************************************************)
EXTENDS Attributes, Queries, Notifications, PrinterProofs, ListsProofs

(***************************************************************************)
(* Get-Jobs: a set of jobs in the order of their ids.                      *)
(***************************************************************************)
LEMMA InOrderLists ==
  ASSUME nextId \in Nat \ {0}, NEW ids \in SUBSET JobIds
  PROVE  Lists(InOrder(ids), ids)
<1> DEFINE m == nextId - 1
<1>1. m \in Nat /\ ids \in SUBSET (1..m)
  BY DEF JobIds
<1> HIDE DEF m
<1>2. QED
  BY <1>1, AscendingLists DEF InOrder, m

\* What Get-Jobs lists, and what a limit leaves of it.
LEMMA GetJobsLists ==
  ASSUME TypeOK, NEW whichJobs
  PROVE  /\ Lists(GetJobs(whichJobs, 0), Matching(queue, whichJobs))
         /\ \A limit \in Nat \ {0} :
              /\ IsPrefix(GetJobs(whichJobs, limit), GetJobs(whichJobs, 0))
              /\ Len(GetJobs(whichJobs, limit)) =
                   IF Len(GetJobs(whichJobs, 0)) < limit
                   THEN Len(GetJobs(whichJobs, 0)) ELSE limit
<1> DEFINE s == InOrder(Matching(queue, whichJobs))
<1>1. Lists(s, Matching(queue, whichJobs))
  <2>1. nextId \in Nat \ {0} /\ Matching(queue, whichJobs) \in SUBSET JobIds
    BY BoundsAssumption DEF TypeOK, Matching
  <2>2. QED
    BY <2>1, InOrderLists
<1>2. GetJobs(whichJobs, 0) = s
  BY DEF GetJobs, Limited
<1>3. s \in Seq(Nat)
  BY <1>1 DEF Lists
<1>4. ASSUME NEW limit \in Nat \ {0}
      PROVE  LET few == GetJobs(whichJobs, limit) IN
               /\ IsPrefix(few, s)
               /\ Len(few) = IF Len(s) < limit THEN Len(s) ELSE limit
  <2>1. GetJobs(whichJobs, limit) = IF limit < Len(s) THEN SubSeq(s, 1, limit) ELSE s
    BY DEF GetJobs, Limited
  <2> HIDE DEF s
  <2>2. QED
    BY <1>3, <2>1 DEF IsPrefix
<1> HIDE DEF s
<1>5. QED
  BY <1>1, <1>2, <1>4

LEMMA ListedAre ==
  ASSUME TypeOK, NEW whichJobs
  PROVE  ToSet(GetJobs(whichJobs, 0)) = {i \in queue : MatchesWhichJobs(job[i], whichJobs)}
BY GetJobsLists DEF Lists, Matching

LEMMA Matches ==
  ASSUME NEW j, j.state \in JobState
  PROVE  /\ MatchesWhichJobs(j, "all")
         /\ MatchesWhichJobs(j, "completed") <=> j.state \in Terminal
         /\ MatchesWhichJobs(j, "not-completed") <=> j.state \notin Terminal
         /\ MatchesWhichJobs(j, "") <=> j.state \notin Terminal
BY DEF MatchesWhichJobs, JobState, Terminal, NotCompleted

LEMMA IInvListings == IInv => ListingsPartTheQueue
<1> SUFFICES ASSUME IInv
             PROVE  ListingsPartTheQueue
  OBVIOUS
<1>0. TypeOK /\ \A i \in queue : job[i].state \in JobState /\ EndExplained(job[i])
  BY IInvSound DEF IInv, TypeOK, Sound, JobInv, JobRecord
<1>1. /\ ToSet(GetJobs("all", 0)) = queue
      /\ \A a, b \in DOMAIN GetJobs("all", 0) :
           a < b => GetJobs("all", 0)[a] < GetJobs("all", 0)[b]
  <2>1. Matching(queue, "all") = queue
    BY <1>0, Matches DEF Matching
  <2>2. QED
    BY <1>0, <2>1, GetJobsLists DEF Lists
<1>2. \A i \in queue : i \in ToSet(GetJobs("completed", 0)) <=> i \notin ToSet(GetJobs("", 0))
  BY <1>0, ListedAre, Matches
<1>3. \A which \in {"completed", "not-completed", "all"}, limit \in 1..MaxJobs :
        LET listed == GetJobs(which, 0)
            few    == GetJobs(which, limit)
        IN  /\ IsPrefix(few, listed)
            /\ Len(few) = IF Len(listed) < limit THEN Len(listed) ELSE limit
  BY <1>0, BoundsAssumption, GetJobsLists
<1>4. \A i \in queue : GetJobAttributes(i).completed => job[i].runs > 0
  BY <1>0 DEF GetJobAttributes, EndExplained
<1>5. QED
  BY <1>1, <1>2, <1>3, <1>4 DEF ListingsPartTheQueue

LEMMA IInvReports == IInv => ReportsAreTrue
<1> SUFFICES ASSUME IInv
             PROVE  ReportsAreTrue
  OBVIOUS
<1>0. /\ TypeOK /\ queue \subseteq JobIds /\ paused \in BOOLEAN
      /\ \A i \in queue : job[i].state \in JobState /\ Sound(job[i])
  BY IInvSound DEF IInv, TypeOK, Sound, JobRecord
<1> DEFINE waiting == ToSet(GetJobs("not-completed", 0))
<1>1. waiting = {i \in queue : job[i].state \notin Terminal}
  BY <1>0, ListedAre, Matches
<1>2. ASSUME NEW i \in queue, GetJobAttributes(i).reason = "job-hold-until-specified"
      PROVE  /\ i \in waiting
             /\ ReleaseOk(job[i]) /\ Release(job[i], FALSE).runs = job[i].runs + 1
  <2>1. job[i].state = "PENDING_HELD" /\ ~ job[i].open
    BY <1>2 DEF GetJobAttributes, JobStateReason, HeldByHoldUntil
  <2>2. Release(job[i], FALSE).runs = job[i].runs + 1
    <3> DEFINE k == [job[i] EXCEPT !.state = "PENDING", !.open = FALSE, !.holdUntil = "no-hold"]
    <3>1. [Transition(job[i], "RELEASE") EXCEPT !.open = FALSE, !.holdUntil = "no-hold"] = k
      BY <1>0, <2>1, Targets DEF Transition, Sound, JobRecord
    <3>2. k.runs = job[i].runs
      BY <1>0 DEF Sound, JobRecord
    <3>3. Sound(k) /\ k.state = "PENDING"
      BY <1>0, <2>1, ReleasedSound DEF HoldValues
    <3> HIDE DEF k
    <3>4. Release(job[i], FALSE) = Process(k)
      BY <2>1, <3>1 DEF Release
    <3>5. Process(k) = [k EXCEPT !.state = "COMPLETED", !.runs = @ + 1]
      BY <3>3, ProcessRuns
    <3>6. QED
      BY <3>2, <3>3, <3>4, <3>5 DEF Sound, JobRecord
  <2>3. QED
    BY <1>1, <2>1, <2>2 DEF Terminal, ReleaseOk
<1>3. LiveState = "stopped" <=> LiveReasons = {"paused"}
  BY <1>0 DEF LiveState, LiveReasons, Having, Sound, JobInv, NotMidFlight
<1>4. LiveState = "idle" => \A i \in waiting : GetJobAttributes(i).state = "PENDING_HELD"
  <2>1. LiveState = "idle" => ~ paused
    BY DEF LiveState
  <2>2. QED
    BY <1>0, <1>1, <2>1
    DEF IInv, NoStrandedJob, GetJobAttributes, Sound, JobInv, NotMidFlight, JobState, Terminal
<1> HIDE DEF waiting
<1>5. QED
  BY <1>2, <1>3, <1>4 DEF ReportsAreTrue, waiting

\* Get-Jobs hides no job of the queue: its two listings part the queue, are in
\* the order of submission, and a limit takes the first ones that match.
THEOREM NoJobIsHidden == Spec => []ListingsPartTheQueue
BY InvariantHolds, IInvListings, PTL

\* A job reported as held for its job-hold-until can be released, and a printer
\* that reports idle has left nothing undone: the reports follow from the
\* states the operations leave, whatever request ran between.
THEOREM ReportsCanBeActedOn == Spec => []ReportsAreTrue
BY InvariantHolds, IInvReports, PTL

(***************************************************************************)
(* Set-Job-Attributes: what a list of items does to the attributes.        *)
(***************************************************************************)
\* The recursion of Applied, over the first m items.
AppliedUpTo(f, a, items, m) ==
  f = [k \in 0..m |-> IF k = 0 THEN a ELSE SetItem(f[k - 1], items[k])]

LEMMA AppliedStep ==
  ASSUME NEW a, NEW items, NEW m \in Nat, NEW f, AppliedUpTo(f, a, items, m)
  PROVE  /\ f[0] = a
         /\ \A k \in Nat : k < m => f[k + 1] = SetItem(f[k], items[k + 1])
<1>1. \A k \in 0..m : f[k] = IF k = 0 THEN a ELSE SetItem(f[k - 1], items[k])
  BY Zenon DEF AppliedUpTo
<1>2. ASSUME NEW k \in Nat, k < m
      PROVE  f[k + 1] = SetItem(f[k], items[k + 1])
  <2>1. k + 1 \in 0..m /\ k + 1 # 0 /\ (k + 1) - 1 = k
    BY <1>2
  <2>2. QED
    BY <1>1, <2>1
<1>3. 0 \in 0..m
  OBVIOUS
<1>4. QED
  BY <1>1, <1>2, <1>3

LEMMA ApplicationExists ==
  ASSUME NEW a, NEW items
  PROVE  \A m \in Nat : \E f : AppliedUpTo(f, a, items, m)
<1> DEFINE S == {m \in Nat : \E f : AppliedUpTo(f, a, items, m)}
<1>1. 0 \in S
  <2> DEFINE f == [k \in 0..0 |-> a]
  <2>1. AppliedUpTo(f, a, items, 0)
    BY DEF AppliedUpTo
  <2>2. QED
    BY <2>1
<1>2. ASSUME NEW m \in Nat, m \in S
      PROVE  m + 1 \in S
  <2>1. PICK f : AppliedUpTo(f, a, items, m)
    BY <1>2
  <2> DEFINE g == [k \in 0..(m + 1) |-> IF k = m + 1 THEN SetItem(f[m], items[k]) ELSE f[k]]
  <2>2. ASSUME NEW k \in 0..(m + 1)
        PROVE  g[k] = IF k = 0 THEN a ELSE SetItem(g[k - 1], items[k])
    <3>1. \A n \in 0..m : g[n] = f[n]
      OBVIOUS
    <3>2. CASE k = m + 1
      <4>1. m \in 0..m /\ k # 0 /\ k - 1 = m
        BY <3>2
      <4>2. QED
        BY <3>1, <3>2, <4>1
    <3>3. CASE k # m + 1
      <4>1. k \in 0..m /\ (k # 0 => k - 1 \in 0..m)
        BY <3>3
      <4>2. f[k] = IF k = 0 THEN a ELSE SetItem(f[k - 1], items[k])
        BY <2>1, <4>1, Zenon DEF AppliedUpTo
      <4>3. QED
        BY <3>1, <4>1, <4>2
    <3>4. QED
      BY <3>2, <3>3
  <2>3. g = [k \in 0..(m + 1) |-> g[k]]
    OBVIOUS
  <2> HIDE DEF g
  <2>4. AppliedUpTo(g, a, items, m + 1)
    BY <2>2, <2>3 DEF AppliedUpTo
  <2>5. QED
    BY <2>4
<1> HIDE DEF S
<1>3. Nat \subseteq S
  BY <1>1, <1>2, SetInduction
<1>4. QED
  BY <1>3 DEF S

Attributed == [Names -> Int]

LEMMA ValuesAreInt == Sendable \cup {Absent} \subseteq Int
<1>1. Absent \in Int
  BY DEF Absent
<1>2. QED
  BY <1>1, AttributesAssumption

LEMMA SetItemTouches ==
  ASSUME NEW a \in Attributed, NEW item \in Items
  PROVE  /\ SetItem(a, item) \in Attributed
         /\ \A n \in Names \ {item[1]} : SetItem(a, item)[n] = a[n]
<1>1. item[1] \in Names /\ item[2] \in Int
  BY ValuesAreInt DEF Items
<1>2. SetTo(item[1], a[item[1]], item[2]) \in Int
  BY <1>1 DEF SetTo, Clamped, Attributed
<1>3. QED
  BY <1>1, <1>2 DEF SetItem, Attributed

\* The items of a request change the attributes they name and no other.
LEMMA AppliedTouches ==
  ASSUME NEW a \in Attributed, NEW items \in Requests
  PROVE  /\ Applied(a, items) \in Attributed
         /\ \A n \in Names \ NamesOf(items) : Applied(a, items)[n] = a[n]
<1> DEFINE m == Len(items)
<1>0. m \in Nat /\ \A k \in 1..m : k \in DOMAIN items /\ items[k] \in Items
  BY DEF Requests
<1>1. Applied(a, items) = (CHOOSE f : AppliedUpTo(f, a, items, m))[m]
  BY Zenon DEF Applied, AppliedUpTo
<1>2. PICK f : AppliedUpTo(f, a, items, m) /\ Applied(a, items) = f[m]
  BY <1>0, <1>1, ApplicationExists, Zenon
<1>3. /\ f[0] = a
      /\ \A k \in Nat : k < m => f[k + 1] = SetItem(f[k], items[k + 1])
  <2> HIDE DEF m
  <2>1. m \in Nat
    BY <1>0
  <2>2. AppliedUpTo(f, a, items, m)
    BY <1>2
  <2>3. QED
    BY ONLY <2>1, <2>2, AppliedStep
<1> DEFINE Fine(k) == /\ f[k] \in Attributed
                      /\ \A n \in Names \ NamesOf(items) : f[k][n] = a[n]
           S == {k \in Nat : k \in 0..m => Fine(k)}
<1>4. 0 \in S
  BY <1>3
<1>5. ASSUME NEW k \in Nat, k \in S, k + 1 \in 0..m
      PROVE  Fine(k + 1)
  <2>1. f[k + 1] = SetItem(f[k], items[k + 1]) /\ Fine(k)
    BY <1>0, <1>3, <1>5
  <2>2. items[k + 1] \in Items /\ items[k + 1][1] \in NamesOf(items)
    BY <1>0, <1>5 DEF NamesOf
  <2>3. QED
    BY <2>1, <2>2, SetItemTouches
<1>6. Nat \subseteq S
  <2>1. \A k \in Nat : k \in S => k + 1 \in S
    BY <1>5
  <2> HIDE DEF S
  <2>2. QED
    BY <1>4, <2>1, SetInduction
<1>7. QED
  BY <1>0, <1>2, <1>6

(***************************************************************************)
(* The invariant.  That the pages of a completed job show its attributes   *)
(* is not inductive: a job must not complete in a step that writes no      *)
(* pages, which is so because pages carry the run they were made in, and   *)
(* no page is written for a run to come.                                   *)
(***************************************************************************)
ATypeOK ==
  /\ attributes \in [JobIds -> Attributed]
  /\ prints \in [JobIds -> [attributes: Attributed, late: SUBSET Names]]

AInv ==
  /\ SInv
  /\ ATypeOK
  /\ \A i \in JobIds : PrintedInTime(job[i])
  /\ PagesShowTheAttributes

\* A step of the composition is one of the printer.
LEMMA ANextNext == [ANext]_avars => [Next]_vars
<1>1. ASSUME NEW i \in queue, NEW first \in Requests, SetWithoutHold(i, first)
      PROVE  UNCHANGED vars
  BY <1>1 DEF SetWithoutHold
<1>2. ASSUME NEW i \in queue, NEW first \in Requests, NEW hold \in HoldValues,
             NEW rest \in Requests, ASetJobAttributes(i, first, hold, rest)
      PROVE  Next
  BY <1>2 DEF ASetJobAttributes, Next, JobOperation, SetOperation
<1>3. ASet => [Next]_vars
  BY <1>1, <1>2 DEF ASet
<1>4. QED
  BY <1>3 DEF ANext, Next, JobOperation, avars

LEMMA InitAInv == AInit => AInv
<1> SUFFICES ASSUME AInit
             PROVE  AInv
  OBVIOUS
<1>1. SInv
  BY InitIInv DEF AInit, SInv, Init
<1>2. JobIds = {}
  BY DEF AInit, Init, JobIds
<1>3. QED
  BY <1>1, <1>2 DEF AInit, AInv, ATypeOK, PagesShowTheAttributes

\* A job that completes writes pages.
LEMMA CompletionPrints ==
  ASSUME AInv, SInv', StepKept, NEW i \in JobIds,
         job'[i].state = "COMPLETED", job'[i].docs > 0, job'[i].printed = job[i].printed
  PROVE  job[i].state = "COMPLETED" /\ job[i].docs > 0
<1>1. /\ Sound(job[i]) /\ PrintedInTime(job[i]) /\ Kept(job[i], job'[i])
      /\ i \in JobIds'
  BY SInvFacts DEF AInv, StepKept
<1>2. job'[i] \in JobRecord /\ RunsPrinted(job'[i])
  BY <1>1 DEF SInv, IInv, TypeOK, JobInv
<1>3. job'[i].runs \in Nat /\ job[i].runs \in Nat
  BY <1>1, <1>2 DEF Sound, JobRecord
<1>4. ~ (job'[i].runs > job[i].runs)
  <2>1. SUFFICES ASSUME job'[i].runs > job[i].runs
                 PROVE  FALSE
    OBVIOUS
  <2>2. job'[i].runs \in 1..job'[i].runs
    BY <1>3, <2>1
  <2>3. job'[i].runs \in job[i].printed
    BY <1>2, <2>2 DEF RunsPrinted
  <2>4. QED
    BY <1>1, <1>3, <2>1, <2>3 DEF PrintedInTime
<1>5. job[i].state = "COMPLETED"
  BY <1>1, <1>4 DEF Kept, Counted
<1>6. ~ job[i].open
  BY <1>1, <1>5 DEF Sound, JobInv, OpenIsHeld
<1>7. QED
  BY <1>1, <1>5, <1>6 DEF Kept

\* What every step leaves.
LEMMA InTimeKept ==
  ASSUME AInv, StepKept
  PROVE  \A i \in JobIds' : PrintedInTime(job'[i])
BY DEF AInv, StepKept, Kept, Counted

LEMMA FollowKeepsAInv ==
  ASSUME AInv, SInv', StepKept, NEW again, Follow(again)
  PROVE  AInv'
<1>1. PICK sent \in [Names -> Sendable \cup {Absent}] :
        /\ attributes' = [i \in JobIds' |->
             IF i \in JobIds THEN attributes[i]
             ELSE [n \in Names |-> Initial(n, sent[n])]]
        /\ prints' = [i \in JobIds' |->
             IF /\ i \in JobIds /\ i \notin again
                /\ job'[i].printed = job[i].printed
             THEN prints[i] ELSE Printed(attributes'[i], {})]
  BY DEF Follow
<1>2. ASSUME NEW i \in JobIds'
      PROVE  attributes'[i] \in Attributed
  <2>1. \A n \in Names : Initial(n, sent[n]) \in Int
    <3>1. \A n \in Names : sent[n] \in Int
      BY ValuesAreInt
    <3>2. QED
      BY <3>1 DEF Initial, Absent
  <2>2. [n \in Names |-> Initial(n, sent[n])] \in Attributed
    BY <2>1 DEF Attributed
  <2>3. QED
    BY <1>1, <2>2 DEF AInv, ATypeOK
<1>3. ATypeOK'
  <2>1. \A i \in JobIds' : Printed(attributes'[i], {}) \in [attributes: Attributed, late: SUBSET Names]
    BY <1>2 DEF Printed
  <2>2. attributes' \in [JobIds' -> Attributed]
    BY <1>1, <1>2
  <2>3. prints' \in [JobIds' -> [attributes: Attributed, late: SUBSET Names]]
    BY <1>1, <2>1 DEF AInv, ATypeOK
  <2>4. QED
    BY <2>2, <2>3 DEF ATypeOK, Attributed
<1>4. ASSUME NEW i \in JobIds', job'[i].state = "COMPLETED", job'[i].docs > 0,
             NEW n \in Names, n \notin prints'[i].late
      PROVE  prints'[i].attributes[n] = attributes'[i][n]
  <2>1. CASE prints'[i] = Printed(attributes'[i], {})
    BY <2>1 DEF Printed
  <2>2. CASE i \in JobIds /\ job'[i].printed = job[i].printed /\ prints'[i] = prints[i]
    <3>1. attributes'[i] = attributes[i]
      BY <1>1, <2>2
    <3>2. job[i].state = "COMPLETED" /\ job[i].docs > 0
      BY <1>4, <2>2, CompletionPrints
    <3>3. QED
      BY <1>4, <2>2, <3>1, <3>2 DEF AInv, PagesShowTheAttributes
  <2>3. QED
    BY <1>1, <2>1, <2>2
<1>5. PagesShowTheAttributes'
  BY <1>4 DEF PagesShowTheAttributes
<1>6. QED
  BY <1>3, <1>5, InTimeKept DEF AInv

\* Set-Job-Attributes on a job that has not ended succeeds in recording the
\* job-hold-until, and attaches no document.
LEMMA HoldIsSet ==
  ASSUME NEW j, Sound(j), j.state \notin Terminal, NEW hold \in HoldValues
  PROVE  /\ HoldWithOk(j, hold)
         /\ HoldWith(j, hold, FALSE).docs = j.docs
<1>1. j.state \in {"PENDING", "PENDING_HELD"} /\ j \in JobRecord
  BY DEF Sound, JobInv, NotMidFlight, JobRecord, JobState, Terminal
<1>2. HoldWithOk(j, hold)
  BY <1>1, Table DEF HoldWithOk, HoldOk, ReleaseOk, JobRecord
<1> DEFINE k == [j EXCEPT !.holdUntil = hold]
<1>3. k \in JobRecord /\ k.docs = j.docs
  BY <1>1 DEF JobRecord
<1> HIDE DEF k
<1>4. Hold(k).docs = k.docs
  BY <1>3 DEF Hold, TransitionIfCan, Transition, JobRecord
<1>5. Release(k, FALSE).docs = k.docs
  <2> DEFINE released == [Transition(k, "RELEASE") EXCEPT !.open = FALSE, !.holdUntil = "no-hold"]
  <2>1. released.docs = k.docs
    BY <1>3 DEF Transition, JobRecord
  <2>2. Process(released).docs = released.docs
    BY <1>3 DEF Process, TransitionIfCan, Transition, JobRecord
  <2>3. QED
    BY <2>1, <2>2 DEF Release
<1>6. QED
  BY <1>2, <1>3, <1>4, <1>5 DEF HoldWith, k

LEMMA SetKeepsAInv ==
  ASSUME AInv, SInv', StepKept, NEW i \in queue, NEW first \in Requests,
         NEW hold \in HoldValues, NEW rest \in Requests,
         ASetJobAttributes(i, first, hold, rest)
  PROVE  AInv'
<1> DEFINE begun == Applied(attributes[i], first)
           set   == HoldWith(job[i], hold, paused)
<1>0. /\ i \in JobIds /\ Sound(job[i]) /\ job[i].state \notin Terminal
      /\ paused \in BOOLEAN /\ JobIds' = JobIds
      /\ job' = [job EXCEPT ![i] = IF HoldWithOk(job[i], hold)
                                   THEN RenderUnlessPaused(set) ELSE set]
      /\ job = [n \in JobIds |-> job[n]]
      /\ paused' = paused
  BY SInvFacts DEF AInv, ASetJobAttributes, SetJobAttributes, IsSettable, Update, flagVars,
                   JobIds
<1>1. begun \in Attributed /\ Applied(begun, rest) \in Attributed
  BY <1>0, AppliedTouches DEF AInv, ATypeOK
<1>2. attributes' = [attributes EXCEPT ![i] = Applied(begun, rest)]
  BY DEF ASetJobAttributes
<1>3. prints' = IF ~ paused /\ job[i].docs > 0
                THEN [prints EXCEPT ![i] = Printed(begun, NamesOf(rest))] ELSE prints
  BY <1>0, HoldIsSet DEF ASetJobAttributes
<1>4. NamesOf(rest) \subseteq Names
  BY DEF NamesOf, Requests, Items
<1>5. Printed(begun, NamesOf(rest)) \in [attributes: Attributed, late: SUBSET Names]
  BY <1>1, <1>4 DEF Printed
<1> HIDE DEF begun
<1>6. ATypeOK'
  <2>1. attributes' \in [JobIds -> Attributed]
    BY <1>1, <1>2 DEF AInv, ATypeOK
  <2>2. prints' \in [JobIds -> [attributes: Attributed, late: SUBSET Names]]
    BY <1>3, <1>5 DEF AInv, ATypeOK
  <2>3. QED
    BY <1>0, <2>1, <2>2 DEF ATypeOK, Attributed
<1>7. \A n \in JobIds : n # i => /\ job'[n] = job[n] /\ attributes'[n] = attributes[n]
                                 /\ prints'[n] = prints[n]
  BY <1>0, <1>2, <1>3 DEF AInv, ATypeOK
<1>8. attributes'[i] = Applied(begun, rest)
  BY <1>0, <1>2 DEF AInv, ATypeOK
<1>9. CASE ~ paused /\ job[i].docs > 0
  <2>1. prints'[i] = Printed(begun, NamesOf(rest))
    BY <1>0, <1>3, <1>9 DEF AInv, ATypeOK
  <2>2. \A n \in Names \ NamesOf(rest) : Applied(begun, rest)[n] = begun[n]
    BY <1>1, AppliedTouches
  <2>3. \A n \in Names \ prints'[i].late : prints'[i].attributes[n] = attributes'[i][n]
    BY <1>8, <2>1, <2>2 DEF Printed
  <2>4. PagesShowTheAttributes'
    BY <1>0, <1>7, <2>3 DEF AInv, PagesShowTheAttributes
  <2>5. QED
    BY <1>6, <2>4, InTimeKept DEF AInv
<1>10. CASE paused \/ job[i].docs = 0
  <2>1. ~ (job'[i].state = "COMPLETED" /\ job'[i].docs > 0)
    <3>1. CASE paused
      <4>1. Counted(job[i], job'[i]) /\ job'[i].runs = job[i].runs
        BY <1>0, <3>1 DEF StepKept, Kept, Still
      <4>2. job[i].runs \in Nat
        BY <1>0 DEF Sound, JobRecord
      <4>3. QED
        BY <1>0, <4>1, <4>2 DEF Counted, Terminal
    <3>2. CASE ~ paused /\ job[i].docs = 0
      <4>1. job'[i] = Render(set) /\ set.docs = 0
        BY <1>0, <3>2, HoldIsSet DEF RenderUnlessPaused
      <4>2. QED
        BY <4>1 DEF Render
    <3>3. QED
      BY <1>0, <1>10, <3>1, <3>2
  <2>2. PagesShowTheAttributes'
    BY <1>0, <1>7, <2>1 DEF AInv, PagesShowTheAttributes
  <2>3. QED
    BY <1>6, <2>2, InTimeKept DEF AInv
<1>11. job[i].docs \in Nat
  BY <1>0 DEF Sound, JobRecord
<1>12. QED
  BY <1>0, <1>9, <1>10, <1>11

LEMMA SetWithoutHoldKeepsAInv ==
  ASSUME AInv, SInv', StepKept, NEW i \in queue, NEW items \in Requests,
         SetWithoutHold(i, items)
  PROVE  AInv'
<1>1. /\ i \in JobIds /\ job[i].state \notin Terminal /\ JobIds' = JobIds
      /\ job' = job /\ prints' = prints
      /\ attributes' = [attributes EXCEPT ![i] = Applied(attributes[i], items)]
  BY SInvFacts DEF AInv, SetWithoutHold, IsSettable, vars, JobIds
<1>2. Applied(attributes[i], items) \in Attributed
  BY <1>1, AppliedTouches DEF AInv, ATypeOK
<1>3. ATypeOK'
  <2>1. attributes' \in [JobIds -> Attributed]
    BY <1>1, <1>2 DEF AInv, ATypeOK
  <2>2. QED
    BY <1>1, <2>1 DEF AInv, ATypeOK, Attributed
<1>4. PagesShowTheAttributes'
  <2>1. \A n \in JobIds : n # i => attributes'[n] = attributes[n]
    BY <1>1 DEF AInv, ATypeOK
  <2>2. job[i].state # "COMPLETED"
    BY <1>1 DEF Terminal
  <2>3. QED
    BY <1>1, <2>1, <2>2 DEF AInv, PagesShowTheAttributes
<1>5. QED
  BY <1>3, <1>4, InTimeKept DEF AInv

LEMMA NextAInv == AInv /\ [ANext]_avars => AInv'
<1> SUFFICES ASSUME AInv, [ANext]_avars
             PROVE  AInv'
  OBVIOUS
<1>1. SInv' /\ StepKept
  BY ANextNext, NextSInv, NextKept DEF AInv
<1>2. CASE UNCHANGED avars
  BY <1>1, <1>2 DEF AInv, ATypeOK, avars, vars, PagesShowTheAttributes, PrintedInTime,
                    JobIds, Attributed
<1>3. CASE ASet
  BY <1>1, <1>3, SetKeepsAInv, SetWithoutHoldKeepsAInv DEF ASet
<1>4. ASSUME NEW again, Follow(again)
      PROVE  AInv'
  BY <1>1, <1>4, FollowKeepsAInv
<1>5. QED
  BY <1>2, <1>3, <1>4 DEF ANext

(***************************************************************************)
(* The theorems.                                                           *)
(***************************************************************************)
\* The printer with the attributes of its jobs is the printer: whatever is
\* proved of Printer holds of Attributes.
THEOREM AttributesIsPrinter == ASpec => Spec
<1>1. AInit => Init
  BY DEF AInit
<1>2. QED
  BY <1>1, ANextNext, PTL DEF ASpec, Spec

\* Whenever and however the attributes of a job were set, on submission, while
\* it was held, or before the job-hold-until of a request that ran it, the
\* pages of the completed job were made with what is reported of it, but for
\* the attributes that came after that job-hold-until.
THEOREM PagesTellTheTruth == ASpec => []PagesShowTheAttributes
<1>1. ASpec => []AInv
  BY InitAInv, NextAInv, PTL DEF ASpec
<1>2. AInv => PagesShowTheAttributes
  BY DEF AInv
<1>3. QED
  BY <1>1, <1>2, PTL

(***************************************************************************)
(* The events leave no subscriber behind.                                  *)
(*                                                                         *)
(* A request that does not await compares with the states it found, so     *)
(* whatever it changed it announces.  One that awaited compares with an    *)
(* outdated snapshot b, and announces too little only if it moved a job    *)
(* back to the state it has in b.  It does not: a Send-URI moves none but  *)
(* the job it was sent for, out of PENDING_HELD, and that is the state b   *)
(* has of it (Snapshots).                                                  *)
(***************************************************************************)
Snapshots ==
  \A s \in Slots :
    /\ KnownJobs(before[s]) \subseteq JobIds
    /\ request[s].op = "Send-URI" /\ request[s].job \in KnownJobs(before[s])
         => before[s].jobs[request[s].job] = "PENDING_HELD"

NInv ==
  /\ SInv
  /\ DOMAIN told = JobIds
  /\ \A i \in JobIds : told[i].created \in Nat
  /\ before = [s \in Slots |-> before[s]]
  /\ Snapshots
  /\ AnnouncedIsCurrent

(***************************************************************************)
(* The comparison.                                                         *)
(***************************************************************************)

\* It suffices that a job of the queue which the snapshot b shows as it is now
\* was already that way before the step, and that the printer was.
LEMMA ComparisonAnnounces ==
  ASSUME NInv, SInv', NEW b, RecordLifecycleEvents(b),
         \A i \in queue' : i \in KnownJobs(b) => i \in queue,
         \A i \in queue' : i \in KnownJobs(b) /\ b.jobs[i] = job'[i].state
                             => job'[i].state = job[i].state,
         paused' = b.stopped => paused' = paused
  PROVE  /\ DOMAIN told' = JobIds'
         /\ \A i \in JobIds' : told'[i].created \in Nat
         /\ AnnouncedIsCurrent'
<1> DEFINE old(i) == IF i \in DOMAIN told THEN told[i] ELSE Untold
           changed == {i \in queue' : IsChanged(b, i, job'[i].state)}
<1>1. told' = [i \in JobIds' |->
                 [created |-> IF i \in queue' /\ IsNew(b, i)
                              THEN Min2(old(i).created + 1, MaxTold)
                              ELSE old(i).created,
                  state   |-> IF i \in changed THEN job'[i].state ELSE old(i).state]]
  BY DEF RecordLifecycleEvents
<1>2. \A i \in JobIds' : old(i).created \in Nat
  BY DEF NInv, Untold
<1>3. \A n \in Nat : Min2(n + 1, MaxTold) \in Nat /\ Min2(n + 1, MaxTold) > 0
  BY DEF Min2, MaxTold
<1>4. queue' \subseteq JobIds' /\ queue \subseteq JobIds
  BY SInvFacts DEF NInv, SInv, IInv, TypeOK
<1> HIDE DEF changed
<1>5. ASSUME NEW i \in JobIds'
      PROVE  told'[i].created \in Nat
  BY <1>1, <1>2, <1>3
<1>6. ASSUME NEW i \in queue'
      PROVE  told'[i].created > 0 /\ told'[i].state = job'[i].state
  <2>1. CASE IsNew(b, i)
    <3>1. i \in changed
      BY <2>1 DEF changed, IsChanged
    <3>2. QED
      BY <1>1, <1>2, <1>3, <1>4, <2>1, <3>1
  <2>2. CASE ~ IsNew(b, i)
    <3>1. i \in queue /\ i \in KnownJobs(b) /\ old(i) = told[i]
      BY <1>4, <2>2 DEF IsNew, NInv
    <3>2. told[i].created > 0 /\ told[i].state = job[i].state
      BY <3>1 DEF NInv, AnnouncedIsCurrent
    <3>3. i \notin changed => job'[i].state = job[i].state
      BY <2>2, <3>1 DEF changed, IsChanged
    <3> HIDE DEF old
    <3>4. QED
      BY <1>1, <1>4, <2>2, <3>1, <3>2, <3>3
  <2>3. QED
    BY <2>1, <2>2
<1>7. toldStopped' = paused'
  BY DEF RecordLifecycleEvents, NInv, AnnouncedIsCurrent
<1>8. QED
  BY <1>1, <1>5, <1>6, <1>7 DEF AnnouncedIsCurrent

(***************************************************************************)
(* The actions.                                                            *)
(***************************************************************************)
LEMMA NothingAwaited ==
  ASSUME JobOperation \/ PrinterOperation
  PROVE  request' = request
BY DEF JobOperation, SetOperation, OtherJobOperation, PrinterOperation, PrintJob,
       CreateJob, SendDocument, HoldJob, SetJobAttributes, CloseJob, ReleaseJob,
       RestartJob, CancelJob, CancelMyJobs, PurgeJobs, Update, PausePrinter,
       ResumePrinter, RestartPrinter, EnablePrinter, DisablePrinter, HoldNewJobs,
       ReleaseHeldNewJobs

LEMMA HandleRequestKeepsNInv ==
  ASSUME NInv, SInv', StepKept, HandleRequest
  PROVE  NInv'
<1> DEFINE b == SnapshotStates
<1>1. KnownJobs(b) = queue /\ b.stopped = paused /\ \A i \in queue : b.jobs[i] = job[i].state
  BY DEF SnapshotStates, KnownJobs
<1> HIDE DEF b
<1>2. RecordLifecycleEvents(b) /\ UNCHANGED <<request, before>>
  BY NothingAwaited DEF HandleRequest, b
<1>3. /\ DOMAIN told' = JobIds'
      /\ \A i \in JobIds' : told'[i].created \in Nat
      /\ AnnouncedIsCurrent'
  BY <1>1, <1>2, ComparisonAnnounces
<1>4. Snapshots' /\ before' = [s \in Slots |-> before'[s]]
  BY <1>2 DEF NInv, Snapshots, StepKept, KnownJobs
<1>5. QED
  BY <1>3, <1>4 DEF NInv

LEMMA BeginRequestAsyncKeepsNInv ==
  ASSUME NInv, SInv', NEW s \in Slots, BeginRequestAsync(s)
  PROVE  NInv'
<1>0. /\ queue \subseteq JobIds /\ \A i \in queue : Sound(job[i])
      /\ request \in [Slots -> Request]
  BY SInvFacts DEF NInv, SInv, IInv, TypeOK
<1>1. UNCHANGED <<job, queue, nextId, paused, told, toldStopped>>
  BY DEF BeginRequestAsync, BeginUri, BeginPrintUri, BeginSendUri, Await, jobVars, flagVars
<1>2. AnnouncedIsCurrent' /\ JobIds' = JobIds
  BY <1>1 DEF NInv, AnnouncedIsCurrent, JobIds
<1>3. /\ before' = [t \in Slots |-> IF t = s THEN SnapshotStates ELSE before[t]]
      /\ \A t \in Slots : t # s => request'[t] = request[t]
      /\ request'[s].op = "Send-URI" =>
           /\ request'[s].job \in queue
           /\ job[request'[s].job].open
  BY <1>0 DEF NInv, BeginRequestAsync, BeginUri, BeginPrintUri, BeginSendUri, Await
<1>4. KnownJobs(SnapshotStates) = queue /\ \A i \in queue : SnapshotStates.jobs[i] = job[i].state
  BY DEF SnapshotStates, KnownJobs
<1>5. request'[s].op = "Send-URI" => job[request'[s].job].state = "PENDING_HELD"
  BY <1>0, <1>3 DEF Sound, JobInv, OpenIsHeld
<1>6. ASSUME NEW t \in Slots
      PROVE  /\ KnownJobs(before'[t]) \subseteq JobIds'
             /\ request'[t].op = "Send-URI" /\ request'[t].job \in KnownJobs(before'[t])
                  => before'[t].jobs[request'[t].job] = "PENDING_HELD"
  <2>1. CASE t = s
    BY <1>0, <1>2, <1>3, <1>4, <1>5, <2>1
  <2>2. CASE t # s
    BY <1>2, <1>3, <2>2 DEF NInv, Snapshots
  <2>3. QED
    BY <2>1, <2>2
<1>7. Snapshots'
  BY <1>6 DEF Snapshots, KnownJobs
<1>8. QED
  BY <1>1, <1>2, <1>3, <1>7 DEF NInv

\* The end of a request moves no job but out of PENDING_HELD, and none that the
\* request was not sent for.
LEMMA EndMovesItsJob ==
  ASSUME SInv, NEW s \in Slots, EndUri(s), NEW i \in JobIds, job'[i].state # job[i].state
  PROVE  /\ request[s].op = "Send-URI" /\ request[s].job = i
         /\ job[i].state = "PENDING_HELD"
<1>0. /\ request[s].last \in BOOLEAN /\ Sound(job[i])
      /\ job = [n \in JobIds |-> job[n]]
      /\ i \in 1..nextId /\ i # nextId
  BY SInvFacts DEF SInv, IInv, TypeOK, Request
<1>1. FinishSendUri(s)
  BY <1>0 DEF EndUri, RefuseUri, FinishPrintUri, Enqueue, jobVars
<1>2. job'[i] = IF i = request[s].job THEN Received(job[i], request[s].last) ELSE job[i]
  BY <1>0, <1>1 DEF FinishSendUri
<1>3. ASSUME ~ job[i].open
      PROVE  Received(job[i], request[s].last).state = job[i].state
  <2>1. AddDocument(job[i]) = job[i] /\ Close(job[i], paused) = job[i]
    BY <1>3 DEF AddDocument, Close
  <2>2. job[i] \in JobRecord
    BY <1>0 DEF Sound
  <2>3. QED
    BY <2>1, <2>2, RenderKeeps DEF Received, RenderUnlessPaused
<1>4. QED
  BY <1>0, <1>1, <1>2, <1>3 DEF FinishSendUri, Sound, JobInv, OpenIsHeld

LEMMA EndRequestAsyncKeepsNInv ==
  ASSUME NInv, SInv', StepKept, NEW s \in Slots, EndRequestAsync(s)
  PROVE  NInv'
<1> DEFINE b == before[s]
<1>0. /\ queue \subseteq JobIds /\ SInv /\ nextId \notin JobIds
      /\ request \in [Slots -> Request]
  BY SInvFacts DEF NInv, SInv, IInv, TypeOK
<1>1. EndUri(s) /\ RecordLifecycleEvents(b) /\ before' = [before EXCEPT ![s] = NoSnapshot]
  BY DEF EndRequestAsync
<1>2. /\ paused' = paused
      /\ queue' \subseteq queue \cup {nextId}
      /\ \A t \in Slots : request'[t] = IF t = s THEN request'[s] ELSE request[t]
      /\ request'[s].op # "Send-URI"
  BY <1>0, <1>1 DEF EndUri, FinishPrintUri, FinishSendUri, RefuseUri, Enqueue, jobVars,
                    flagVars, NoRequest, Answered
<1>3. /\ KnownJobs(b) \subseteq JobIds
      /\ request[s].op = "Send-URI" /\ request[s].job \in KnownJobs(b)
           => b.jobs[request[s].job] = "PENDING_HELD"
  BY DEF NInv, Snapshots
<1> HIDE DEF b
<1>4. \A i \in queue' : i \in KnownJobs(b) => i \in queue
  BY <1>0, <1>2, <1>3
<1>5. \A i \in queue' : i \in KnownJobs(b) /\ b.jobs[i] = job'[i].state
                          => job'[i].state = job[i].state
  BY <1>0, <1>1, <1>3, EndMovesItsJob
<1>6. /\ DOMAIN told' = JobIds'
      /\ \A i \in JobIds' : told'[i].created \in Nat
      /\ AnnouncedIsCurrent'
  BY <1>1, <1>2, <1>4, <1>5, ComparisonAnnounces
<1>7. before' = [t \in Slots |-> IF t = s THEN NoSnapshot ELSE before[t]]
  BY <1>1 DEF NInv
<1>8. KnownJobs(NoSnapshot) = {}
  BY DEF KnownJobs, NoSnapshot
<1>9. ASSUME NEW t \in Slots
      PROVE  /\ KnownJobs(before'[t]) \subseteq JobIds'
             /\ request'[t].op = "Send-URI" /\ request'[t].job \in KnownJobs(before'[t])
                  => before'[t].jobs[request'[t].job] = "PENDING_HELD"
  <2>1. CASE t = s
    BY <1>2, <1>7, <1>8, <2>1
  <2>2. CASE t # s
    BY <1>2, <1>7, <2>2 DEF NInv, Snapshots, StepKept
  <2>3. QED
    BY <2>1, <2>2
<1>10. Snapshots'
  BY <1>9 DEF Snapshots, KnownJobs
<1>11. QED
  BY <1>6, <1>7, <1>10 DEF NInv

LEMMA NNextNInv == NInv /\ [NNext]_nvars => NInv'
<1> SUFFICES ASSUME NInv, [NNext]_nvars
             PROVE  NInv'
  OBVIOUS
<1>1. [Next]_vars
  BY DEF NNext, nvars, Next, HandleRequest, BeginRequestAsync, EndRequestAsync
<1>2. SInv' /\ StepKept
  BY <1>1, NextSInv, NextKept DEF NInv
<1>3. CASE UNCHANGED nvars
  <2>1. UNCHANGED <<vars, before, told, toldStopped>>
    BY <1>3 DEF nvars
  <2>2. JobIds' = JobIds /\ UNCHANGED <<job, queue, paused, request>>
    BY <2>1 DEF vars, JobIds
  <2>3. Snapshots' /\ AnnouncedIsCurrent'
    BY <2>1, <2>2 DEF NInv, Snapshots, AnnouncedIsCurrent, KnownJobs
  <2>4. QED
    BY <1>2, <2>1, <2>2, <2>3 DEF NInv
<1>4. QED
  BY <1>2, <1>3, HandleRequestKeepsNInv, BeginRequestAsyncKeepsNInv,
     EndRequestAsyncKeepsNInv DEF NNext

LEMMA NInitNInv == NInit => NInv
<1> SUFFICES ASSUME NInit
             PROVE  NInv
  OBVIOUS
<1>1. Init /\ JobIds = {} /\ queue = {} /\ paused = FALSE
  BY DEF NInit, Init, JobIds
<1>2. SInv
  BY <1>1, InitIInv DEF SInv, Init
<1>3. before = [s \in Slots |-> NoSnapshot] /\ KnownJobs(NoSnapshot) = {}
  BY DEF NInit, KnownJobs, NoSnapshot
<1>4. QED
  BY <1>1, <1>2, <1>3 DEF NInit, NInv, Snapshots, AnnouncedIsCurrent

(***************************************************************************)
(* The theorems.                                                           *)
(***************************************************************************)

\* Between two operations a subscriber to all events knows every job of the
\* queue, its present state and that of the printer, whichever snapshots the
\* requests in progress will compare with.
THEOREM NobodyIsLeftBehind == NSpec => []AnnouncedIsCurrent
<1>1. NInv => AnnouncedIsCurrent
  BY DEF NInv
<1>2. QED
  BY <1>1, NInitNInv, NNextNInv, PTL DEF NSpec

\* Recording events is no part of what the printer does: the printer with its
\* event source is the printer, and inherits its theorems.
THEOREM WatchedIsPrinter == NSpec => Spec
<1>1. NInit => Init
  BY DEF NInit
<1>2. [NNext]_nvars => [Next]_vars
  BY DEF NNext, nvars, Next, HandleRequest, BeginRequestAsync, EndRequestAsync
<1>3. QED
  BY <1>1, <1>2, PTL DEF NSpec, Spec
=============================================================================
